------------------------------- MODULE Settings --------------------------------
(***************************************************************************)
(* What the operator configures for all: the credentials of a service in   *)
(* the .env file and in process.env (credentials-manager.ts), the key      *)
(* value store with expiry (kv-storage.ts), and the configuration of the   *)
(* Telegram alerts that is kept in it (notifications/telegram.ts), with    *)
(* their routes (server.ts).                                               *)
(*                                                                         *)
(* Reading the file, opening it to write (which empties it) and writing it *)
(* are awaited, and each may fail; the key value store and the Telegram    *)
(* routes never leave the microtask queue, so each is one step.  A service *)
(* has one credential; its values are versions.                            *)
(***************************************************************************)
EXTENDS Naturals, Sequences, FiniteSets, SequencesExt

CONSTANTS
  Plain,       (* services whose section header parseEnvFile recognises    *)
  Odd,         (* services whose header it does not, as with a hyphen      *)
  Longer,      (* pairs of services: the prefix of the first begins that of the second *)
  SettingCalls, (* requests in flight                                     *)
  MaxVersions, MaxCrashes, MaxAge (* bounds                                *)

ASSUME SettingsAssumption ==
  /\ Plain \cap Odd = {} /\ "General" \notin Plain \cup Odd
  /\ Longer \subseteq (Plain \cup Odd) \X (Plain \cup Odd)
  /\ {MaxVersions, MaxCrashes, MaxAge} \subseteq Nat

VARIABLES
  env,      (* the .env file: its sections in order                        *)
  runtime,  (* process.env: service -> version (0: none)                   *)
  edit,     (* request -> operation, where it is, the sections it will write *)
  versions, (* values given so far                                         *)
  crashes,  (* the server died this often                                  *)
  met,      (* requests overlap, since the file was last at rest           *)
  unsure,   (* history: services that an overlap, a failed call or the     *)
            (* deletion of a shorter name may have left in one place only  *)
  cell,     (* key -> time left (0: absent, Forever: no expiry), its value *)
  alerts    (* the Telegram configuration in use; hence the bot            *)
settingsVars == <<env, runtime, edit, versions, crashes, met, unsure, cell, alerts>>
fileVars == <<env, runtime, edit, versions, crashes, met, unsure>>

Services == Plain \cup Odd
Under(service) == {service} \cup {s \in Services : <<service, s>> \in Longer}
TelegramKeys == {"enabled", "token", "chat"}
Forever == MaxAge + 1
NoValue == [left |-> 0, on |-> FALSE]
Empty == <<>>
NoEdit == [at |-> "idle", op |-> "none", service |-> "none", version |-> 0, write |-> Empty]
With(f, s, v) == [x \in DOMAIN f \cup {s} |-> IF x = s THEN v ELSE f[x]]

SettingsInit ==
  /\ env = Empty /\ runtime = [s \in Services |-> 0] /\ edit = [c \in SettingCalls |-> NoEdit]
  /\ versions = 0 /\ crashes = 0 /\ met = FALSE /\ unsure = {}
  /\ cell = [k \in TelegramKeys |-> NoValue] /\ alerts = [k \in TelegramKeys |-> FALSE]

-----------------------------------------------------------------------------
(* parseEnvFile: a section whose header is not recognised falls to the one *)
(* before it.                                                              *)
ParseEnvFile(file) ==
  LET join(sections, s) ==
        IF s.name \notin Odd THEN Append(sections, s)
        ELSE IF sections = Empty THEN <<[name |-> "General", vars |-> s.vars]>>
        ELSE [sections EXCEPT ![Len(sections)].vars = [x \in DOMAIN @ \cup DOMAIN s.vars |-> IF x \in DOMAIN s.vars THEN s.vars[x] ELSE @[x]]]
  IN FoldLeft(join, Empty, file)
(* buildEnvFile leaves out empty sections.                                 *)
BuildEnvFile(sections) ==
  FoldLeft(LAMBDA file, s : IF DOMAIN s.vars = {} THEN file ELSE Append(file, s), Empty, sections)

(* saveCredentials: the section of the service, new at the end.            *)
Saved(sections, service, version) ==
  IF \E i \in DOMAIN sections : sections[i].name = service
  THEN [i \in DOMAIN sections |-> IF sections[i].name # service THEN sections[i]
                                  ELSE [sections[i] EXCEPT !.vars = With(@, service, version)]]
  ELSE Append(sections, [name |-> service, vars |-> With(<<>>, service, version)])

(* deleteCredentials: the section of that name, of which there is one.     *)
Deleted(sections, service) == RemoveAt(sections, CHOOSE i \in DOMAIN sections : sections[i].name = service)

(* The requests begin by reading the file.  Of two that overlap one may    *)
(* read what the other has cut short, or write over what it wrote.         *)
Editing(c) == edit[c].at # "idle"
ReadsEnv(c, op, service, version) ==
  /\ ~Editing(c) /\ edit' = [edit EXCEPT ![c] = [NoEdit EXCEPT !.at = "read", !.op = op, !.service = service, !.version = version]]
  /\ met' = (met \/ \E d \in SettingCalls : Editing(d))
  /\ unsure' = IF \E d \in SettingCalls : Editing(d) THEN Services ELSE unsure
  /\ UNCHANGED <<env, runtime, crashes>>
SaveCredentials(c, service) ==
  versions < MaxVersions /\ versions' = versions + 1 /\ ReadsEnv(c, "save", service, versions')
DeleteCredentials(c, service) == ReadsEnv(c, "delete", service, 0) /\ UNCHANGED versions

Ends(c) == edit' = [edit EXCEPT ![c] = NoEdit] /\ met' = (met /\ \E d \in SettingCalls \ {c} : Editing(d))

(* The sections are edited; a save sets the environment before it writes.  *)
Edits(c, sections) ==
  LET service == edit[c].service
      Rewrite(new) ==
        edit' = [edit EXCEPT ![c].at = "open", ![c].write = BuildEnvFile(new)] /\ UNCHANGED met
  IN IF edit[c].op = "save"
     THEN /\ runtime' = [runtime EXCEPT ![service] = edit[c].version]
          /\ Rewrite(Saved(sections, service, edit[c].version))
     ELSE /\ UNCHANGED runtime
          /\ IF \E i \in DOMAIN sections : sections[i].name = service
             THEN Rewrite(Deleted(sections, service)) ELSE Ends(c)
Rewrites(c) ==
  edit[c].at = "read" /\ Edits(c, ParseEnvFile(env)) /\ UNCHANGED <<env, versions, crashes, unsure>>
(* A save takes a file it cannot read for an empty one; a deletion ends.   *)
ReadFails(c) ==
  /\ edit[c].at = "read" /\ Edits(c, Empty)
  /\ unsure' = IF edit[c].op = "save" THEN unsure \cup (Services \ {edit[c].service}) ELSE unsure
  /\ UNCHANGED <<env, versions, crashes>>

(* writeFile empties the file, then writes it.                             *)
OpensEnv(c) ==
  /\ edit[c].at = "open" /\ env' = Empty /\ edit' = [edit EXCEPT ![c].at = "write"]
  /\ UNCHANGED <<runtime, versions, crashes, met, unsure>>
(* A write that nothing overlapped settles its service.                    *)
Settled(c) ==
  unsure' = IF met THEN unsure
            ELSE (IF edit[c].op = "delete" THEN unsure \cup Under(edit[c].service) ELSE unsure) \ {edit[c].service}
(* Mutant: the deleted credentials stay in the environment. *)
WritesOnly(c) ==
  /\ edit[c].at = "write" /\ env' = edit[c].write /\ Ends(c) /\ Settled(c)
  /\ UNCHANGED <<runtime, versions, crashes>>
(* A deletion then clears every variable that begins with the prefix.      *)
Writes(c) ==
  /\ edit[c].at = "write" /\ env' = edit[c].write /\ Ends(c) /\ Settled(c)
  /\ runtime' = [s \in Services |-> IF edit[c].op = "delete" /\ s \in Under(edit[c].service) THEN 0 ELSE runtime[s]]
  /\ UNCHANGED <<versions, crashes>>
(* The error is caught: the environment and the file stay as they are.     *)
EnvWriteFails(c) ==
  /\ edit[c].at \in {"open", "write"} /\ Ends(c)
  /\ unsure' = CASE edit[c].at = "write" -> Services
               [] edit[c].at = "open" /\ edit[c].op = "save" -> unsure \cup {edit[c].service}
               [] OTHER -> unsure
  /\ UNCHANGED <<env, runtime, versions, crashes>>

(* getCredentials answers from process.env, with all of the prefix.        *)
GetCredentials(service) == [s \in Under(service) |-> runtime[s]]
(* What dotenv finds in the file: the first line of a key.                 *)
InFile(service) ==
  LET at == {i \in DOMAIN env : service \in DOMAIN env[i].vars}
  IN IF at = {} THEN 0 ELSE env[CHOOSE i \in at : \A j \in at : i <= j].vars[service]
(* The process ends and starts again: the environment is that of the file. *)
Restarts ==
  /\ crashes < MaxCrashes /\ crashes' = crashes + 1
  /\ met' = FALSE /\ unsure' = {}
  /\ runtime' = [s \in Services |-> InFile(s)] /\ edit' = [c \in SettingCalls |-> NoEdit]
  /\ UNCHANGED <<env, versions>>

CredentialsNext ==
  /\ \/ \E c \in SettingCalls :
          \/ \E s \in Services : SaveCredentials(c, s) \/ DeleteCredentials(c, s)
          \/ Rewrites(c) \/ ReadFails(c) \/ OpensEnv(c) \/ Writes(c) \/ EnvWriteFails(c)
     \/ Restarts
  /\ UNCHANGED <<cell, alerts>>

-----------------------------------------------------------------------------
(* The key value store.  The routes of /api/kv take any key; a value is    *)
(* "true", or a text that is not empty, or it is not.                      *)
Present(k) == cell[k].left # 0
KvSet(k) ==
  /\ \E ttl \in 1..Forever, on \in BOOLEAN : cell' = [cell EXCEPT ![k] = [left |-> ttl, on |-> on]]
  /\ UNCHANGED alerts
KvDelete(k) == Present(k) /\ cell' = [cell EXCEPT ![k] = NoValue] /\ UNCHANGED alerts
(* An entry expires: get, has and the clean-up of each minute drop it.     *)
KvAges ==
  /\ \E k \in TelegramKeys : cell[k].left \in 1..MaxAge
  /\ cell' = [k \in TelegramKeys |-> CASE cell[k].left = 1 -> NoValue
                                     [] cell[k].left \in 2..MaxAge -> [cell[k] EXCEPT !.left = @ - 1]
                                     [] OTHER -> cell[k]]
  /\ UNCHANGED alerts

(* POST notifications/telegram stores the fields that are given, for good, *)
(* but no empty token, and configures the alerts from all that is stored.  *)
UpdateConfig == alerts' = [k \in TelegramKeys |-> cell'[k].left # 0 /\ cell'[k].on]
SaveTelegram ==
  /\ \E given \in SUBSET TelegramKeys, on \in [TelegramKeys -> BOOLEAN] :
       cell' = [k \in TelegramKeys |-> IF k \in given /\ (k = "token" => on[k])
                                      THEN [left |-> Forever, on |-> on[k]] ELSE cell[k]]
  /\ UpdateConfig
(* GET notifications/telegram: what is stored, else what is in use.        *)
ShownTelegram(k) ==
  IF k = "enabled" /\ Present(k) THEN cell[k].on ELSE (Present(k) /\ cell[k].on) \/ alerts[k]
Bot == \A k \in TelegramKeys : alerts[k]

(* A restart empties the store; the alerts are those of the environment.   *)
RestartsAlerts == cell' = [k \in TelegramKeys |-> NoValue] /\ alerts' \in [TelegramKeys -> BOOLEAN]

AlertsNext ==
  /\ (\E k \in TelegramKeys : KvSet(k) \/ KvDelete(k)) \/ KvAges \/ SaveTelegram \/ RestartsAlerts
  /\ UNCHANGED fileVars

-----------------------------------------------------------------------------
(* Whenever no request is open, the credentials in use and those in the    *)
(* file are the same, so that a restart brings back exactly what was saved *)
(* and nothing that was deleted: of every service but those that requests  *)
(* at the same time, a call that failed, or the deletion of a service with *)
(* a shorter name may have parted; and saving such a service once more, or *)
(* a restart, makes it agree again (saveCredentials, deleteCredentials).   *)
CredentialsPersist ==
  (\A c \in SettingCalls : ~Editing(c)) => \A s \in Plain \ unsure : InFile(s) = GetCredentials(s)[s]

(* The same for services whose header is not recognised.  It does not      *)
(* hold: their lines go with the section before, and are never deleted.    *)
OddCredentialsPersist ==
  (\A c \in SettingCalls : ~Editing(c)) => \A s \in Odd \ unsure : InFile(s) = GetCredentials(s)[s]

(* The alerts are sent when the settings page says so.  It does not hold:  *)
(* the key may expire, or be set through /api/kv.                          *)
AlertsAsShown == Bot <=> \A k \in TelegramKeys : ShownTelegram(k)
=============================================================================
