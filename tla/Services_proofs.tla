---------------------------- MODULE Services_proofs ----------------------------
(***************************************************************************)
(* What the services promise, for any accounts, strategies, markets, calls *)
(* in flight, saves, master keys and restarts: credentials stay readable,  *)
(* a strategy the table calls active runs, what the runner's broker cleans *)
(* up was not needed, no position risks more than it was to, and none is   *)
(* entered without the extreme its strategy waits for.                     *)
(***************************************************************************)
EXTENDS Accounts, UserStrategies, Broker, Sizing, Signals, TLAPS

AccountsSpec == AccountsInit /\ [][AccountsNext]_accountVars
UserStrategiesSpec == UserStrategiesInit /\ [][UserStrategiesNext]_userVars
BrokerSpec == BrokerInit /\ [][BrokerNext]_brokerVars
SizingSpec == SizingInit /\ [][SizingNext]_sized
SignalsSpec == SignalsInit /\ [][SignalsNext]_signalVars

(* Salt and ciphertext of a row are of the same save, and its account is   *)
(* there.                                                                  *)
CredentialsInv ==
  \A i \in DOMAIN creds :
    /\ i \in DOMAIN users
    /\ DOMAIN creds[i] = {"cipher", "salt", "key", "active"} /\ creds[i].cipher = creds[i].salt

(* A strategy that is active without an instance is about to get one, to   *)
(* be marked, or to be paused by the boot, or its update failed.           *)
Owed(k) ==
  \/ k \in booting
  \/ \E c \in UserCalls : ucall[c].k = k /\ ucall[c].pc \in {"saved", "failed", "stopping"}

RowsInv ==
  /\ DOMAIN row = Strategies /\ DOMAIN ucall = UserCalls
  /\ \A c \in UserCalls : DOMAIN ucall[c] = {"pc", "k", "e", "l"}
  /\ \A k \in Strategies : row[k] = "active" => k \in DOMAIN running \cup unsaved \/ Owed(k)

(* An order the orphan scan has seen is no entry that may still fill, and  *)
(* one it is about to cancel belongs to no exposure.                       *)
BooksInv ==
  /\ placed \in Nat /\ children \cap resting = {}
  /\ \A x \in resting \cup children \cup exposure : x.id \in 1..placed
CallsInv ==
  /\ DOMAIN bcall = BrokerCalls
  /\ \A c \in BrokerCalls : DOMAIN bcall[c] = {"at", "m", "side", "seen", "was"}
  /\ \A c \in BrokerCalls : bcall[c].at \in {"scanned", "cancelling"} =>
       (\A x \in bcall[c].seen : x.id \in 1..placed) /\ bcall[c].seen \cap resting = {}
  /\ \A c \in BrokerCalls : Called(c, "cancelling") => bcall[c].seen \cap exposure = {}
BrokerInv == BooksInv /\ CallsInv

-----------------------------------------------------------------------------
(* Credentials *)

LEMMA CredentialsKept ==
  ASSUME CredentialsInv, [AccountsNext]_accountVars
  PROVE  CredentialsInv'
<1> USE DEF CredentialsInv
<1>1. CASE UNCHANGED <<users, creds>>
  BY <1>1
<1>2. ASSUME NEW e, NEW p, Register(e, p) PROVE CredentialsInv'
  BY <1>2 DEF Register, PutRow
<1>3. ASSUME NEW i, NEW p, ResetPassword(i, p) PROVE CredentialsInv'
  BY <1>3 DEF ResetPassword
<1>4. ASSUME NEW i, ToggleActive(i) PROVE CredentialsInv'
  BY <1>4 DEF ToggleActive
<1>5. ASSUME NEW i, DeleteUser(i) PROVE CredentialsInv'
  BY <1>5 DEF DeleteUser, Restrict
<1>6. ASSUME NEW t, SaveCredentials(t) PROVE CredentialsInv'
  <2> DEFINE r == CredRow(saves')
  <2>1. DOMAIN r = {"cipher", "salt", "key", "active"} /\ r.cipher = r.salt
    BY DEF CredRow
  <2>2. creds' = PutRow(creds, t.id, r) /\ t.id \in DOMAIN users /\ users' = users
    BY <1>6 DEF SaveCredentials, Upsert
  <2> HIDE DEF r
  <2> QED BY <2>1, <2>2 DEF PutRow
<1>7. ASSUME NEW c, LoadDecrypt(c) PROVE CredentialsInv'
  <2>1. users' = users /\ (creds' = creds \/ creds' = [creds EXCEPT ![acall[c].id].active = FALSE])
    BY <1>7 DEF LoadDecrypt
  <2> QED BY <2>1
<1>8. ASSUME NEW t, DeleteCredentials(t) PROVE CredentialsInv'
  BY <1>8 DEF DeleteCredentials, Restrict
<1>9. ASSUME NEW c, NEW e, NEW p, NEW t, LoginRead(c, e, p) \/ LoginAnswer(c) \/ LoadRead(c, t) \/ NewMasterKey
      PROVE  UNCHANGED <<users, creds>>
  BY <1>9 DEF LoginRead, LoginAnswer, LoadRead, NewMasterKey
<1> QED BY <1>1, <1>2, <1>3, <1>4, <1>5, <1>6, <1>7, <1>8, <1>9 DEF AccountsNext, accountVars

(* Saved under the master key in use, a row can be decrypted, and belongs  *)
(* to an account that exists: saveCredentials writes ciphertext and salt   *)
(* together, and the deletion of an account takes its row along.           *)
THEOREM CredentialsReadable == AccountsSpec => []SavedReadable
<1>1. AccountsInit => CredentialsInv
  BY DEF AccountsInit, CredentialsInv
<1>2. CredentialsInv /\ [AccountsNext]_accountVars => CredentialsInv'
  BY CredentialsKept
<1>3. CredentialsInv => SavedReadable
  BY DEF CredentialsInv, SavedReadable, Readable
<1> QED BY <1>1, <1>2, <1>3, PTL DEF AccountsSpec

(* The types.  A row of user_credentials was encrypted with a master key   *)
(* there has been and a salt that was drawn; a token is of an account.     *)
UserRow == [email : Emails, pass : Passwords, admin : BOOLEAN, active : BOOLEAN]
AccountsTyped ==
  /\ accounts \in 0..MaxUsers /\ saves \in Nat /\ master \in Nat \ {0} /\ DOMAIN acall = AccountCalls
  /\ \A i \in DOMAIN users : users[i] \in UserRow
  /\ \A c \in AccountCalls : acall[c].op = "login" => acall[c].id \in 1..accounts /\ acall[c].row \in UserRow

LEMMA AccountTypesKept ==
  ASSUME AccountsTyped, AccountsTypeOK, [AccountsNext]_accountVars
  PROVE  AccountsTyped' /\ AccountsTypeOK'
<1> USE DEF AccountsTyped, AccountsTypeOK
<1>0. NoCall.op = "none"
  BY DEF NoCall
<1>1. CASE UNCHANGED accountVars
  BY <1>1 DEF accountVars
<1>2. ASSUME NEW e \in Emails, NEW p \in Passwords, Register(e, p) PROVE AccountsTyped' /\ AccountsTypeOK'
  <2> DEFINE made == [email |-> e, pass |-> p, admin |-> e \in AdminEmails, active |-> TRUE]
  <2>1. made \in UserRow
    BY DEF UserRow
  <2>2. /\ accounts < MaxUsers /\ accounts' = accounts + 1 /\ UNCHANGED <<tokens, creds, saves, master, acall>>
        /\ users' = PutRow(users, accounts', made)
    BY <1>2 DEF Register
  <2>3. accounts' \in 0..MaxUsers /\ 1..accounts \subseteq 1..accounts' /\ accounts' \in 1..accounts'
    BY <2>2, AccountsAssumption
  <2> HIDE DEF made
  <2>4. DOMAIN users' = DOMAIN users \cup {accounts'} /\ \A i \in DOMAIN users' : users'[i] \in UserRow
    BY <2>1, <2>2 DEF PutRow
  <2>5. DOMAIN users' \subseteq 1..accounts'
    BY <2>3, <2>4
  <2> QED BY <2>2, <2>3, <2>4, <2>5 DEF UserRow
<1>3. ASSUME NEW c \in AccountCalls, NEW e \in Emails, NEW p \in Passwords, LoginRead(c, e, p)
      PROVE  AccountsTyped' /\ AccountsTypeOK'
  <2>1. PICK i \in WithEmail(e) : acall' = [acall EXCEPT ![c] = [op |-> "login", id |-> i, row |-> users[i], given |-> p]]
    BY <1>3 DEF LoginRead
  <2>2. i \in DOMAIN users /\ i \in 1..accounts
    BY DEF WithEmail
  <2>3. UNCHANGED <<users, accounts, tokens, creds, saves, master>>
    BY <1>3 DEF LoginRead
  <2> QED BY <2>1, <2>2, <2>3
<1>4. ASSUME NEW c \in AccountCalls, LoginAnswer(c) PROVE AccountsTyped' /\ AccountsTypeOK'
  <2>1. /\ acall[c].op = "login" /\ acall' = [acall EXCEPT ![c] = NoCall]
        /\ tokens' \subseteq tokens \cup {[id |-> acall[c].id, admin |-> acall[c].row.admin]}
        /\ UNCHANGED <<users, accounts, creds, saves, master>>
    BY <1>4 DEF LoginAnswer
  <2>2. acall[c].id \in 1..MaxUsers /\ acall[c].row.admin \in BOOLEAN
    BY <2>1, AccountsAssumption DEF UserRow
  <2>3. [id |-> acall[c].id, admin |-> acall[c].row.admin] \in Token
    BY <2>2 DEF Token
  <2>4. tokens' \subseteq Token
    BY <2>1, <2>3
  <2> QED BY <1>0, <2>1, <2>4
<1>5. ASSUME NEW i \in DOMAIN users, NEW p \in Passwords, ResetPassword(i, p) \/ ToggleActive(i)
      PROVE  AccountsTyped' /\ AccountsTypeOK'
  <2>1. \/ users' = [users EXCEPT ![i].pass = p]
        \/ users' = [users EXCEPT ![i].active = ~@]
    BY <1>5 DEF ResetPassword, ToggleActive
  <2>2. UNCHANGED <<accounts, tokens, creds, saves, master, acall>>
    BY <1>5 DEF ResetPassword, ToggleActive
  <2>3. ASSUME users' = [users EXCEPT ![i].pass = p]
        PROVE  DOMAIN users' = DOMAIN users /\ \A j \in DOMAIN users : users'[j] \in UserRow
    <3>1. DOMAIN users' = DOMAIN users /\ \A j \in DOMAIN users : j # i => users'[j] = users[j]
      BY <2>3
    <3>2. users'[i] = [users[i] EXCEPT !.pass = p]
      BY <2>3
    <3>3. users'[i] \in UserRow
      BY <3>2 DEF UserRow
    <3> QED BY <3>1, <3>3
  <2>4. ASSUME users' = [users EXCEPT ![i].active = ~@]
        PROVE  DOMAIN users' = DOMAIN users /\ \A j \in DOMAIN users : users'[j] \in UserRow
    <3>1. DOMAIN users' = DOMAIN users /\ \A j \in DOMAIN users : j # i => users'[j] = users[j]
      BY <2>4
    <3>2. users'[i] = [users[i] EXCEPT !.active = ~@]
      BY <2>4
    <3>3. users'[i] \in UserRow
      BY <3>2 DEF UserRow
    <3> QED BY <3>1, <3>3
  <2>5. DOMAIN users' = DOMAIN users /\ \A j \in DOMAIN users : users'[j] \in UserRow
    BY <2>1, <2>3, <2>4
  <2> QED BY <2>2, <2>5 DEF UserRow
<1>6. ASSUME NEW i \in DOMAIN users, DeleteUser(i) PROVE AccountsTyped' /\ AccountsTypeOK'
  BY <1>6 DEF DeleteUser, Restrict
<1>7. ASSUME NEW t \in tokens, SaveCredentials(t) PROVE AccountsTyped' /\ AccountsTypeOK'
  <2>1. /\ saves' = saves + 1 /\ UNCHANGED <<users, accounts, tokens, master, acall>>
        /\ creds' = PutRow(creds, t.id, CredRow(saves'))
    BY <1>7 DEF SaveCredentials, Upsert
  <2> DEFINE Rows == [cipher : 1..saves', salt : 1..saves', key : 1..master, active : BOOLEAN]
  <2>2. CredRow(saves') \in Rows
    BY <2>1 DEF CredRow
  <2>3. \A r : r \in [cipher : 1..saves, salt : 1..saves, key : 1..master, active : BOOLEAN] => r \in Rows
    BY <2>1
  <2> HIDE DEF Rows
  <2>4. \A j \in DOMAIN creds' : creds'[j] \in Rows
    BY <2>1, <2>2, <2>3 DEF PutRow
  <2> QED BY <2>1, <2>4 DEF Rows
<1>8. ASSUME NEW c \in AccountCalls, NEW t \in tokens, LoadRead(c, t) PROVE AccountsTyped' /\ AccountsTypeOK'
  <2>1. /\ acall' = [acall EXCEPT ![c] = [op |-> "load", id |-> t.id, row |-> creds[t.id], given |-> ""]]
        /\ UNCHANGED <<users, accounts, tokens, creds, saves, master>>
    BY <1>8 DEF LoadRead
  <2> QED BY <2>1
<1>9. ASSUME NEW c \in AccountCalls, LoadDecrypt(c) PROVE AccountsTyped' /\ AccountsTypeOK'
  <2>1. /\ acall' = [acall EXCEPT ![c] = NoCall] /\ UNCHANGED <<users, accounts, tokens, saves, master>>
        /\ creds' = creds \/ creds' = [creds EXCEPT ![acall[c].id].active = FALSE]
    BY <1>9 DEF LoadDecrypt
  <2>2. ASSUME NEW i \in DOMAIN creds'
        PROVE  creds'[i] \in [cipher : 1..saves, salt : 1..saves, key : 1..master, active : BOOLEAN]
    <3>1. i \in DOMAIN creds /\ (creds'[i] = creds[i] \/ creds'[i] = [creds[i] EXCEPT !.active = FALSE])
      BY <2>1
    <3> QED BY <3>1
  <2> QED BY <1>0, <2>1, <2>2
<1>10. ASSUME NEW t \in tokens, DeleteCredentials(t) PROVE AccountsTyped' /\ AccountsTypeOK'
  BY <1>10 DEF DeleteCredentials, Restrict
<1>11. CASE NewMasterKey
  <2>1. /\ master' = master + 1 /\ acall' = [c \in AccountCalls |-> NoCall]
        /\ UNCHANGED <<users, accounts, tokens, creds, saves>>
    BY <1>11 DEF NewMasterKey
  <2>2. 1..master \subseteq 1..master' /\ master' \in Nat \ {0}
    BY <2>1
  <2>3. \A i \in DOMAIN creds : creds[i] \in [cipher : 1..saves, salt : 1..saves, key : 1..master', active : BOOLEAN]
    BY <2>2
  <2> QED BY <1>0, <2>1, <2>2, <2>3
<1> QED BY <1>1, <1>2, <1>3, <1>4, <1>5, <1>6, <1>7, <1>8, <1>9, <1>10, <1>11 DEF AccountsNext

(* The types hold: a row of user_credentials has a master key there has    *)
(* been and a salt that was drawn, and a token in use is of an account.    *)
THEOREM AccountsTypeCorrect == AccountsSpec => []AccountsTypeOK
<1>1. AccountsInit => AccountsTyped /\ AccountsTypeOK
  BY AccountsAssumption DEF AccountsInit, AccountsTyped, AccountsTypeOK, NoCall
<1>2. AccountsTyped /\ AccountsTypeOK /\ [AccountsNext]_accountVars => AccountsTyped' /\ AccountsTypeOK'
  BY AccountTypesKept
<1> QED BY <1>1, <1>2, PTL DEF AccountsSpec


-----------------------------------------------------------------------------
(* Rows and instances *)

(* A request that touches neither rows nor instances keeps what it owes.   *)
LEMMA RowsUntouched ==
  ASSUME RowsInv, NEW c \in UserCalls, UNCHANGED <<booting, row, running, unsaved>>,
         ucall[c].pc \notin {"saved", "failed", "stopping"},
         DOMAIN ucall' = UserCalls, DOMAIN ucall'[c] = {"pc", "k", "e", "l"},
         \A d \in UserCalls \ {c} : ucall'[d] = ucall[d]
  PROVE  RowsInv'
BY DEF RowsInv, Owed

(* One row is written, or its update failed.                               *)
LEMMA RowWritten ==
  ASSUME RowsInv, NEW c \in UserCalls, UNCHANGED booting,
         DOMAIN ucall' = UserCalls, DOMAIN ucall'[c] = {"pc", "k", "e", "l"}, ucall'[c].k = ucall[c].k \/ ucall'[c].pc = "free",
         \A d \in UserCalls \ {c} : ucall'[d] = ucall[d],
         DOMAIN row' = Strategies,
         \A j \in Strategies \ {ucall[c].k} : row'[j] = row[j] /\ (j \in unsaved => j \in unsaved'),
         \A j \in Strategies : j \in DOMAIN running => j \in DOMAIN running',
         \/ ucall[c].k \notin Strategies
         \/ row'[ucall[c].k] # "active"
         \/ ucall[c].k \in unsaved' \cup DOMAIN running'
         \/ ucall'[c].k = ucall[c].k /\ ucall'[c].pc \in {"saved", "failed", "stopping"}
  PROVE  RowsInv'
<1>1. ASSUME NEW j \in Strategies, row'[j] = "active", j = ucall[c].k
      PROVE  (j \in DOMAIN running \cup unsaved \/ Owed(j))'
  BY <1>1 DEF Owed
<1>2. ASSUME NEW j \in Strategies, row'[j] = "active", j # ucall[c].k
      PROVE  (j \in DOMAIN running \cup unsaved \/ Owed(j))'
  <2>1. row[j] = "active"
    BY <1>2
  <2>2. CASE j \in DOMAIN running \cup unsaved
    BY <1>2, <2>2
  <2>3. CASE j \in booting
    BY <2>3 DEF Owed
  <2>4. ASSUME NEW d \in UserCalls, ucall[d].k = j, ucall[d].pc \in {"saved", "failed", "stopping"} PROVE Owed(j)'
    BY <1>2, <2>4 DEF Owed
  <2> QED BY <2>1, <2>2, <2>3, <2>4 DEF RowsInv, Owed
<1>3. \A d \in UserCalls : DOMAIN ucall'[d] = {"pc", "k", "e", "l"}
  BY DEF RowsInv
<1> QED BY <1>1, <1>2, <1>3 DEF RowsInv

LEMMA RowsKept ==
  ASSUME RowsInv, [UserStrategiesNext]_userVars
  PROVE  RowsInv'
<1>0. Free.pc = "free" /\ DOMAIN Free = {"pc", "k", "e", "l"}
  BY DEF Free
<1>1. CASE UNCHANGED userVars
  BY <1>1 DEF userVars, RowsInv, Owed
<1>2. ASSUME NEW c \in UserCalls,
             \/ ConnectCheck(c) \/ ConnectClient(c) \/ ConnectLinked(c) \/ ConnectUnflag(c)
             \/ DisconnectFlag(c) \/ DisconnectLink(c) \/ StartSelect(c) \/ StartSubscribe(c)
      PROVE  RowsInv'
  <2>1. UNCHANGED <<booting, row, running, unsaved>> /\ ucall[c].pc \notin {"saved", "failed", "stopping"}
    BY <1>2 DEF ConnectCheck, ConnectClient, ConnectLinked, ConnectUnflag, UAt,
                DisconnectFlag, DisconnectLink, StartSelect, StartSubscribe
  <2>2. /\ DOMAIN ucall' = UserCalls /\ DOMAIN ucall'[c] = {"pc", "k", "e", "l"}
        /\ \A d \in UserCalls \ {c} : ucall'[d] = ucall[d]
    BY ZenonT(40), <1>2 DEF ConnectCheck, ConnectClient, ConnectLinked, ConnectUnflag, RowsInv, UGoto, UEnd, Free,
                DisconnectFlag, DisconnectLink, StartSelect, StartSubscribe
  <2> QED BY <2>1, <2>2, RowsUntouched
<1>3. ASSUME NEW c \in UserCalls, NEW k \in Strategies, StartCheck(c, k) PROVE RowsInv'
  <2>1. UNCHANGED <<booting, row, running, unsaved>> /\ ucall[c].pc \notin {"saved", "failed", "stopping"}
    BY <1>3 DEF StartCheck, UAt
  <2>2. /\ DOMAIN ucall' = UserCalls /\ DOMAIN ucall'[c] = {"pc", "k", "e", "l"}
        /\ \A d \in UserCalls \ {c} : ucall'[d] = ucall[d]
    BY <1>3 DEF StartCheck, RowsInv
  <2> QED BY <2>1, <2>2, RowsUntouched
<1>4. ASSUME NEW c \in UserCalls, StartSave(c) PROVE RowsInv'
  <2>1. \E p \in {"saved", "failed"} : ucall' = [ucall EXCEPT ![c].pc = p]
    BY <1>4 DEF StartSave, UGoto
  <2>2. /\ DOMAIN ucall' = UserCalls /\ DOMAIN ucall'[c] = {"pc", "k", "e", "l"}
        /\ ucall'[c].k = ucall[c].k /\ ucall'[c].pc \in {"saved", "failed"}
        /\ \A d \in UserCalls \ {c} : ucall'[d] = ucall[d]
    BY <2>1 DEF RowsInv
  <2>3. /\ DOMAIN row' = Strategies /\ UNCHANGED <<booting, running>>
        /\ \A j \in Strategies \ {ucall[c].k} : row'[j] = row[j] /\ (j \in unsaved => j \in unsaved')
    BY <1>4 DEF StartSave, Update, RowsInv
  <2> QED BY <2>2, <2>3, RowWritten
<1>5. ASSUME NEW c \in UserCalls, StartInstance(c) PROVE RowsInv'
  <2>1. /\ UNCHANGED <<booting, row, unsaved>> /\ DOMAIN running' = DOMAIN running \cup {ucall[c].k}
        /\ ucall' = [ucall EXCEPT ![c].pc = "initialized"]
    BY <1>5 DEF StartInstance, UGoto
  <2>2. /\ DOMAIN ucall' = UserCalls /\ DOMAIN ucall'[c] = {"pc", "k", "e", "l"} /\ ucall'[c].k = ucall[c].k
        /\ \A d \in UserCalls \ {c} : ucall'[d] = ucall[d]
    BY <2>1 DEF RowsInv
  <2>3. DOMAIN row' = Strategies
    BY <2>1 DEF RowsInv
  <2> QED BY <2>1, <2>2, <2>3, RowWritten
<1>6. ASSUME NEW c \in UserCalls, StartFailed(c) \/ StopRow(c) PROVE RowsInv'
  <2>1. /\ UNCHANGED <<booting, running>> /\ ucall' = [ucall EXCEPT ![c] = Free]
        /\ \/ \E s \in {"error", "stopped"} : Update(ucall[c].k, s)
           \/ row[ucall[c].k] = "none" /\ UNCHANGED <<row, unsaved>>
           \/ UpdateFails(ucall[c].k)
    BY <1>6 DEF StartFailed, StopRow, UEnd
  <2>2. /\ DOMAIN ucall' = UserCalls /\ DOMAIN ucall'[c] = {"pc", "k", "e", "l"} /\ ucall'[c].pc = "free"
        /\ \A d \in UserCalls \ {c} : ucall'[d] = ucall[d]
    BY <1>0, <2>1 DEF RowsInv
  <2>3. /\ DOMAIN row' = Strategies
        /\ \A j \in Strategies \ {ucall[c].k} : row'[j] = row[j] /\ (j \in unsaved => j \in unsaved')
        /\ \/ ucall[c].k \notin Strategies \/ row'[ucall[c].k] # "active" \/ ucall[c].k \in unsaved'
    BY <2>1 DEF Update, UpdateFails, RowsInv
  <2> QED BY <2>1, <2>2, <2>3, RowWritten
<1>7. ASSUME NEW c \in UserCalls, NEW k \in Strategies, StopInstance(c, k) PROVE RowsInv'
  <2>1. /\ UNCHANGED <<booting, row, unsaved>> /\ DOMAIN running' = DOMAIN running \ {k}
        /\ ucall' = [ucall EXCEPT ![c] = [Free EXCEPT !.pc = "stopping", !.k = k]]
        /\ ucall[c].pc = "free"
    BY <1>7 DEF StopInstance, Restrict, UAt
  <2>2. /\ DOMAIN ucall' = UserCalls /\ DOMAIN ucall'[c] = {"pc", "k", "e", "l"}
        /\ ucall'[c].pc = "stopping" /\ ucall'[c].k = k
        /\ \A d \in UserCalls \ {c} : ucall'[d] = ucall[d]
    BY <2>1 DEF RowsInv, Free
  <2> QED BY <2>1, <2>2 DEF RowsInv, Owed
<1>8. ASSUME NEW l, LinkFlips(l) PROVE RowsInv'
  BY <1>8 DEF LinkFlips, RowsInv, Owed
<1>9. CASE ServerDies
  BY <1>0, <1>9 DEF ServerDies, RowsInv, Owed
<1>10. CASE BootGivesUp
  BY <1>10 DEF BootGivesUp, RowsInv, Owed
<1>11. ASSUME NEW k \in Strategies, BootPause(k) PROVE RowsInv'
  <2>1. /\ booting' = booting \ {k} /\ UNCHANGED <<running, ucall>> /\ unsaved' = unsaved \ {k}
        /\ \E s \in {"paused", "error"} : row' = [row EXCEPT ![k] = s]
    BY <1>11 DEF BootPause, Update
  <2> QED BY <2>1 DEF RowsInv, Owed
<1> QED BY <1>1, <1>2, <1>3, <1>4, <1>5, <1>6, <1>7, <1>8, <1>9, <1>10, <1>11 DEF UserStrategiesNext

(* With no request in flight, a strategy that user_strategies calls active *)
(* has a running instance, or the last update of its status failed,        *)
(* whatever starts and stops ran concurrently and whatever queries failed, *)
(* and however often the server died.                                      *)
THEOREM ActiveRun == UserStrategiesSpec => []ActiveRowsRun
<1>1. UserStrategiesInit => RowsInv
  BY DEF UserStrategiesInit, RowsInv, Owed, Free
<1>2. RowsInv /\ [UserStrategiesNext]_userVars => RowsInv'
  BY RowsKept
<1>3. RowsInv => ActiveRowsRun
  <2>1. Free.pc = "free"
    BY DEF Free
  <2> QED BY <2>1 DEF RowsInv, Owed, ActiveRowsRun, Quiet
<1> QED BY <1>1, <1>2, <1>3, PTL DEF UserStrategiesSpec

(* The types.  An instance is an executor that was made for its strategy,  *)
(* a client reports to an executor there is, and a request under way has   *)
(* the executor and the client it was given.                               *)
Connection == [up : BOOLEAN, sub : Nat]
LinksTyped ==
  /\ links \in Seq(Connection) /\ owner \in Seq(Strategies)
  /\ \A l \in DOMAIN links : links[l].sub <= Len(owner)
  /\ \A k \in DOMAIN running : running[k] \in DOMAIN owner
CallTyped(c) ==
  /\ ucall[c].pc = "linking" => ucall[c].l \in DOMAIN links
  /\ ucall[c].pc \in {"select", "insert", "update", "saved", "initialized"} =>
       ucall[c].e \in DOMAIN owner /\ owner[ucall[c].e] = ucall[c].k
UserTyped == LinksTyped /\ \A c \in UserCalls : CallTyped(c)

(* Steps of a request that leave clients and executors as they are.        *)
LEMMA UserMoves ==
  ASSUME RowsInv, UserTyped, UserStrategiesTypeOK, NEW c \in UserCalls,
         \/ ConnectCheck(c) \/ ConnectUnflag(c) \/ DisconnectFlag(c) \/ StartSelect(c) \/ StartSave(c)
         \/ StartInstance(c) \/ StartFailed(c) \/ StopRow(c) \/ \E k \in Strategies : StopInstance(c, k)
  PROVE  UserTyped' /\ UserStrategiesTypeOK'
<1>1. UNCHANGED <<links, owner, registered>>
  BY DEF ConnectCheck, ConnectUnflag, DisconnectFlag, StartSelect, StartSave, StartInstance, StartFailed,
         StopRow, StopInstance
<1>2. \A d \in UserCalls \ {c} : ucall'[d] = ucall[d]
  <2>1. \E r : ucall' = [ucall EXCEPT ![c] = r] \/ ucall' = [ucall EXCEPT ![c].pc = r]
    BY ZenonT(40) DEF ConnectCheck, ConnectUnflag, DisconnectFlag, StartSelect, StartSave, StartInstance, StartFailed,
           StopRow, StopInstance, UGoto, UEnd
  <2> QED BY <2>1 DEF RowsInv
<1>3. \/ ucall'[c].pc \in {"credentials", "flagged", "stopping", "free", "failed"}
      \/ /\ ucall[c].pc \in {"select", "insert", "update", "saved"} /\ ucall'[c].pc \notin {"linking"}
         /\ ucall'[c].e = ucall[c].e /\ ucall'[c].k = ucall[c].k
  <2>1. CASE StartSelect(c) \/ StartSave(c) \/ StartInstance(c)
    BY <2>1 DEF StartSelect, StartSave, StartInstance, UAt, UGoto, RowsInv
  <2>2. CASE ConnectUnflag(c) \/ StartFailed(c) \/ StopRow(c)
    <3>1. ucall' = [ucall EXCEPT ![c] = Free] /\ Free.pc = "free"
      BY <2>2 DEF ConnectUnflag, StartFailed, StopRow, UEnd, Free
    <3> QED BY <3>1 DEF RowsInv
  <2>5. CASE ConnectCheck(c)
    BY <2>5 DEF ConnectCheck, UGoto, RowsInv
  <2>4. CASE DisconnectFlag(c)
    BY <2>4 DEF DisconnectFlag, Free, RowsInv
  <2>3. ASSUME NEW k \in Strategies, StopInstance(c, k) PROVE ucall'[c].pc = "stopping"
    BY <2>3 DEF StopInstance, Free, RowsInv
  <2> QED BY <2>1, <2>2, <2>3, <2>4, <2>5
<1>4. ASSUME NEW d \in UserCalls PROVE CallTyped(d)'
  BY <1>1, <1>2, <1>3 DEF UserTyped, CallTyped
<1>5. flag' \in BOOLEAN
  BY DEF ConnectCheck, ConnectUnflag, DisconnectFlag, StartSelect, StartSave, StartInstance, StartFailed,
         StopRow, StopInstance, UserStrategiesTypeOK
<1>6. \A k \in Strategies : row'[k] \in {"none", "active", "stopped", "paused", "error"}
  <2>1. \/ row' = row
        \/ \E k : \E s \in {"active", "error", "stopped"} : row' = [row EXCEPT ![k] = s]
    <3>1. CASE StartSave(c)
      BY <3>1 DEF StartSave, Update
    <3>2. CASE StartFailed(c)
      BY <3>2 DEF StartFailed, Update, UpdateFails
    <3>3. CASE StopRow(c)
      BY <3>3 DEF StopRow, Update, UpdateFails
    <3>4. CASE ~StartSave(c) /\ ~StartFailed(c) /\ ~StopRow(c)
      BY <3>4 DEF ConnectCheck, ConnectUnflag, DisconnectFlag, StartSelect, StartInstance, StopInstance
    <3> QED BY <3>1, <3>2, <3>3, <3>4
  <2> QED BY <2>1 DEF UserStrategiesTypeOK, RowsInv
<1>7. \A k \in DOMAIN running' : running'[k] \in DOMAIN owner /\ owner'[running'[k]] = k
  <2>1. CASE StartInstance(c)
    <3>1. /\ running' = [j \in DOMAIN running \cup {ucall[c].k} |->
                           IF j = ucall[c].k THEN ucall[c].e ELSE running[j]]
          /\ ucall[c].pc = "saved"
      BY <2>1 DEF StartInstance, UAt
    <3> QED BY <1>1, <3>1 DEF UserTyped, LinksTyped, CallTyped, UserStrategiesTypeOK
  <2>2. CASE \E k \in Strategies : StopInstance(c, k)
    BY <1>1, <2>2 DEF StopInstance, Restrict, UserTyped, LinksTyped, UserStrategiesTypeOK
  <2>3. CASE ~StartInstance(c) /\ ~\E k \in Strategies : StopInstance(c, k)
    <3>1. running' = running
      BY <2>3 DEF ConnectCheck, ConnectUnflag, DisconnectFlag, StartSelect, StartSave, StartFailed, StopRow
    <3> QED BY <1>1, <3>1 DEF UserTyped, LinksTyped, UserStrategiesTypeOK
  <2> QED BY <2>1, <2>2, <2>3
<1> QED BY <1>1, <1>4, <1>5, <1>6, <1>7 DEF UserStrategiesTypeOK, UserTyped, LinksTyped

(* The steps that make or change a client, or make an executor.            *)
CallMoves(c) ==
  \/ ucall'[c] = ucall[c] \/ ucall'[c].pc \in {"linked", "free", "failed"}
  \/ ucall'[c].pc = "linking" /\ ucall'[c].l \in DOMAIN links'
LEMMA LinksMove ==
  ASSUME RowsInv, UserTyped, UserStrategiesTypeOK, UNCHANGED <<owner, row, running, flag>>,
         links' \in Seq(Connection), Len(links) <= Len(links'), registered' \in 0..Len(links'),
         \A l \in DOMAIN links' : links'[l].sub <= Len(owner),
         \A c \in UserCalls : CallMoves(c)
  PROVE  UserTyped' /\ UserStrategiesTypeOK'
<1>1. /\ DOMAIN links \subseteq DOMAIN links'
      /\ \A l \in DOMAIN links' : links'[l].sub \in 0..Len(owner)
  <2>1. links \in Seq(Connection) /\ links' \in Seq(Connection)
    BY DEF UserTyped, LinksTyped
  <2>2. ASSUME NEW l \in DOMAIN links' PROVE links'[l].sub \in Nat
    <3>1. links'[l] \in Connection
      BY <2>1
    <3> QED BY <3>1 DEF Connection
  <2>3. Len(owner) \in Nat
    BY DEF UserTyped, LinksTyped
  <2> QED BY <2>1, <2>2, <2>3
<1>2. ASSUME NEW c \in UserCalls PROVE CallTyped(c)'
  BY <1>1 DEF UserTyped, CallTyped, CallMoves
<1> QED BY <1>1, <1>2 DEF UserTyped, LinksTyped, UserStrategiesTypeOK

(* One client is changed, and reports to an executor there is.             *)
LEMMA LinkChanged ==
  ASSUME LinksTyped, NEW l \in DOMAIN links, NEW up \in BOOLEAN, NEW sub \in 0..Len(owner),
         links' = [links EXCEPT ![l] = [up |-> up, sub |-> sub]]
  PROVE  links' \in Seq(Connection) /\ Len(links') = Len(links) /\ \A m \in DOMAIN links' : links'[m].sub <= Len(owner)
<1> DEFINE new == [up |-> up, sub |-> sub]
<1>1. new \in Connection /\ new.sub = sub /\ sub <= Len(owner)
  BY DEF LinksTyped, Connection
<1> HIDE DEF new
<1>2. links' = [links EXCEPT ![l] = new] /\ links \in Seq(Connection)
  BY DEF LinksTyped, new
<1>3. links' \in Seq(Connection) /\ Len(links') = Len(links) /\ DOMAIN links' = DOMAIN links
  BY <1>1, <1>2
<1> QED BY <1>1, <1>2, <1>3 DEF LinksTyped

LEMMA OneFieldChanged ==
  ASSUME NEW r, NEW up, NEW sub, r = [up |-> up, sub |-> sub]
  PROVE  /\ [r EXCEPT !.up = TRUE] = [up |-> TRUE, sub |-> sub]
         /\ [r EXCEPT !.up = FALSE] = [up |-> FALSE, sub |-> sub]
<1>1. \A other : [r EXCEPT !.up = other] = [up |-> other, sub |-> sub]
  OBVIOUS
<1> QED BY <1>1

LEMMA LinkIsConnection ==
  ASSUME LinksTyped, NEW l \in DOMAIN links
  PROVE  /\ links[l] = [up |-> links[l].up, sub |-> links[l].sub]
         /\ links[l].up \in BOOLEAN /\ links[l].sub \in 0..Len(owner)
<1>1. links[l] \in Connection /\ links[l].sub <= Len(owner) /\ Len(owner) \in Nat
  BY DEF LinksTyped
<1> QED BY <1>1 DEF Connection

LEMMA UserLinks ==
  ASSUME RowsInv, UserTyped, UserStrategiesTypeOK, NEW c \in UserCalls,
         ConnectClient(c) \/ ConnectLinked(c) \/ DisconnectLink(c) \/ StartSubscribe(c)
  PROVE  UserTyped' /\ UserStrategiesTypeOK'
<1>0. /\ links \in Seq(Connection) /\ DOMAIN links = 1..Len(links) /\ owner \in Seq(Strategies) /\ Len(owner) \in Nat
      /\ LinksTyped /\ \A l \in DOMAIN links : links[l].sub <= Len(owner)
  BY DEF UserTyped, LinksTyped
<1>00. registered \in 0..Len(links)
  BY DEF UserStrategiesTypeOK
<1>1. UNCHANGED <<owner, row, running, flag>>
  BY DEF ConnectClient, ConnectLinked, DisconnectLink, StartSubscribe
<1>2. \A d \in UserCalls \ {c} : ucall'[d] = ucall[d]
  <2>1. CASE ConnectClient(c)
    BY <2>1 DEF ConnectClient, UEnd, RowsInv
  <2>2. CASE ConnectLinked(c) \/ DisconnectLink(c) \/ StartSubscribe(c)
    BY <2>2 DEF ConnectLinked, DisconnectLink, StartSubscribe, UGoto, UEnd, RowsInv
  <2> QED BY <2>1, <2>2
<1>3. Free.pc = "free"
  BY DEF Free
<1>4. CASE ConnectClient(c)
  <2> DEFINE new == [up |-> FALSE, sub |-> 0]
  <2>1. new \in Connection /\ new.sub = 0
    BY DEF Connection
  <2>2. CASE UEnd(c) /\ UNCHANGED <<links, registered>>
    <3>1. ucall'[c].pc = "free"
      BY <2>2, <1>3 DEF UEnd, RowsInv
    <3>2. \A d \in UserCalls : CallMoves(d)
      BY <1>2, <3>1 DEF CallMoves
    <3> QED BY <1>0, <1>00, <1>1, <2>2, <3>2, LinksMove
  <2>3. CASE /\ links' = (IF registered = 0 THEN Append(links, new) ELSE links)
             /\ registered' = (IF registered = 0 THEN Len(links') ELSE registered)
             /\ ucall' = [ucall EXCEPT ![c].pc = "linking", ![c].l = registered']
    <3> HIDE DEF new
    <3>1. /\ links' \in Seq(Connection) /\ Len(links) <= Len(links') /\ registered' \in 1..Len(links')
          /\ \A l \in DOMAIN links' : links'[l].sub <= Len(owner)
      <4>1. CASE registered = 0
        <5>1. links' = Append(links, new) /\ registered' = Len(links')
          BY <2>3, <4>1
        <5>2. Len(links') = Len(links) + 1 /\ links' \in Seq(Connection) /\ Len(links) \in Nat
          BY <1>0, <2>1, <5>1
        <5>3. \A l \in DOMAIN links' : links'[l] = new \/ (l \in DOMAIN links /\ links'[l] = links[l])
          BY <1>0, <5>1, <5>2
        <5> QED BY <1>0, <2>1, <5>1, <5>2, <5>3
      <4>2. CASE registered # 0
        BY <1>0, <1>00, <2>3, <4>2
      <4> QED BY <4>1, <4>2
    <3>2. ucall'[c].pc = "linking" /\ ucall'[c].l = registered'
      BY <2>3 DEF RowsInv
    <3>3. DOMAIN links' = 1..Len(links')
      BY <3>1
    <3>4. \A d \in UserCalls : CallMoves(d)
      BY <1>2, <3>1, <3>2, <3>3 DEF CallMoves
    <3>5. registered' \in 0..Len(links')
      BY <3>1
    <3> QED BY <1>1, <3>1, <3>4, <3>5, LinksMove
  <2> QED BY <1>4, <2>2, <2>3 DEF ConnectClient
<1>5. CASE ConnectLinked(c)
  <2>1. registered' = registered /\ ucall[c].l \in DOMAIN links
    BY <1>5 DEF ConnectLinked, UAt, UserTyped, CallTyped
  <2>2. links' = links \/ links' = [links EXCEPT ![ucall[c].l].up = TRUE]
    BY <1>5 DEF ConnectLinked
  <2>3. links' \in Seq(Connection) /\ Len(links') = Len(links) /\ \A l \in DOMAIN links' : links'[l].sub <= Len(owner)
    <3>1. CASE links' = [links EXCEPT ![ucall[c].l].up = TRUE]
      <4> DEFINE l == ucall[c].l
      <4>1. links' = [links EXCEPT ![l] = [up |-> TRUE, sub |-> links[l].sub]]
        <5>1. [links[l] EXCEPT !.up = TRUE] = [up |-> TRUE, sub |-> links[l].sub]
          <6>1. links[l] = [up |-> links[l].up, sub |-> links[l].sub]
            BY <1>0, <2>1, LinkIsConnection
          <6> QED BY <6>1, OneFieldChanged
        <5> QED BY <3>1, <5>1
      <4> QED BY <1>0, <2>1, <4>1, LinkIsConnection, LinkChanged
    <3> QED BY <1>0, <2>2, <3>1
  <2>4. ucall'[c].pc \in {"linked", "free"}
    BY <1>5, <1>3 DEF ConnectLinked, UGoto, UEnd, RowsInv
  <2>5. \A d \in UserCalls : CallMoves(d)
    BY <1>2, <2>4 DEF CallMoves
  <2>6. registered' \in 0..Len(links') /\ Len(links) <= Len(links')
    BY <1>0, <1>00, <2>1, <2>3
  <2> QED BY <1>1, <2>3, <2>5, <2>6, LinksMove
<1>6. CASE DisconnectLink(c)
  <2> DEFINE l == ucall[c].l
  <2>1. registered' \in {registered, 0} /\ ucall'[c].pc = "free"
    BY <1>6, <1>3 DEF DisconnectLink, UEnd, RowsInv
  <2>6. \A d \in UserCalls : CallMoves(d)
    BY <1>2, <2>1 DEF CallMoves
  <2>2. CASE links' = links
    <3>1. registered' \in 0..Len(links') /\ Len(links) <= Len(links')
      BY <1>0, <1>00, <2>1, <2>2
    <3> QED BY <1>0, <1>1, <2>2, <2>6, <3>1, LinksMove
  <2>3. CASE links' = [links EXCEPT ![l].up = FALSE] /\ l \in DOMAIN links
    <3>1. links' = [links EXCEPT ![l] = [up |-> FALSE, sub |-> links[l].sub]]
      <4>1. [links[l] EXCEPT !.up = FALSE] = [up |-> FALSE, sub |-> links[l].sub]
        <5>1. links[l] = [up |-> links[l].up, sub |-> links[l].sub]
          BY <1>0, <2>3, LinkIsConnection
        <5> QED BY <5>1, OneFieldChanged
      <4> QED BY <2>3, <4>1
    <3>2. links' \in Seq(Connection) /\ Len(links') = Len(links) /\ \A m \in DOMAIN links' : links'[m].sub <= Len(owner)
      BY <1>0, <2>3, <3>1, LinkIsConnection, LinkChanged
    <3>3. registered' \in 0..Len(links') /\ Len(links) <= Len(links')
      BY <1>0, <1>00, <2>1, <3>2
    <3> QED BY <1>1, <2>6, <3>2, <3>3, LinksMove
  <2>4. links' = links \/ links' = [links EXCEPT ![l].up = FALSE]
    BY <1>6 DEF DisconnectLink
  <2>5. links' = [links EXCEPT ![l].up = FALSE] /\ l \notin DOMAIN links => links' = links
    BY <1>0
  <2> QED BY <2>2, <2>3, <2>4, <2>5
<1>7. CASE StartSubscribe(c)
  <2>1. registered' = registered /\ ucall[c].e \in 1..Len(owner) /\ ucall'[c].pc \in {"free", "failed"}
    BY <1>0, <1>7, <1>3 DEF StartSubscribe, UEnd, UGoto, UAt, UserTyped, CallTyped, RowsInv
  <2>2. \/ links' = links
        \/ registered # 0 /\ \E e \in {0, ucall[c].e, links[registered].sub} : links' = [links EXCEPT ![registered].sub = e]
    BY <1>7 DEF StartSubscribe, LinkUp
  <2>3. links' \in Seq(Connection) /\ Len(links') = Len(links) /\ \A l \in DOMAIN links' : links'[l].sub <= Len(owner)
    <3>1. CASE links' = links
      BY <1>0, <3>1
    <3>2. CASE registered # 0 /\ \E e \in {0, ucall[c].e, links[registered].sub} : links' = [links EXCEPT ![registered].sub = e]
      <4>1. registered \in DOMAIN links
        BY <1>0, <1>00, <3>2
      <4>2. PICK e \in {0, ucall[c].e, links[registered].sub} : links' = [links EXCEPT ![registered].sub = e]
        BY <3>2
      <4>3. e \in 0..Len(owner)
        BY <1>0, <2>1, <4>1, LinkIsConnection
      <4>4. links' = [links EXCEPT ![registered] = [up |-> links[registered].up, sub |-> e]]
        <5>1. [links[registered] EXCEPT !.sub = e] = [up |-> links[registered].up, sub |-> e]
          BY <1>0, <4>1, LinkIsConnection
        <5> QED BY <4>2, <5>1
      <4> QED BY <1>0, <4>1, <4>3, <4>4, LinkIsConnection, LinkChanged
    <3> QED BY <2>2, <3>1, <3>2
  <2>4. \A d \in UserCalls : CallMoves(d)
    BY <1>2, <2>1 DEF CallMoves
  <2>5. registered' \in 0..Len(links') /\ Len(links) <= Len(links')
    BY <1>0, <1>00, <2>1, <2>3
  <2> QED BY <1>1, <2>3, <2>4, <2>5, LinksMove
<1> QED BY <1>4, <1>5, <1>6, <1>7

LEMMA UserTypesKept ==
  ASSUME RowsInv, UserTyped, UserStrategiesTypeOK, [UserStrategiesNext]_userVars
  PROVE  UserTyped' /\ UserStrategiesTypeOK'
<1>1. CASE UNCHANGED userVars
  BY <1>1 DEF userVars, UserTyped, LinksTyped, CallTyped, UserStrategiesTypeOK
<1>2. ASSUME NEW c \in UserCalls, NEW k \in Strategies, StartCheck(c, k)
      PROVE  UserTyped' /\ UserStrategiesTypeOK'
  <2>1. /\ owner' = Append(owner, k) /\ UNCHANGED <<links, flag, registered, running, row>>
        /\ k \notin DOMAIN running
        /\ ucall' = [ucall EXCEPT ![c] = [pc |-> "select", k |-> k, e |-> Len(owner'), l |-> 0]]
    BY <1>2 DEF StartCheck
  <2>2. /\ owner \in Seq(Strategies) /\ owner' \in Seq(Strategies) /\ Len(owner') = Len(owner) + 1
        /\ Len(owner) \in Nat /\ owner'[Len(owner')] = k
        /\ \A e \in DOMAIN owner : e \in DOMAIN owner' /\ owner'[e] = owner[e]
    BY <2>1 DEF UserTyped, LinksTyped
  <2>3. \A l \in DOMAIN links : links[l].sub \in 0..Len(owner)
    BY LinkIsConnection DEF UserTyped
  <2>4. LinksTyped'
    BY <2>1, <2>2, <2>3 DEF UserTyped, LinksTyped
  <2>5. ASSUME NEW d \in UserCalls PROVE CallTyped(d)'
    BY <2>1, <2>2 DEF UserTyped, CallTyped, RowsInv
  <2>6. ASSUME NEW j \in DOMAIN running PROVE owner'[running[j]] = j
    BY <2>1, <2>2 DEF UserTyped, LinksTyped, UserStrategiesTypeOK
  <2>7. \A l \in DOMAIN links' : links'[l].sub \in 0..Len(owner')
    BY <2>1, <2>2, <2>3
  <2> QED BY <2>1, <2>2, <2>3, <2>4, <2>5, <2>6, <2>7 DEF UserTyped, UserStrategiesTypeOK
<1>3. ASSUME NEW l \in DOMAIN links, LinkFlips(l) PROVE UserTyped' /\ UserStrategiesTypeOK'
  <2>1. links' = [links EXCEPT ![l].up = ~@] /\ UNCHANGED <<owner, row, running, flag, registered, ucall>>
    BY <1>3 DEF LinkFlips
  <2>2. LinksTyped /\ links \in Seq(Connection) /\ Len(links) \in Nat /\ registered \in 0..Len(links)
    BY DEF UserTyped, LinksTyped, UserStrategiesTypeOK
  <2>3. links' = [links EXCEPT ![l] = [up |-> ~links[l].up, sub |-> links[l].sub]]
    <3>1. links[l] = [up |-> links[l].up, sub |-> links[l].sub]
      BY <2>2, LinkIsConnection
    <3>2. [links[l] EXCEPT !.up = ~links[l].up] = [up |-> ~links[l].up, sub |-> links[l].sub]
      BY <3>1
    <3> QED BY <2>1, <3>2
  <2>4. links' \in Seq(Connection) /\ Len(links') = Len(links) /\ \A m \in DOMAIN links' : links'[m].sub <= Len(owner)
    BY <2>2, <2>3, LinkIsConnection, LinkChanged
  <2>5. \A d \in UserCalls : CallMoves(d)
    BY <2>1 DEF CallMoves
  <2> QED BY <2>1, <2>2, <2>4, <2>5, LinksMove
<1>4. CASE ServerDies
  <2>1. /\ links' = <<>> /\ owner' = <<>> /\ running' = <<>> /\ registered' = 0 /\ flag' = FALSE /\ row' = row
        /\ \A c \in UserCalls : ucall'[c] = Free
    BY <1>4 DEF ServerDies
  <2>2. /\ links' \in Seq(Connection) /\ owner' \in Seq(Strategies) /\ Len(links') = 0 /\ DOMAIN links' = {}
        /\ DOMAIN running' = {} /\ Len(owner') = 0
    BY <2>1
  <2>3. Free.pc = "free"
    BY DEF Free
  <2>4. UserTyped'
    BY <2>1, <2>2, <2>3 DEF UserTyped, LinksTyped, CallTyped
  <2>5. registered' \in 0..Len(links')
    BY <2>1, <2>2
  <2> QED BY <2>1, <2>2, <2>4, <2>5 DEF UserStrategiesTypeOK
<1>5. ASSUME NEW k \in Strategies, BootPause(k) PROVE UserTyped' /\ UserStrategiesTypeOK'
  <2>1. /\ UNCHANGED <<flag, links, registered, owner, running, ucall>>
        /\ \E s \in {"paused", "error"} : row' = [row EXCEPT ![k] = s]
    BY <1>5 DEF BootPause, Update
  <2> QED BY <2>1 DEF UserTyped, LinksTyped, CallTyped, UserStrategiesTypeOK, RowsInv
<1>6. CASE BootGivesUp
  BY <1>6 DEF BootGivesUp, UserTyped, LinksTyped, CallTyped, UserStrategiesTypeOK, RowsInv
<1> QED BY <1>1, <1>2, <1>3, <1>4, <1>5, <1>6, UserMoves, UserLinks DEF UserStrategiesNext

(* The types hold, and the instance of a strategy is always an executor    *)
(* that was made for it.                                                   *)
THEOREM UserTypeCorrect == UserStrategiesSpec => []UserStrategiesTypeOK
<1>1. UserStrategiesInit => RowsInv /\ UserTyped /\ UserStrategiesTypeOK
  <2>1. Free.pc = "free"
    BY DEF Free
  <2>2. UserStrategiesInit => RowsInv
    BY <2>1 DEF UserStrategiesInit, RowsInv, Owed, Free
  <2>3. /\ <<>> \in Seq(Connection) /\ <<>> \in Seq(Strategies) /\ Len(<<>>) = 0 /\ DOMAIN <<>> = {}
    OBVIOUS
  <2>4. UserStrategiesInit => UserTyped
    BY <2>1, <2>3 DEF UserStrategiesInit, UserTyped, LinksTyped, CallTyped
  <2>5. UserStrategiesInit => UserStrategiesTypeOK
    <3> SUFFICES ASSUME UserStrategiesInit PROVE UserStrategiesTypeOK
      OBVIOUS
    <3>1. registered = 0 /\ links = <<>> /\ running = <<>> /\ flag = FALSE /\ \A k \in Strategies : row[k] = "none"
      BY DEF UserStrategiesInit
    <3>2. DOMAIN links = {} /\ DOMAIN running = {} /\ registered \in 0..Len(links)
      BY <2>3, <3>1
    <3> QED BY <3>1, <3>2 DEF UserStrategiesTypeOK
  <2> QED BY <2>2, <2>4, <2>5
<1>2. RowsInv /\ UserTyped /\ UserStrategiesTypeOK /\ [UserStrategiesNext]_userVars
      => RowsInv' /\ UserTyped' /\ UserStrategiesTypeOK'
  BY RowsKept, UserTypesKept
<1> QED BY <1>1, <1>2, PTL DEF UserStrategiesSpec


-----------------------------------------------------------------------------
(* Orphans *)

LEMMA BooksKept ==
  ASSUME BooksInv, [BrokerNext]_brokerVars
  PROVE  BooksInv'
<1>1. CASE UNCHANGED bookVars
  BY <1>1 DEF BooksInv, bookVars
<1>2. ASSUME NEW c, PlaceSend(c) PROVE BooksInv'
  <2> DEFINE r == [id |-> placed', m |-> bcall[c].m, side |-> bcall[c].side]
  <2>1. r.id = placed'
    OBVIOUS
  <2>2. placed' = placed + 1 /\ resting' = resting \cup {r} /\ UNCHANGED <<exposure, children>>
    BY <1>2 DEF PlaceSend
  <2> HIDE DEF r
  <2> QED BY <2>1, <2>2 DEF BooksInv
<1>3. ASSUME NEW e \in resting, Fills(e) PROVE BooksInv'
  BY <1>3 DEF Fills, BooksInv
<1>4. ASSUME NEW e \in children, LegExecutes(e) PROVE BooksInv'
  BY <1>4 DEF LegExecutes, BooksInv
<1>5. ASSUME NEW m, ClosedByHand(m) PROVE BooksInv'
  BY <1>5 DEF ClosedByHand, BooksInv
<1>6. ASSUME NEW c, ScanCancel(c) PROVE BooksInv'
  BY <1>6 DEF ScanCancel, BooksInv
<1>8. ASSUME LocalStart \/ LocalStop \/ \E c \in BrokerCalls :
               \/ \E m \in Markets, s \in Side : PlaceGuard(c, m, s)
               \/ PlaceRefused(c) \/ ScanOrders(c) \/ ScanPositions(c) \/ ScanFails(c)
               \/ Recover(c)
      PROVE  UNCHANGED bookVars
  BY <1>8 DEF LocalStart, LocalStop, PlaceGuard, PlaceRefused, ScanOrders, ScanPositions, ScanFails,
              Recover, RecoverBegin, RecoverEnd, RecoverFails
<1>9. UNCHANGED brokerVars => UNCHANGED bookVars
  BY DEF brokerVars, bookVars
<1> QED BY <1>1, <1>2, <1>3, <1>4, <1>5, <1>6, <1>8, <1>9
        DEF BrokerNext, Place, Scan

LEMMA CallsKept ==
  ASSUME BooksInv, CallsInv, [BrokerNext]_brokerVars
  PROVE  CallsInv'
<1> USE DEF CallsInv, Called
<1>0. NotCalled.at = "none" /\ DOMAIN NotCalled = {"at", "m", "side", "seen", "was"}
  BY DEF NotCalled
<1>1. CASE UNCHANGED <<placed, resting, exposure, bcall>>
  BY <1>1
<1>2. ASSUME NEW c \in BrokerCalls, bcall' = [bcall EXCEPT ![c] = NotCalled],
             UNCHANGED <<placed, resting, exposure>>
      PROVE  CallsInv'
  BY <1>0, <1>2
<1>3. ASSUME NEW c \in BrokerCalls, NEW m, NEW side, PlaceGuard(c, m, side) PROVE CallsInv'
  <2>1. /\ UNCHANGED <<placed, resting, exposure>>
        /\ bcall' = [bcall EXCEPT ![c] = [@ EXCEPT !.at = "guarded", !.m = m, !.side = side]]
    BY <1>3 DEF PlaceGuard, bookVars
  <2> QED BY <2>1
<1>4. ASSUME NEW c \in BrokerCalls, PlaceSend(c) PROVE CallsInv'
  <2> DEFINE r == [id |-> placed', m |-> bcall[c].m, side |-> bcall[c].side]
  <2>1. r.id = placed'
    OBVIOUS
  <2>2. /\ placed' = placed + 1 /\ resting' = resting \cup {r} /\ exposure' = exposure
        /\ bcall' = [bcall EXCEPT ![c] = NotCalled]
    BY <1>4 DEF PlaceSend, Ends
  <2> HIDE DEF r
  <2> QED BY <1>0, <2>1, <2>2 DEF BooksInv
<1>5. ASSUME NEW e \in resting, Fills(e) PROVE CallsInv'
  <2>1. /\ UNCHANGED <<placed, bcall>> /\ resting' \subseteq resting
        /\ exposure' \subseteq exposure \cup {e}
    BY <1>5 DEF Fills
  <2> QED BY <2>1
<1>6. ASSUME UNCHANGED <<placed, resting, bcall>>, exposure' \subseteq exposure PROVE CallsInv'
  BY <1>6
<1>7. ASSUME NEW c \in BrokerCalls, ScanOrders(c) PROVE CallsInv'
  <2>1. /\ UNCHANGED <<placed, resting, exposure>>
        /\ bcall' = [bcall EXCEPT ![c] = [@ EXCEPT !.at = "scanned", !.seen = children]]
    BY <1>7 DEF ScanOrders, bookVars
  <2> QED BY <2>1 DEF BooksInv
<1>8. ASSUME NEW c \in BrokerCalls, ScanPositions(c) PROVE CallsInv'
  <2> DEFINE bare == {x \in bcall[c].seen : On(x.m) = {}}
  <2>1. UNCHANGED <<placed, resting, exposure>> /\ Called(c, "scanned")
    BY <1>8 DEF ScanPositions, bookVars
  <2>3. bcall' = [bcall EXCEPT ![c] = [@ EXCEPT !.at = "cancelling", !.seen = bare]]
    BY <1>8 DEF ScanPositions
  <2>2. bare \subseteq bcall[c].seen /\ bare \cap exposure = {}
    BY DEF On
  <2> HIDE DEF bare
  <2> QED BY <2>1, <2>2, <2>3
<1>9. ASSUME NEW c \in BrokerCalls, ScanCancel(c), bcall[c].seen # {} PROVE CallsInv'
  <2>1. PICK x \in bcall[c].seen : bcall' = [bcall EXCEPT ![c].seen = @ \ {x}]
    BY <1>9 DEF ScanCancel
  <2>2. UNCHANGED <<placed, resting, exposure>>
    BY <1>9 DEF ScanCancel
  <2> QED BY <2>1, <2>2
<1>11. ASSUME NEW c \in BrokerCalls, NEW was,
              bcall' = [bcall EXCEPT ![c] = [@ EXCEPT !.at = "recovering", !.was = was]],
              UNCHANGED <<placed, resting, exposure>>
       PROVE  CallsInv'
  BY <1>11
<1>14. ASSUME NEW c \in BrokerCalls, RecoverBegin(c) PROVE CallsInv'
  BY <1>11, <1>14 DEF RecoverBegin, bookVars
<1>15. ASSUME NEW c \in BrokerCalls,
              \/ PlaceRefused(c) \/ ScanFails(c) \/ RecoverEnd(c) \/ RecoverFails(c)
              \/ ScanCancel(c) /\ bcall[c].seen = {}
       PROVE  CallsInv'
  <2>1. bcall' = [bcall EXCEPT ![c] = NotCalled] /\ UNCHANGED <<placed, resting, exposure>>
    BY <1>15 DEF PlaceRefused, ScanFails, RecoverEnd, RecoverFails, ScanCancel, Ends, bookVars
  <2> QED BY <1>2, <2>1
<1>16. ASSUME NEW e, NEW m, LegExecutes(e) \/ ClosedByHand(m) PROVE CallsInv'
  BY <1>6, <1>16 DEF LegExecutes, ClosedByHand
<1>17. LocalStart \/ LocalStop \/ UNCHANGED brokerVars => UNCHANGED <<placed, resting, exposure, bcall>>
  BY DEF LocalStart, LocalStop, brokerVars, bookVars
<1> QED BY <1>1, <1>3, <1>4, <1>5, <1>7, <1>8, <1>9, <1>14, <1>15, <1>16, <1>17
        DEF BrokerNext, Place, Scan, Recover

LEMMA BrokerInvariant == BrokerSpec => []BrokerInv
<1>1. BrokerInit => BrokerInv
  <2>1. NotCalled.at = "none" /\ DOMAIN NotCalled = {"at", "m", "side", "seen", "was"}
    BY DEF NotCalled
  <2> QED BY <2>1 DEF BrokerInit, BrokerInv, BooksInv, CallsInv, Called
<1>2. BrokerInv /\ [BrokerNext]_brokerVars => BrokerInv'
  BY BooksKept, CallsKept DEF BrokerInv
<1> QED BY <1>1, <1>2, PTL DEF BrokerSpec

(* Whatever takes a call on from one of its requests is its own step.      *)
LEMMA OwnStep ==
  ASSUME CallsInv, [BrokerNext]_brokerVars, NEW c \in BrokerCalls, bcall'[c] # bcall[c]
  PROVE  Place(c) \/ Scan(c) \/ Recover(c)
<1>1. ASSUME NEW d \in BrokerCalls \ {c}, Place(d) \/ Scan(d) \/ Recover(d)
      PROVE  bcall'[c] = bcall[c]
  <2> USE DEF CallsInv, Ends
  <2>1. CASE Place(d)
    BY <1>1, <2>1 DEF Place, PlaceGuard, PlaceRefused, PlaceSend
  <2>2. CASE Scan(d)
    <3>1. CASE ScanCancel(d)
      BY <1>1, <3>1 DEF ScanCancel
    <3>2. CASE ScanOrders(d) \/ ScanPositions(d) \/ ScanFails(d)
      BY <1>1, <3>2 DEF ScanOrders, ScanPositions, ScanFails
    <3> QED BY <2>2, <3>1, <3>2 DEF Scan
  <2>4. CASE Recover(d)
    BY <1>1, <2>4 DEF Recover, RecoverBegin, RecoverEnd, RecoverFails
  <2> QED BY <1>1, <2>1, <2>2, <2>4
<1>2. LocalStart \/ LocalStop \/ (\E e \in resting : Fills(e)) \/ (\E e \in children : LegExecutes(e))
      \/ (\E m \in Markets : ClosedByHand(m)) \/ UNCHANGED brokerVars
      => bcall' = bcall
  BY DEF LocalStart, LocalStop, Fills, LegExecutes, ClosedByHand, brokerVars
<1> QED BY <1>1, <1>2 DEF BrokerNext

(* The orphan scan never cancels the stop and target of an exposure that   *)
(* is still there, whatever fills between its requests:                    *)
(* scanAndCleanOrphans reads the orders before the positions, and the      *)
(* orders of an entry exist from its fill on.                              *)
THEOREM ScanSpares == BrokerSpec => ScanSparesProtection
<1>1. ASSUME BrokerInv, [BrokerNext]_brokerVars, NEW c \in BrokerCalls,
             Called(c, "cancelling"), bcall'[c] # bcall[c]
      PROVE  (children \ children') \cap exposure = {}
  <2>1. ScanCancel(c)
    BY <1>1, OwnStep DEF BrokerInv, Called, Place, Scan, Recover, PlaceGuard, PlaceRefused, PlaceSend,
       ScanOrders, ScanPositions, ScanFails, RecoverBegin, RecoverEnd, RecoverFails
  <2>2. bcall[c].seen \cap exposure = {}
    BY <1>1 DEF BrokerInv, CallsInv
  <2>3. children \ children' \subseteq bcall[c].seen
    BY <2>1 DEF ScanCancel
  <2> QED BY <2>2, <2>3
<1>2. BrokerInv /\ [BrokerNext]_brokerVars
      => [\A c \in BrokerCalls : Called(c, "cancelling") /\ bcall'[c] # bcall[c]
            => (children \ children') \cap exposure = {}]_brokerVars
  BY <1>1
<1> QED BY <1>2, BrokerInvariant, PTL DEF BrokerSpec, ScanSparesProtection

(* The types: what is placed, rests and is exposed is of a market and a    *)
(* side, and a position, which the exchange nets, is of one side.          *)
GuardTyped ==
  \A c \in BrokerCalls : Called(c, "guarded") => bcall[c].m \in Markets /\ bcall[c].side \in Side

LEMMA GuardKept ==
  ASSUME CallsInv, GuardTyped, [BrokerNext]_brokerVars
  PROVE  GuardTyped'
<1> SUFFICES ASSUME NEW c \in BrokerCalls, Called(c, "guarded")'
             PROVE  bcall'[c].m \in Markets /\ bcall'[c].side \in Side
  BY DEF GuardTyped
<1>1. CASE bcall'[c] = bcall[c]
  BY <1>1 DEF GuardTyped, Called
<1>2. CASE bcall'[c] # bcall[c]
  <2> USE DEF Called, CallsInv
  <2>1. ASSUME NEW m \in Markets, NEW s \in Side, PlaceGuard(c, m, s)
        PROVE  bcall'[c].m \in Markets /\ bcall'[c].side \in Side
    BY <2>1 DEF PlaceGuard
  <2>2. NotCalled.at = "none"
    BY DEF NotCalled
  <2>3. ~(PlaceRefused(c) \/ PlaceSend(c) \/ ScanFails(c) \/ RecoverEnd(c) \/ RecoverFails(c))
    BY <2>2 DEF PlaceRefused, PlaceSend, ScanFails, RecoverEnd, RecoverFails, Ends
  <2>4. ~(ScanOrders(c) \/ ScanPositions(c) \/ RecoverBegin(c))
    BY DEF ScanOrders, ScanPositions, RecoverBegin
  <2>5. ASSUME bcall[c].seen # {} PROVE ~ScanCancel(c)
    BY <2>5 DEF ScanCancel
  <2>6. ASSUME bcall[c].seen = {} PROVE ~ScanCancel(c)
    BY <2>2, <2>6 DEF ScanCancel, Ends
  <2> QED BY <1>2, OwnStep, <2>1, <2>3, <2>4, <2>5, <2>6 DEF Place, Scan, Recover
<1> QED BY <1>1, <1>2

LEMMA BookTypesKept ==
  ASSUME BrokerInv, GuardTyped, BrokerTypeOK, [BrokerNext]_brokerVars
  PROVE  BrokerTypeOK'
<1> DEFINE Entry == [id : 1..placed, m : Markets, side : Side]
<1>1. CASE UNCHANGED <<bookVars, local>>
  BY <1>1 DEF BrokerTypeOK, bookVars
<1>2. ASSUME NEW c \in BrokerCalls, PlaceSend(c) PROVE BrokerTypeOK'
  <2> DEFINE r == [id |-> placed', m |-> bcall[c].m, side |-> bcall[c].side]
  <2>1. /\ placed < MaxOrders /\ placed' = placed + 1 /\ resting' = resting \cup {r}
        /\ UNCHANGED <<exposure, children, local>>
    BY <1>2 DEF PlaceSend
  <2>2. placed \in 0..MaxOrders /\ placed' \in 0..MaxOrders /\ placed' \in 1..placed'
    BY <2>1, BrokerAssumption DEF BrokerTypeOK
  <2>3. bcall[c].m \in Markets /\ bcall[c].side \in Side
    BY <1>2 DEF PlaceSend, GuardTyped
  <2>4. r \in Entry'
    BY <2>2, <2>3
  <2>5. Entry \subseteq Entry'
    BY <2>1, <2>2
  <2> QED BY <2>1, <2>2, <2>4, <2>5 DEF BrokerTypeOK
<1>3. ASSUME NEW e \in resting, Fills(e) PROVE BrokerTypeOK'
  <2>1. UNCHANGED <<placed, local>> /\ resting' \subseteq resting /\ children' = children \cup {e}
    BY <1>3 DEF Fills
  <2>2. CASE {x \in On(e.m) : x.side # e.side} = {}
    <3>1. exposure' = exposure \cup {e}
      BY <1>3, <2>2 DEF Fills
    <3>2. \A x \in exposure : x.m = e.m => x.side = e.side
      BY <2>2 DEF On
    <3> QED BY <2>1, <3>1, <3>2 DEF BrokerTypeOK
  <2>3. CASE {x \in On(e.m) : x.side # e.side} # {}
    <3>1. exposure' \subseteq exposure
      BY <1>3, <2>3 DEF Fills
    <3> QED BY <2>1, <3>1 DEF BrokerTypeOK
  <2> QED BY <2>2, <2>3
<1>4. ASSUME exposure' \subseteq exposure, children' \subseteq children, resting' \subseteq resting,
             UNCHANGED <<placed, local>>
      PROVE  BrokerTypeOK'
  BY <1>4 DEF BrokerTypeOK
<1>5. ASSUME NEW e \in children, LegExecutes(e) PROVE BrokerTypeOK'
  BY <1>4, <1>5 DEF LegExecutes
<1>6. ASSUME NEW m \in Markets, ClosedByHand(m) PROVE BrokerTypeOK'
  BY <1>4, <1>6 DEF ClosedByHand
<1>7. ASSUME NEW c \in BrokerCalls, ScanCancel(c) PROVE BrokerTypeOK'
  BY <1>4, <1>7 DEF ScanCancel
<1>9. ASSUME LocalStart \/ LocalStop \/ \E c \in BrokerCalls : RecoverEnd(c) PROVE BrokerTypeOK'
  BY <1>9 DEF LocalStart, LocalStop, RecoverEnd, bookVars, BrokerTypeOK, LocalStates
<1>10. ASSUME \E c \in BrokerCalls :
                \/ \E m \in Markets, s \in Side : PlaceGuard(c, m, s)
                \/ PlaceRefused(c) \/ ScanOrders(c) \/ ScanPositions(c) \/ ScanFails(c)
                \/ RecoverBegin(c) \/ RecoverFails(c)
       PROVE  UNCHANGED <<bookVars, local>>
  BY <1>10 DEF PlaceGuard, PlaceRefused, ScanOrders, ScanPositions, ScanFails,
               RecoverBegin, RecoverFails
<1>11. UNCHANGED brokerVars => UNCHANGED <<bookVars, local>>
  BY DEF brokerVars, bookVars
<1> QED BY <1>1, <1>2, <1>3, <1>5, <1>6, <1>7, <1>9, <1>10, <1>11
        DEF BrokerNext, Place, Scan, Recover

(* The types hold, with the position of an instrument on one side: a fill  *)
(* against it is netted.                                                   *)
THEOREM BrokerTypeCorrect == BrokerSpec => []BrokerTypeOK
<1>1. BrokerInit => GuardTyped /\ BrokerTypeOK
  <2>1. NotCalled.at = "none"
    BY DEF NotCalled
  <2> QED BY <2>1, BrokerAssumption DEF BrokerInit, GuardTyped, Called, BrokerTypeOK
<1>2. BrokerInv /\ GuardTyped /\ BrokerTypeOK /\ [BrokerNext]_brokerVars => GuardTyped' /\ BrokerTypeOK'
  BY GuardKept, BookTypesKept DEF BrokerInv
<1> QED BY <1>1, <1>2, BrokerInvariant, PTL DEF BrokerSpec


-----------------------------------------------------------------------------
(* Sizes *)

(* Dividing, rounding down or to the nearest, and multiplying again. *)
LEMMA Floor ==
  ASSUME NEW num \in Nat, NEW den \in Nat \ {0}, NEW step \in Nat \ {0}
  PROVE  /\ FloorTo(num, den, step) \in Nat /\ FloorTo(num, den, step) * den <= num
         /\ \E k \in Nat : FloorTo(num, den, step) = k * step
<1>1. den * step \in Nat \ {0}
  OBVIOUS
<1>2. num \div (den * step) \in Nat
  BY <1>1
<1>3. ((num \div (den * step)) * step) * den <= num
  OBVIOUS
<1> QED BY <1>2, <1>3 DEF FloorTo

LEMMA Floored ==
  ASSUME NEW k \in Nat, NEW step \in Nat \ {0}
  PROVE  FloorTo(k * step, 1, step) = k * step
<1>1. (k * step) \div step = k
  OBVIOUS
<1>2. 1 * step = step
  OBVIOUS
<1> QED BY <1>1, <1>2 DEF FloorTo

LEMMA Rounded ==
  ASSUME NEW num \in Int, NEW step \in Nat \ {0}
  PROVE  /\ RoundTo(num, step) \in Int
         /\ 2 * Distance(num, RoundTo(num, step)) <= step
<1> DEFINE r == ((2 * num + step) \div (2 * step)) * step
<1>1. r \in Int /\ 2 * r - step <= 2 * num /\ 2 * num < 2 * r + step
  OBVIOUS
<1> HIDE DEF r
<1>2. RoundTo(num, step) = r
  BY DEF RoundTo, r
<1> QED BY <1>1, <1>2 DEF Distance

LEMMA DistanceNat ==
  ASSUME NEW a \in Int, NEW b \in Int
  PROVE  Distance(a, b) \in Nat /\ Distance(a, b) = Distance(b, a)
BY DEF Distance

(* A quantity that the leverage limits: q coins are paid with the equity,  *)
(* and what they lose is below what the uncapped quantity would lose.      *)
LEMMA CappedLosesLess ==
  ASSUME NEW q \in Nat, NEW entry \in Nat \ {0}, NEW funds \in Nat, NEW d \in Nat, NEW risk \in Nat,
         q * entry <= funds, risk * entry > 100 * d * funds
  PROVE  100 * q * d <= risk
<1>1. (100 * d) * (q * entry) <= (100 * d) * funds
  OBVIOUS
<1>2. (100 * d) * (q * entry) = (100 * q * d) * entry
  OBVIOUS
<1>3. (100 * q * d) * entry < risk * entry
  BY <1>1, <1>2
<1>4. 100 * q * d \in Nat
  OBVIOUS
<1> QED BY <1>3, <1>4

WorkerInput == [equity: Equities, entry: Prices \ {0}, away: Prices, risk: RiskValues, step: Steps,
                minimum: Minima, leverage: Leverages, ratio: Ratios,
                mode: {"percent", "fixed"}, side: {"buy", "sell"}]
SizerInput == [equity: Equities, entry: Prices, stop: Prices, price: Prices, risk: RiskValues,
               step: Steps, minimum: Minima, leverage: Leverages, currency: {"coin", "dollar"}]
BrowserInput == [equity: Equities, entry: Prices, stop: Prices, risk: RiskValues,
                 step: Steps, tick: Steps, minimum: Minima, leverage: Leverages, ratio: Ratios,
                 mode: {"percent", "fixed"}, side: {"buy", "sell"}]

LEMMA Outcomes == Refused.success = FALSE /\ \A q : Size(q).success = TRUE /\ Size(q).quantity = q
BY DEF Refused, Size

LEMMA WorkerWithinRisk ==
  ASSUME NEW x \in WorkerInput, WorkerPosition(x).success
  PROVE  100 * WorkerPosition(x).quantity * Distance(x.entry, WorkerStop(x)) <= WorkerRisk(x) * x.entry
<1>1. /\ x.equity \in Nat /\ x.risk \in Nat /\ x.entry \in Nat \ {0} /\ x.away \in Nat
      /\ x.step \in Nat \ {0} /\ x.minimum \in Nat \ {0} /\ x.leverage \in Nat \ {0}
  BY SizingAssumption DEF WorkerInput
<1> DEFINE d == Distance(x.entry, WorkerStop(x))
           worth == WorkerRisk(x) * x.entry
           capped == worth * x.entry > 100 * d * x.leverage * x.equity
           q == IF capped THEN FloorTo(x.equity * x.leverage, x.entry, x.step)
                          ELSE FloorTo(worth, 100 * d, x.step)
<1>2. d \in Nat
  <2>1. WorkerStop(x) \in Int
    BY <1>1, Rounded DEF WorkerStop
  <2> QED BY <1>1, <2>1 DEF Distance
<1>3. WorkerRisk(x) \in Nat
  BY <1>1 DEF WorkerRisk
<1>4. worth \in Nat
  BY <1>1, <1>3
<1>5. 10000 * d >= x.entry /\ WorkerPosition(x) = Size(q)
  <2> DEFINE refused == x.equity <= 0 \/ 10000 * d < x.entry \/ worth < 100 * d * x.minimum
  <2>1. WorkerPosition(x) = IF refused THEN Refused ELSE Size(q)
    BY DEF WorkerPosition
  <2>2. ~refused
    BY <2>1, Outcomes
  <2>3. WorkerPosition(x) = Size(q)
    BY <2>1, <2>2
  <2> HIDE DEF d
  <2> QED BY <1>1, <1>2, <2>2, <2>3
<1>6. d \in Nat \ {0} /\ 100 * d \in Nat \ {0}
  BY <1>1, <1>2, <1>5
<1> HIDE DEF d, worth
<1>7. CASE capped
  <2> DEFINE funds == x.equity * x.leverage
  <2>1. funds \in Nat
    BY <1>1
  <2>2. 100 * d * x.leverage * x.equity = 100 * d * funds
    BY <1>1, <1>2
  <2>3. q = FloorTo(funds, x.entry, x.step)
    BY <1>7
  <2> HIDE DEF funds
  <2>4. q \in Nat /\ q * x.entry <= funds
    <3>1. x.entry \in Nat \ {0} /\ x.step \in Nat \ {0}
      BY <1>1
    <3> QED BY <2>1, <2>3, <3>1, Floor, ZenonT(60)
  <2>5. worth * x.entry > 100 * d * funds
    BY <1>7, <2>2
  <2> HIDE DEF q, capped
  <2>6. 100 * q * d <= worth
    BY <1>1, <1>4, <1>6, <2>1, <2>4, <2>5, CappedLosesLess
  <2> QED BY <1>5, <2>6, Outcomes DEF d, worth
<1>8. CASE ~capped
  <2>1. q = FloorTo(worth, 100 * d, x.step)
    BY <1>8
  <2>2. q \in Nat /\ q * (100 * d) <= worth
    BY <1>1, <1>4, <1>6, <2>1, Floor
  <2> HIDE DEF q, capped
  <2>3. 100 * q * d = q * (100 * d)
    BY <1>6, <2>2
  <2> QED BY <1>5, <2>2, <2>3, Outcomes DEF d, worth
<1> QED BY <1>7, <1>8

LEMMA SizerWithinRisk ==
  ASSUME NEW x \in SizerInput, SizerPosition(x).success
  PROVE  LET q == SizerPosition(x).quantity
         IN /\ 100 * q * Distance(x.entry, x.stop) <= InDollars(x.equity * x.risk, x) * x.entry
            /\ q \in Nat /\ q >= x.minimum /\ q <= x.leverage * InDollars(x.equity, x)
<1>1. /\ x.equity \in Nat /\ x.risk \in Nat /\ x.entry \in Nat /\ x.stop \in Nat /\ x.price \in Nat
      /\ x.step \in Nat \ {0} /\ x.minimum \in Nat \ {0} /\ x.leverage \in Nat \ {0}
  BY SizingAssumption DEF SizerInput
<1> DEFINE d == Distance(x.entry, x.stop)
           worth == InDollars(x.equity * x.risk, x) * x.entry
           q == FloorTo(worth, 100 * d, x.step)
<1>2. d \in Nat
  BY <1>1 DEF Distance
<1>3. worth \in Nat
  BY <1>1 DEF InDollars
<1>4. d # 0 /\ q >= x.minimum /\ q <= x.leverage * InDollars(x.equity, x) /\ SizerPosition(x) = Size(q)
  <2> DEFINE refused ==
        \/ x.equity <= 0 \/ x.entry <= 0 \/ x.stop <= 0 \/ x.risk \notin 1..100 \/ x.price <= 0
        \/ d = 0 \/ q < x.minimum \/ q > MaxOrder \/ q > x.leverage * InDollars(x.equity, x)
  <2>1. SizerPosition(x) = IF refused THEN Refused ELSE Size(q)
    BY DEF SizerPosition
  <2>2. ~refused
    BY <2>1, Outcomes
  <2>3. d # 0 /\ ~(q < x.minimum) /\ ~(q > x.leverage * InDollars(x.equity, x))
    BY <2>2
  <2>4. 100 * d \in Nat \ {0}
    BY <1>2, <2>3
  <2>5. q \in Nat
    <3> HIDE DEF d, worth
    <3> QED BY <1>1, <1>3, <2>4, Floor
  <2>6. x.leverage * InDollars(x.equity, x) \in Nat
    BY <1>1 DEF InDollars
  <2>7. SizerPosition(x) = Size(q)
    BY <2>1, <2>2
  <2> HIDE DEF d, q
  <2> QED BY <1>1, <2>3, <2>5, <2>6, <2>7
<1> HIDE DEF d, worth
<1>5. 100 * d \in Nat \ {0}
  BY <1>2, <1>4
<1>6. q \in Nat /\ q * (100 * d) <= worth
  BY <1>1, <1>3, <1>5, Floor, ZenonT(60)
<1> HIDE DEF q
<1>7. 100 * q * d = q * (100 * d)
  BY <1>2, <1>6
<1> QED BY <1>4, <1>6, <1>7, Outcomes DEF d, worth

LEMMA BrowserQuantity ==
  ASSUME NEW x \in BrowserInput, BrowserPosition(x).success
  PROVE  LET q == BrowserPosition(x).quantity
         IN /\ q \in Nat /\ q >= x.minimum /\ \E k \in Nat : q = k * x.step
            /\ 100 * q * Distance(x.entry, x.stop) <= BrowserRisk(x)
            /\ q * x.entry <= x.leverage * x.equity
<1>1. /\ x.equity \in Nat /\ x.risk \in Nat /\ x.entry \in Nat /\ x.stop \in Nat
      /\ x.step \in Nat \ {0} /\ x.minimum \in Nat \ {0} /\ x.leverage \in Nat \ {0}
  BY SizingAssumption DEF BrowserInput
<1> DEFINE d == Distance(x.entry, x.stop)
           capped == BrowserRisk(x) * x.entry > 100 * d * x.leverage * x.equity
           q == IF capped THEN FloorTo(x.equity * x.leverage, x.entry, x.step)
                          ELSE FloorTo(BrowserRisk(x), 100 * d, x.step)
           refused ==
             \/ x.equity <= 0 \/ x.entry <= 0 \/ x.stop <= 0 \/ x.risk <= 0 \/ d = 0
             \/ x.mode = "percent" /\ x.risk > 50
             \/ x.mode = "fixed" /\ 2 * x.risk > x.equity
             \/ q < x.minimum
             \/ q * x.entry > x.leverage * x.equity
<1>2. d \in Nat /\ BrowserRisk(x) \in Nat
  BY <1>1 DEF Distance, BrowserRisk
<1>3. BrowserPosition(x) = IF refused THEN Refused ELSE Size(q)
  BY DEF BrowserPosition
<1>4. ~refused /\ BrowserPosition(x) = Size(q)
  BY <1>3, Outcomes
<1>5. d # 0 /\ ~(x.entry <= 0) /\ ~(q < x.minimum) /\ ~(q * x.entry > x.leverage * x.equity)
  BY <1>4
<1> HIDE DEF refused, d
<1>6. x.entry \in Nat \ {0} /\ 100 * d \in Nat \ {0}
  BY <1>1, <1>2, <1>5
<1>7. q \in Nat /\ (\E k \in Nat : q = k * x.step) /\ 100 * q * d <= BrowserRisk(x)
  <2>1. CASE capped
    <3> DEFINE funds == x.equity * x.leverage
    <3>1. funds \in Nat
      BY <1>1
    <3>2. 100 * d * x.leverage * x.equity = 100 * d * funds
      BY <1>1, <1>2
    <3>3. q = FloorTo(funds, x.entry, x.step)
      BY <2>1
    <3> HIDE DEF funds
    <3>7. LET f == FloorTo(funds, x.entry, x.step)
          IN f \in Nat /\ f * x.entry <= funds /\ \E k \in Nat : f = k * x.step
      <4>1. x.entry \in Nat \ {0} /\ x.step \in Nat \ {0}
        BY <1>1, <1>6
      <4> QED BY <4>1, <3>1, Floor
    <3>4. q \in Nat /\ q * x.entry <= funds /\ \E k \in Nat : q = k * x.step
      BY <3>3, <3>7
    <3>5. BrowserRisk(x) * x.entry > 100 * d * funds
      BY <2>1, <3>2
    <3> HIDE DEF q, capped
    <3>6. 100 * q * d <= BrowserRisk(x)
      BY <1>2, <1>6, <3>1, <3>4, <3>5, CappedLosesLess
    <3> QED BY <3>4, <3>6
  <2>2. CASE ~capped
    <3>1. q = FloorTo(BrowserRisk(x), 100 * d, x.step)
      BY <2>2
    <3>4. LET f == FloorTo(BrowserRisk(x), 100 * d, x.step)
          IN f \in Nat /\ f * (100 * d) <= BrowserRisk(x) /\ \E k \in Nat : f = k * x.step
      <4>1. BrowserRisk(x) \in Nat /\ x.step \in Nat \ {0}
        BY <1>1, <1>2
      <4> QED BY <4>1, <1>6, Floor, ZenonT(60)
    <3>2. q \in Nat /\ q * (100 * d) <= BrowserRisk(x) /\ \E k \in Nat : q = k * x.step
      BY <3>1, <3>4
    <3> HIDE DEF q, capped
    <3>3. 100 * q * d = q * (100 * d)
      BY <1>2, <3>2
    <3> QED BY <3>2, <3>3
  <2> QED BY <2>1, <2>2
<1> HIDE DEF q
<1>8. BrowserPosition(x).quantity = q
  BY <1>4, Outcomes
<1>9. q >= x.minimum /\ q * x.entry <= x.leverage * x.equity
  <2>1. q * x.entry \in Nat /\ x.leverage * x.equity \in Nat
    BY <1>1, <1>7
  <2> QED BY <1>1, <1>5, <1>7, <2>1
<1> QED BY <1>7, <1>8, <1>9 DEF d

LEMMA BrowserWithinRisk ==
  ASSUME NEW x \in BrowserInput, BrowserPosition(x).success, BuildBracket(x).success
  PROVE  100 * BrowserPosition(x).quantity * (2 * Distance(x.entry, BuildBracket(x).stop) - x.tick)
           <= 2 * BrowserRisk(x)
<1>1. x.entry \in Nat /\ x.stop \in Nat /\ x.tick \in Nat \ {0} /\ x.risk \in Nat /\ x.equity \in Nat
  BY SizingAssumption DEF BrowserInput
<1> DEFINE stop == RoundTo(x.stop, x.tick)
           d == Distance(x.entry, x.stop)
           far == 2 * Distance(x.entry, stop) - x.tick
           q == BrowserPosition(x).quantity
<1>2. BuildBracket(x).stop = stop
  <2>1. \A t : Refused # [success |-> TRUE, stop |-> stop, target |-> t]
    BY DEF Refused
  <2>2. BuildBracket(x) = Refused \/ \E t : BuildBracket(x) = [success |-> TRUE, stop |-> stop, target |-> t]
    BY DEF BuildBracket
  <2> QED BY <2>2, Outcomes
<1>3. stop \in Int /\ 2 * Distance(x.stop, stop) <= x.tick
  BY <1>1, Rounded
<1> HIDE DEF stop
<1>4. far \in Int /\ d \in Nat /\ far <= 2 * d
  BY <1>1, <1>3 DEF Distance
<1>5. q \in Nat /\ 100 * q * d <= BrowserRisk(x)
  BY BrowserQuantity
<1>6. BrowserRisk(x) \in Nat
  BY <1>1 DEF BrowserRisk
<1> HIDE DEF far, d, q
<1>7. (100 * q) * far <= (100 * q) * (2 * d)
  BY <1>4, <1>5
<1>8. (100 * q) * (2 * d) = 2 * (100 * q * d)
  BY <1>4, <1>5
<1>9. 100 * q * far <= 2 * BrowserRisk(x)
  BY <1>4, <1>5, <1>6, <1>7, <1>8
<1> QED BY <1>2, <1>9 DEF far, q

LEMMA BrowserNormal ==
  ASSUME NEW x \in BrowserInput, BrowserPosition(x).success
  PROVE  Normalized(BrowserPosition(x).quantity, x) = Size(BrowserPosition(x).quantity)
<1> DEFINE q == BrowserPosition(x).quantity
<1>1. x.step \in Nat \ {0} /\ x.minimum \in Nat \ {0}
  BY SizingAssumption DEF BrowserInput
<1>2. q \in Nat /\ q >= x.minimum /\ \E k \in Nat : q = k * x.step
  BY BrowserQuantity
<1> HIDE DEF q
<1>3. FloorTo(q, 1, x.step) = q
  BY <1>1, <1>2, Floored
<1>4. ~(q <= 0) /\ ~(q < x.minimum)
  BY <1>1, <1>2
<1>5. Normalized(q, x) = Size(q)
  BY <1>3, <1>4 DEF Normalized
<1> QED BY <1>5 DEF q

(* The cut and the uncut size of the worker keep to the leverage.          *)
LEMMA UncutKeepsLeverage ==
  ASSUME NEW q \in Nat, NEW d \in Nat \ {0}, NEW worth \in Nat, NEW entry \in Nat, NEW funds \in Nat,
         100 * q * d <= worth, worth * entry <= 100 * d * funds
  PROVE  q * entry <= funds
<1> SUFFICES ASSUME q * entry >= funds + 1 PROVE FALSE
  OBVIOUS
<1>1. (100 * q * d) * entry <= worth * entry
  BY SMTT(30)
<1>2. (100 * d) * (q * entry) >= (100 * d) * (funds + 1)
  BY SMTT(30)
<1>3. (100 * q * d) * entry = (100 * d) * (q * entry) /\ (100 * d) * (funds + 1) = 100 * d * funds + 100 * d
  BY SMTT(30)
<1> QED BY <1>1, <1>2, <1>3, SMTT(30)

LEMMA WorkerWithinLeverage ==
  ASSUME NEW x \in WorkerInput, WorkerPosition(x).success
  PROVE  WorkerPosition(x).quantity * x.entry <= x.leverage * x.equity
<1>1. /\ x.equity \in Nat /\ x.risk \in Nat /\ x.entry \in Nat \ {0} /\ x.away \in Nat
      /\ x.step \in Nat \ {0} /\ x.minimum \in Nat \ {0} /\ x.leverage \in Nat \ {0}
  BY SizingAssumption DEF WorkerInput
<1> DEFINE d == Distance(x.entry, WorkerStop(x))
           worth == WorkerRisk(x) * x.entry
           funds == x.equity * x.leverage
           capped == worth * x.entry > 100 * d * x.leverage * x.equity
           q == IF capped THEN FloorTo(x.equity * x.leverage, x.entry, x.step)
                          ELSE FloorTo(worth, 100 * d, x.step)
<1>2. d \in Nat
  <2>1. WorkerStop(x) \in Int
    BY <1>1, Rounded DEF WorkerStop
  <2> QED BY <1>1, <2>1 DEF Distance
<1>3. worth \in Nat
  <2>1. WorkerRisk(x) \in Nat
    BY <1>1 DEF WorkerRisk
  <2> QED BY <1>1, <2>1
<1>4. 10000 * d >= x.entry /\ WorkerPosition(x) = Size(q)
  <2> DEFINE refused == x.equity <= 0 \/ 10000 * d < x.entry \/ worth < 100 * d * x.minimum
  <2>1. WorkerPosition(x) = IF refused THEN Refused ELSE Size(q)
    BY DEF WorkerPosition
  <2>2. ~refused
    BY <2>1, Outcomes
  <2>3. WorkerPosition(x) = Size(q)
    BY <2>1, <2>2
  <2> HIDE DEF d
  <2> QED BY <1>1, <1>2, <2>2, <2>3
<1>5. d \in Nat \ {0} /\ 100 * d \in Nat \ {0}
  BY <1>1, <1>2, <1>4
<1> HIDE DEF d, worth
<1>6. funds \in Nat /\ 100 * d * x.leverage * x.equity = 100 * d * funds /\ x.leverage * x.equity = funds
  BY <1>1, <1>2
<1>7. CASE capped
  <2>1. q = FloorTo(funds, x.entry, x.step)
    BY <1>7
  <2> HIDE DEF q, capped, funds
  <2>2. q \in Nat /\ q * x.entry <= funds
    BY <1>1, <1>6, <2>1, Floor, ZenonT(60)
  <2> QED BY <1>4, <1>6, <2>2, Outcomes
<1>8. CASE ~capped
  <2>1. q = FloorTo(worth, 100 * d, x.step)
    BY <1>8
  <2>2. q \in Nat /\ q * (100 * d) <= worth
    BY <1>1, <1>3, <1>5, <2>1, Floor
  <2>3. worth * x.entry <= 100 * d * funds
    <3> HIDE DEF q, funds
    <3>1. worth * x.entry \in Int /\ 100 * d * funds \in Int
      BY <1>1, <1>3, <1>5, <1>6
    <3> QED BY <1>6, <1>8, <3>1
  <2> HIDE DEF q, capped, funds
  <2>4. 100 * q * d = q * (100 * d)
    BY <1>5, <2>2
  <2>5. 100 * q * d <= worth
    BY <2>2, <2>4
  <2>6. q * x.entry <= funds
    BY <1>1, <1>3, <1>5, <1>6, <2>2, <2>3, <2>5, UncutKeepsLeverage
  <2> QED BY <1>4, <1>6, <2>6, Outcomes
<1> QED BY <1>7, <1>8

LEMMA SizedBy ==
  ASSUME SizingNext
  PROVE  \/ \E x \in WorkerInput :
              sized' = [by |-> "worker", in |-> x, out |-> WorkerPosition(x),
                        bracket |-> [stop |-> WorkerStop(x), target |-> WorkerTarget(x)]]
         \/ \E x \in SizerInput : \E out \in {SizerPosition(x), Refused} :
              sized' = [by |-> "sizer", in |-> x, out |-> out]
         \/ \E x \in BrowserInput :
              sized' = [by |-> "browser", in |-> x, out |-> BrowserPosition(x), bracket |-> BuildBracket(x)]
BY Zenon DEF SizingNext, WorkerSizes, SizerSizes, BrowserSizes, Affordable, WorkerInput, SizerInput, BrowserInput

LEMMA RiskStep == ASSUME SizingNext PROVE WithinRisk'
<1>1. ASSUME NEW x \in WorkerInput,
             sized' = [by |-> "worker", in |-> x, out |-> WorkerPosition(x),
                       bracket |-> [stop |-> WorkerStop(x), target |-> WorkerTarget(x)]]
      PROVE  WithinRisk'
  BY <1>1, WorkerWithinRisk DEF WithinRisk
<1>2. ASSUME NEW x \in SizerInput, NEW out \in {SizerPosition(x), Refused},
             sized' = [by |-> "sizer", in |-> x, out |-> out]
      PROVE  WithinRisk'
  BY <1>2, SizerWithinRisk, Outcomes DEF WithinRisk
<1>3. ASSUME NEW x \in BrowserInput,
             sized' = [by |-> "browser", in |-> x, out |-> BrowserPosition(x), bracket |-> BuildBracket(x)]
      PROVE  WithinRisk'
  BY <1>3, BrowserWithinRisk DEF WithinRisk
<1> QED BY <1>1, <1>2, <1>3, SizedBy

LEMMA LeverageStep == ASSUME SizingNext PROVE WithinLeverage'
<1>1. ASSUME NEW x \in WorkerInput,
             sized' = [by |-> "worker", in |-> x, out |-> WorkerPosition(x),
                       bracket |-> [stop |-> WorkerStop(x), target |-> WorkerTarget(x)]]
      PROVE  WithinLeverage'
  BY <1>1, WorkerWithinLeverage DEF WithinLeverage
<1>2. ASSUME NEW x \in SizerInput, NEW out \in {SizerPosition(x), Refused},
             sized' = [by |-> "sizer", in |-> x, out |-> out]
      PROVE  WithinLeverage'
  BY <1>2, SizerWithinRisk, Outcomes DEF WithinLeverage
<1>3. ASSUME NEW x \in BrowserInput,
             sized' = [by |-> "browser", in |-> x, out |-> BrowserPosition(x), bracket |-> BuildBracket(x)]
      PROVE  WithinLeverage'
  BY <1>3, BrowserQuantity DEF WithinLeverage
<1> QED BY <1>1, <1>2, <1>3, SizedBy

LEMMA WeighedStep == ASSUME SizingNext PROVE AsWeighed'
<1>1. ASSUME NEW x \in WorkerInput,
             sized' = [by |-> "worker", in |-> x, out |-> WorkerPosition(x),
                       bracket |-> [stop |-> WorkerStop(x), target |-> WorkerTarget(x)]]
      PROVE  AsWeighed'
  BY <1>1 DEF AsWeighed
<1>2. ASSUME NEW x \in SizerInput, NEW out \in {SizerPosition(x), Refused},
             sized' = [by |-> "sizer", in |-> x, out |-> out]
      PROVE  AsWeighed'
  BY <1>2 DEF AsWeighed
<1>3. ASSUME NEW x \in BrowserInput,
             sized' = [by |-> "browser", in |-> x, out |-> BrowserPosition(x), bracket |-> BuildBracket(x)]
      PROVE  AsWeighed'
  BY <1>3, BrowserNormal DEF AsWeighed
<1> QED BY <1>1, <1>2, <1>3, SizedBy

(* What a position loses at its stop is never more than what was to be     *)
(* risked, for any balances, prices, risks, steps and leverages: neither   *)
(* the leverage cap nor the rounding of RiskEngine, PositionSizer or       *)
(* riskEngine.ts makes it more.                                            *)
THEOREM RiskKept == SizingSpec => []WithinRisk
<1>1. SizingInit => WithinRisk
  BY DEF SizingInit, WithinRisk
<1>2. WithinRisk /\ [SizingNext]_sized => WithinRisk'
  <2>1. WithinRisk /\ sized' = sized => WithinRisk'
    BY DEF WithinRisk
  <2> QED BY <2>1, RiskStep
<1> QED BY <1>1, <1>2, PTL DEF SizingSpec

(* ... and the size keeps to the leverage allowed, and is the size that    *)
(* the strategies of the browser order after their second check.           *)
THEOREM SizesSafely == SizingSpec => []SizedSafely
<1>1. SizingInit => WithinLeverage /\ AsWeighed
  BY DEF SizingInit, WithinLeverage, AsWeighed
<1>2. WithinLeverage /\ [SizingNext]_sized => WithinLeverage'
  <2>1. WithinLeverage /\ sized' = sized => WithinLeverage'
    BY DEF WithinLeverage
  <2> QED BY <2>1, LeverageStep
<1>3. AsWeighed /\ [SizingNext]_sized => AsWeighed'
  <2>1. AsWeighed /\ sized' = sized => AsWeighed'
    BY DEF AsWeighed
  <2> QED BY <2>1, WeighedStep
<1>4. WithinRisk /\ WithinLeverage /\ AsWeighed => SizedSafely
  BY DEF SizedSafely
<1> QED BY <1>1, <1>2, <1>3, <1>4, RiskKept, PTL DEF SizingSpec

-----------------------------------------------------------------------------
(* Signals *)

DecidedInv == reading \in Readings /\ verdict \in {Pending, Decide(reading)}

(* Everything but the relative strength adds up to 48, with the cross of   *)
(* the averages to no more: the bonus is only for scores below 20.         *)
LEMMA WithoutExtremeTooLow ==
  ASSUME NEW r, NEW side \in Sides, ~Beyond(r.rsi, Oversold, Overbought, side)
  PROVE  Score(r, side) \in 0..48
<1>1. RsiScore(r, side) = 0
  BY DEF RsiScore
<1> DEFINE score == (IF r.volatility = "sweet" THEN 8 ELSE 0) + RsiScore(r, side)
                    + (IF r.move = side THEN 15 ELSE 0) + (IF r.atrInBand THEN 6 ELSE 0) + AlignmentScore(r, side)
<1>2. AlignmentScore(r, side) \in 0..10
  <2> DEFINE aligned == IF side = "long" THEN r.alignment ELSE -r.alignment
  <2>1. AlignmentScore(r, side) = CASE aligned = 3 -> 10 [] aligned = 2 -> 6 [] OTHER -> 0
    BY DEF AlignmentScore
  <2> HIDE DEF aligned
  <2> QED BY <2>1
<1>3. score \in 0..39
  BY <1>1, <1>2
<1> HIDE DEF score
<1>4. GatedByPullback(r, score) \in 0..44
  BY <1>3 DEF GatedByPullback
<1>5. Collected(r, side) = GatedByPullback(r, score) + (IF r.squeezed THEN 4 ELSE 0)
  BY DEF Collected, score
<1>6. Collected(r, side) \in 0..48
  BY <1>4, <1>5
<1>7. CrossBonus(r, side) = 0 \/ (CrossBonus(r, side) = 25 /\ Collected(r, side) < 20)
  <2>1. (\A s \in Sides : Collected(r, s) < 20) => Collected(r, side) < 20
    OBVIOUS
  <2> DEFINE cond == r.gap /\ r.trend = side /\ \A s \in Sides : Collected(r, s) < 20
  <2>2. CrossBonus(r, side) = IF cond THEN 25 ELSE 0
    BY DEF CrossBonus
  <2>3. cond => Collected(r, side) < 20
    BY <2>1
  <2> HIDE DEF cond
  <2> QED BY <2>2, <2>3
<1> QED BY <1>6, <1>7 DEF Score

LEMMA RazorNeedsExtreme ==
  ASSUME NEW r, AnalyzeEntry(r).type \in Sides
  PROVE  /\ Beyond(r.rsi, Oversold, Overbought, AnalyzeEntry(r).type)
         /\ {"volatility", "rsi_extreme"} \subseteq Checkpoints(r)
<1> DEFINE best == IF Score(r, "long") > Score(r, "short") THEN "long" ELSE "short"
           won == Score(r, best) # Score(r, Other(best)) /\ Score(r, best) >= Threshold
           refused == r.limit \/ r.volatility \in {"low", "high"}
<1>1. NoSignal.type = "none" /\ \A t, n : Verdict(t, n).type = t
  BY DEF NoSignal, Verdict
<1>2. AnalyzeEntry(r) = IF refused THEN NoSignal ELSE
                        IF won THEN Verdict(best, Capped(Score(r, best), 100)) ELSE Verdict("none", Score(r, best))
  BY DEF AnalyzeEntry
<1>3. best \in Sides
  BY DEF Sides
<1>4. won => Score(r, best) >= 58
  BY DEF Threshold
<1>8. ~refused => r.volatility \notin {"low", "high"}
  OBVIOUS
<1> HIDE DEF best, won, refused
<1>5. ~refused /\ won
  <2> SUFFICES ASSUME refused \/ ~won PROVE AnalyzeEntry(r) = NoSignal \/ \E n : AnalyzeEntry(r) = Verdict("none", n)
    BY <1>1 DEF Sides
  <2>1. CASE refused
    BY <1>2, <2>1
  <2>2. CASE ~refused /\ ~won
    BY <1>2, <2>2
  <2> QED BY <2>1, <2>2
<1>7. AnalyzeEntry(r).type = best
  <2>1. AnalyzeEntry(r) = Verdict(best, Capped(Score(r, best), 100))
    BY <1>2, <1>5
  <2> QED BY <1>1, <2>1
<1>6. Beyond(r.rsi, Oversold, Overbought, best)
  BY <1>3, <1>4, <1>5, WithoutExtremeTooLow
<1> QED BY <1>3, <1>5, <1>6, <1>7, <1>8 DEF Checkpoints

LEMMA MicroNeedsExtreme ==
  ASSUME NEW r, r.rsi \in Int, r.momentum \in Int, GenerateMicroSignal(r).type \in Sides
  PROVE  Beyond(r.rsi, 30, 70, GenerateMicroSignal(r).type) /\ Runs(r, GenerateMicroSignal(r).type, 0)
<1>1. NoSignal.type = "none" /\ \A t, n : Verdict(t, n).type = t
  BY DEF NoSignal, Verdict
<1> DEFINE reverting == {s \in Sides : Reverts(r, s)}
           aggressive == {s \in Sides : Aggressive(r, s)}
           side == CHOOSE s \in IF reverting # {} THEN reverting ELSE aggressive : TRUE
<1>2. \/ reverting = {} /\ aggressive = {} /\ GenerateMicroSignal(r) = NoSignal
      \/ /\ reverting # {} \/ aggressive # {}
         /\ \E n : GenerateMicroSignal(r) = Verdict(side, n)
  BY DEF GenerateMicroSignal
<1>3. reverting # {} \/ aggressive # {} => side \in reverting \cup aggressive
  OBVIOUS
<1> HIDE DEF side
<1>4. GenerateMicroSignal(r).type = side /\ side \in reverting \cup aggressive
  BY <1>1, <1>2, <1>3 DEF Sides
<1>5. side \in Sides /\ (Reverts(r, side) \/ Aggressive(r, side))
  BY <1>4
<1> QED BY <1>4, <1>5 DEF Reverts, Aggressive, Beyond, Runs, Sides

LEMMA MicroReading ==
  ASSUME NEW r \in Readings, r.of = "micro"
  PROVE  r.rsi \in Int /\ r.momentum \in Int
<1>1. r \notin SeriesReadings
  BY DEF SeriesReadings, CalculateIndicators
<1>2. r \in MicroReadings
  BY <1>1 DEF Readings, RazorReadings, ThorReadings, EngineReadings, ScalperReadings
<1>3. \A x \in BothWays(Strengths) : x \in Int
  BY DEF BothWays, Strengths
<1>4. \A x \in UNION {{-y, y} : y \in {0, 5, 7, 10, 15, 31}} : x \in Int
  OBVIOUS
<1>5. r.rsi \in BothWays(Strengths) /\ r.momentum \in UNION {{-x, x} : x \in {0, 5, 7, 10, 15, 31}}
  BY <1>2 DEF MicroReadings
<1> QED BY <1>3, <1>4, <1>5

(* Whatever adds up, Razor never enters without an extreme of the relative *)
(* strength in the direction of the trade, and the browser's Razor never   *)
(* against the reversion it looks for.                                     *)
THEOREM ExtremeNeeded == SignalsSpec => []SignalNeedsExtreme
<1>1. SignalsInit => DecidedInv
  BY DEF SignalsInit, DecidedInv
<1>2. DecidedInv /\ [SignalsNext]_signalVars => DecidedInv'
  BY DEF DecidedInv, SignalsNext, Decides, signalVars
<1>3. DecidedInv => SignalNeedsExtreme
  <2> SUFFICES ASSUME DecidedInv, verdict.type \in Sides,
                      reading.of = "razor" \/ reading.of = "micro"
               PROVE  CASE reading.of = "razor" ->
                             Beyond(reading.rsi, Oversold, Overbought, verdict.type)
                             /\ {"volatility", "rsi_extreme"} \subseteq Checkpoints(reading)
                        [] reading.of = "micro" ->
                             Beyond(reading.rsi, 30, 70, verdict.type) /\ Runs(reading, verdict.type, 0)
                        [] OTHER -> TRUE
    BY DEF SignalNeedsExtreme
  <2>1. verdict = Decide(reading)
    BY DEF DecidedInv, Pending, Verdict, Sides
  <2>2. CASE reading.of = "razor"
    BY <2>1, <2>2, RazorNeedsExtreme DEF Decide
  <2>3. CASE reading.of = "micro"
    BY <2>1, <2>3, MicroNeedsExtreme, MicroReading DEF Decide, DecidedInv
  <2> QED BY <2>2, <2>3
<1> QED BY <1>1, <1>2, <1>3, PTL DEF SignalsSpec

=============================================================================
