------------------------------- MODULE Accounts --------------------------------
(***************************************************************************)
(* User accounts, access tokens and encrypted broker credentials: the      *)
(* auth, admin and credentials routes of server.ts over PostgreSQL.  Each  *)
(* route is one statement, except login and the loading of credentials,    *)
(* which read a row, await, and act on what they read.                     *)
(***************************************************************************)
EXTENDS Naturals, FiniteSets, Functions

CONSTANTS
  Emails, AdminEmails,   (* addresses, and those that become admins        *)
  Passwords,
  AccountCalls,          (* logins and credential loads in flight          *)
  MaxUsers, MaxSaves, MaxKeys (* bounds: accounts, saves, master keys      *)

ASSUME AccountsAssumption ==
  AdminEmails \subseteq Emails /\ {MaxUsers, MaxSaves, MaxKeys} \subseteq Nat

VARIABLES
  users,      (* id -> row of the table users                              *)
  accounts,   (* ids given out so far                                      *)
  tokens,     (* access tokens that were issued                            *)
  creds,      (* user id -> row of user_credentials (one broker)           *)
  saves,      (* salts drawn so far                                        *)
  master,     (* ENCRYPTION_MASTER_KEY of this process                     *)
  acall       (* call -> the row it read, and what for                     *)
accountVars == <<users, accounts, tokens, creds, saves, master, acall>>

NoCall == [op |-> "none"]
Token == [id : 1..MaxUsers, admin : BOOLEAN]

AccountsInit ==
  /\ users = <<>> /\ accounts = 0 /\ tokens = {}
  /\ creds = <<>> /\ saves = 0 /\ master = 1
  /\ acall = [c \in AccountCalls |-> NoCall]

PutRow(f, x, row) == [y \in DOMAIN f \cup {x} |-> IF y = x THEN row ELSE f[y]]
WithEmail(e) == {i \in DOMAIN users : users[i].email = e}

(* registerUser: the address is unique, an admin address makes an admin. *)
Register(e, p) ==
  /\ accounts < MaxUsers /\ WithEmail(e) = {}
  /\ accounts' = accounts + 1
  /\ users' = PutRow(users, accounts',
                [email |-> e, pass |-> p, admin |-> e \in AdminEmails, active |-> TRUE])
  /\ UNCHANGED <<tokens, creds, saves, master, acall>>

(* loginUser: find the row, verify the password against the hash that was  *)
(* read, then issue a token that says what the row said.                   *)
LoginRead(c, e, p) ==
  /\ acall[c] = NoCall
  /\ \E i \in WithEmail(e) :
       /\ users[i].active
       /\ acall' = [acall EXCEPT ![c] = [op |-> "login", id |-> i, row |-> users[i], given |-> p]]
  /\ UNCHANGED <<users, accounts, tokens, creds, saves, master>>

LoginAnswer(c) ==
  /\ acall[c].op = "login"
  /\ tokens' = IF acall[c].given = acall[c].row.pass
                 THEN tokens \cup {[id |-> acall[c].id, admin |-> acall[c].row.admin]} ELSE tokens
  /\ acall' = [acall EXCEPT ![c] = NoCall]
  /\ UNCHANGED <<users, accounts, creds, saves, master>>

(* requireAdmin believes the token. *)
ByAdmin == \E t \in tokens : t.admin

ResetPassword(i, p) ==
  /\ ByAdmin /\ i \in DOMAIN users
  /\ users' = [users EXCEPT ![i].pass = p]
  /\ UNCHANGED <<accounts, tokens, creds, saves, master, acall>>

ToggleActive(i) ==
  /\ ByAdmin /\ i \in DOMAIN users
  /\ users' = [users EXCEPT ![i].active = ~@]
  /\ UNCHANGED <<accounts, tokens, creds, saves, master, acall>>

(* Nobody deletes his own account; the credentials go with the account. *)
DeleteUser(i) ==
  /\ \E t \in tokens : t.admin /\ t.id # i
  /\ i \in DOMAIN users
  /\ users' = Restrict(users, DOMAIN users \ {i})
  /\ creds' = Restrict(creds, DOMAIN creds \ {i})
  /\ UNCHANGED <<accounts, tokens, saves, master, acall>>

(* A row holds the ciphertext (made with a salt and the master key) and    *)
(* the salt column decryption will use.                                    *)
CredRow(s) == [cipher |-> s, salt |-> s, key |-> master, active |-> TRUE]
Readable(row) == row.cipher = row.salt /\ row.key = master

(* Mutant: the upsert leaves the salt column of an existing row alone. *)
UpsertKeepsSalt(i, s) ==
  PutRow(creds, i, IF i \in DOMAIN creds THEN [CredRow(s) EXCEPT !.salt = creds[i].salt] ELSE CredRow(s))

Upsert(i, s) == PutRow(creds, i, CredRow(s))

(* The foreign key refuses the rows of a deleted account. *)
SaveCredentials(t) ==
  /\ t \in tokens /\ t.id \in DOMAIN users
  /\ saves < MaxSaves /\ saves' = saves + 1
  /\ creds' = Upsert(t.id, saves')
  /\ UNCHANGED <<users, accounts, tokens, master, acall>>

LoadRead(c, t) ==
  /\ acall[c] = NoCall
  /\ t \in tokens /\ t.id \in DOMAIN creds /\ creds[t.id].active
  /\ acall' = [acall EXCEPT ![c] = [op |-> "load", id |-> t.id, row |-> creds[t.id], given |-> ""]]
  /\ UNCHANGED <<users, accounts, tokens, creds, saves, master>>

(* What cannot be decrypted is deactivated, by user and broker. *)
LoadDecrypt(c) ==
  LET i == acall[c].id IN
  /\ acall[c].op = "load"
  /\ creds' = IF Readable(acall[c].row) \/ i \notin DOMAIN creds THEN creds
              ELSE [creds EXCEPT ![i].active = FALSE]
  /\ acall' = [acall EXCEPT ![c] = NoCall]
  /\ UNCHANGED <<users, accounts, tokens, saves, master>>

DeleteCredentials(t) ==
  /\ t \in tokens /\ t.id \in DOMAIN creds
  /\ creds' = Restrict(creds, DOMAIN creds \ {t.id})
  /\ UNCHANGED <<users, accounts, tokens, saves, master, acall>>

(* The server restarts with another master key. *)
NewMasterKey ==
  /\ master < MaxKeys /\ master' = master + 1
  /\ acall' = [c \in AccountCalls |-> NoCall]
  /\ UNCHANGED <<users, accounts, tokens, creds, saves>>

AccountsNext ==
  \/ \E e \in Emails, p \in Passwords : Register(e, p) \/ \E c \in AccountCalls : LoginRead(c, e, p)
  \/ \E c \in AccountCalls : LoginAnswer(c) \/ LoadDecrypt(c)
  \/ \E i \in DOMAIN users : ToggleActive(i) \/ DeleteUser(i) \/ \E p \in Passwords : ResetPassword(i, p)
  \/ \E t \in tokens : SaveCredentials(t) \/ DeleteCredentials(t) \/ \E c \in AccountCalls : LoadRead(c, t)
  \/ NewMasterKey

-----------------------------------------------------------------------------
AccountsTypeOK ==
  /\ DOMAIN users \subseteq 1..accounts /\ tokens \subseteq Token
  /\ \A i \in DOMAIN users : users[i].email \in Emails /\ users[i].pass \in Passwords
  /\ \A i \in DOMAIN creds : creds[i] \in [cipher : 1..saves, salt : 1..saves, key : 1..master, active : BOOLEAN]

(* Credentials saved under the master key in use can be decrypted, however *)
(* often they were replaced and whichever account was deleted in between,  *)
(* and they belong to an account that still exists (encryption and upsert  *)
(* of saveCredentials, cascade of the deletion).                           *)
SavedReadable ==
  \A i \in DOMAIN creds : i \in DOMAIN users /\ (creds[i].key = master => Readable(creds[i]))

(* "Deactivate this credential row": only a row that cannot be decrypted.  *)
OnlyUnreadableDeactivated ==
  [][\A i \in DOMAIN creds \cap DOMAIN creds' :
       creds[i].active /\ ~creds'[i].active => ~Readable(creds[i])]_accountVars

=============================================================================
