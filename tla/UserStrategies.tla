---------------------------- MODULE UserStrategies -----------------------------
(***************************************************************************)
(* The strategies of one user: the broker registry with its manual         *)
(* disconnect flag, the per-user strategy service and its table            *)
(* user_strategies.  Requests interleave at every database, key-value or   *)
(* broker await.  Users share nothing, so one is enough; his strategies    *)
(* run on one instrument of one broker and environment.                    *)
(***************************************************************************)
EXTENDS Naturals, Sequences, FiniteSets, Functions

CONSTANTS
  Strategies,     (* strategy names of the user                            *)
  UserCalls,      (* requests in flight                                    *)
  MaxLinks, MaxExecutors, MaxRestarts (* bounds                            *)

ASSUME UserStrategiesAssumption == {MaxLinks, MaxExecutors, MaxRestarts} \subseteq Nat

VARIABLES
  booting,  (* rows initialize() still has to look at, or {} when listening *)
  flag,     (* the manual disconnect flag, in the memory of kvStorage      *)
  links,    (* BackendDeribitClient objects: [up, sub: executor or 0]      *)
  registered, (* the client of the registry, or 0                          *)
  owner,    (* executor -> strategy                                        *)
  running,  (* runningStrategies: strategy -> executor                     *)
  row,      (* strategy -> status column, "none" without a row             *)
  ucall,    (* call -> where it is                                         *)
  restarts,
  unsaved,  (* history: strategies whose last status update failed         *)
  over      (* history: strategies whose stop was the last thing answered  *)
userVars == <<booting, flag, links, registered, owner, running, row, ucall, restarts, unsaved, over>>

Free == [pc |-> "free", k |-> "", e |-> 0, l |-> 0]
LinkUp(l) == l # 0 /\ links[l].up
Quiet == \A c \in UserCalls : ucall[c] = Free
GetsTicks(e) == \E l \in DOMAIN links : links[l].up /\ links[l].sub = e

UserStrategiesInit ==
  /\ booting = {} /\ flag = FALSE /\ links = <<>> /\ registered = 0
  /\ owner = <<>> /\ running = <<>> /\ row = [k \in Strategies |-> "none"]
  /\ ucall = [c \in UserCalls |-> Free] /\ restarts = 0 /\ unsaved = {} /\ over = {}

UAt(c, pc) == ucall[c].pc = pc /\ booting = {}
UGoto(c, pc) == ucall' = [ucall EXCEPT ![c].pc = pc]
UEnd(c) == ucall' = [ucall EXCEPT ![c] = Free]

(* updateStatus, markDisconnected: the database takes the new status or    *)
(* the query fails and the row is as it was.                               *)
Update(k, s) == row' = [row EXCEPT ![k] = s] /\ unsaved' = unsaved \ {k}
UpdateFails(k) == unsaved' = unsaved \cup {k} /\ UNCHANGED row

-----------------------------------------------------------------------------
(* The broker registry.  The flag is only cleared by a connect that found  *)
(* it clear.                                                               *)

ConnectCheck(c) ==
  /\ UAt(c, "free") /\ ~flag
  /\ UGoto(c, "credentials")
  /\ UNCHANGED <<booting, flag, links, registered, owner, running, row, restarts, unsaved, over>>

(* A client that is registered is connected again. *)
ConnectClient(c) ==
  /\ UAt(c, "credentials")
  /\ \/ UEnd(c) /\ UNCHANGED <<links, registered>> (* no credentials *)
     \/ /\ registered = 0 => Len(links) < MaxLinks
        /\ links' = IF registered = 0 THEN Append(links, [up |-> FALSE, sub |-> 0]) ELSE links
        /\ registered' = IF registered = 0 THEN Len(links') ELSE registered
        /\ ucall' = [ucall EXCEPT ![c].pc = "linking", ![c].l = registered']
  /\ UNCHANGED <<booting, flag, owner, running, row, restarts, unsaved, over>>

ConnectLinked(c) ==
  /\ UAt(c, "linking")
  /\ \/ links' = [links EXCEPT ![ucall[c].l].up = TRUE] /\ UGoto(c, "linked")
     \/ UEnd(c) /\ UNCHANGED links
  /\ UNCHANGED <<booting, flag, registered, owner, running, row, restarts, unsaved, over>>

ConnectUnflag(c) ==
  /\ UAt(c, "linked")
  /\ flag' = FALSE
  /\ UEnd(c)
  /\ UNCHANGED <<booting, links, registered, owner, running, row, restarts, unsaved, over>>

DisconnectFlag(c) ==
  /\ UAt(c, "free")
  /\ flag' = TRUE
  /\ ucall' = [ucall EXCEPT ![c] = [Free EXCEPT !.pc = "flagged", !.l = registered]]
  /\ UNCHANGED <<booting, links, registered, owner, running, row, restarts, unsaved, over>>

DisconnectLink(c) ==
  LET l == ucall[c].l IN
  /\ UAt(c, "flagged")
  /\ links' = IF l = 0 THEN links ELSE [links EXCEPT ![l].up = FALSE]
  /\ registered' = IF l = 0 THEN registered ELSE 0
  /\ UEnd(c)
  /\ UNCHANGED <<booting, flag, owner, running, row, restarts, unsaved, over>>

(* A client reconnects by itself and resubscribes, also after disconnect   *)
(* (DeribitClient).                                                        *)
LinkFlips(l) ==
  /\ links' = [links EXCEPT ![l].up = ~@]
  /\ UNCHANGED <<booting, flag, registered, owner, running, row, ucall, restarts, unsaved, over>>

-----------------------------------------------------------------------------
(* startStrategy: checks, then the executor, the row, the instance, the    *)
(* subscription.                                                           *)

StartCheck(c, k) ==
  /\ UAt(c, "free")
  /\ k \notin DOMAIN running /\ LinkUp(registered)
  /\ Len(owner) < MaxExecutors
  /\ owner' = Append(owner, k)
  /\ ucall' = [ucall EXCEPT ![c] = [pc |-> "select", k |-> k, e |-> Len(owner'), l |-> 0]]
  /\ over' = over \ {k}
  /\ UNCHANGED <<booting, flag, links, registered, running, row, restarts, unsaved>>

(* save() looks whether there is a row, then inserts or updates; any query *)
(* may fail.                                                               *)
StartSelect(c) ==
  /\ UAt(c, "select")
  /\ \/ UGoto(c, IF row[ucall[c].k] = "none" THEN "insert" ELSE "update")
     \/ UGoto(c, "failed")
  /\ UNCHANGED <<booting, flag, links, registered, owner, running, row, restarts, unsaved, over>>

(* The unique constraint fails the second of two inserts.  The row is      *)
(* active, then its connected_at is set, which may fail as well.           *)
StartSave(c) ==
  LET k == ucall[c].k IN
  /\ UAt(c, "insert") \/ UAt(c, "update")
  /\ \/ /\ UAt(c, "insert") => row[k] = "none"
        /\ Update(k, "active")
        /\ UGoto(c, "saved") \/ UGoto(c, "failed")
     \/ UGoto(c, "failed") /\ UNCHANGED <<row, unsaved>>
  /\ UNCHANGED <<booting, flag, links, registered, owner, running, restarts, over>>

(* The instance is put in the map; the executor initialises. *)
StartInstance(c) ==
  LET k == ucall[c].k IN
  /\ UAt(c, "saved")
  /\ running' = [j \in DOMAIN running \cup {k} |-> IF j = k THEN ucall[c].e ELSE running[j]]
  /\ UGoto(c, "initialized")
  /\ UNCHANGED <<booting, flag, links, registered, owner, row, restarts, unsaved, over>>

(* runStrategyLoop: without a connected client it just returns; one        *)
(* callback per instrument is kept, the last.                              *)
StartSubscribe(c) ==
  /\ UAt(c, "initialized")
  /\ \/ /\ LinkUp(registered)
        /\ links' = [links EXCEPT ![registered].sub = ucall[c].e]
        /\ UEnd(c)
     \/ /\ ~LinkUp(registered)
        /\ UEnd(c) /\ UNCHANGED links
     \/ UGoto(c, "failed") /\ UNCHANGED links (* the executor, the instrument *)
     \/ /\ LinkUp(registered)
        /\ UGoto(c, "failed") (* the subscription *)
        /\ links' = [links EXCEPT ![registered].sub = 0]
  /\ UNCHANGED <<booting, flag, registered, owner, running, row, restarts, unsaved, over>>

(* The error is written to the row, if the database takes it; an instance  *)
(* that is there stays.                                                    *)
StartFailed(c) ==
  /\ UAt(c, "failed")
  /\ \/ row[ucall[c].k] # "none" /\ Update(ucall[c].k, "error")
     \/ row[ucall[c].k] = "none" /\ UNCHANGED <<row, unsaved>> (* no row to update *)
     \/ UpdateFails(ucall[c].k)
  /\ UEnd(c)
  /\ UNCHANGED <<booting, flag, links, registered, owner, running, restarts, over>>

(* stopStrategy: the instance and its heartbeat go, then the row says so,  *)
(* or the answer is the error of the database.                             *)
StopInstance(c, k) ==
  /\ UAt(c, "free") /\ row[k] # "none"
  /\ running' = Restrict(running, DOMAIN running \ {k})
  /\ ucall' = [ucall EXCEPT ![c] = [Free EXCEPT !.pc = "stopping", !.k = k]]
  /\ UNCHANGED <<booting, flag, links, registered, owner, row, restarts, unsaved, over>>

(* Mutant: only the instance is removed. *)
StopRowForgotten(c) ==
  /\ UAt(c, "stopping")
  /\ UEnd(c)
  /\ UNCHANGED <<booting, flag, links, registered, owner, running, row, restarts, unsaved, over>>

StopRow(c) ==
  LET k == ucall[c].k IN
  /\ UAt(c, "stopping")
  /\ \/ /\ Update(k, "stopped")
        /\ over' = IF \A d \in UserCalls \ {c} : ucall[d] = Free THEN over \cup {k} ELSE over
     \/ UpdateFails(k) /\ UNCHANGED over
  /\ UEnd(c)
  /\ UNCHANGED <<booting, flag, links, registered, owner, running, restarts>>

-----------------------------------------------------------------------------
(* The process dies; kvStorage is lost with it. *)
ServerDies ==
  /\ restarts < MaxRestarts /\ restarts' = restarts + 1
  /\ booting' = {k \in Strategies : row[k] = "active"}
  /\ flag' = FALSE /\ links' = <<>> /\ registered' = 0 /\ running' = <<>>
  /\ owner' = <<>>
  /\ ucall' = [c \in UserCalls |-> Free]
  /\ UNCHANGED <<row, unsaved, over>>

(* initialize() runs before the server listens, so no client is connected  *)
(* yet: every active row is paused, or, when that update fails, marked     *)
(* with the error.                                                         *)
BootPause(k) ==
  /\ k \in booting
  /\ Update(k, "paused") \/ Update(k, "error")
  /\ booting' = booting \ {k}
  /\ UNCHANGED <<flag, links, registered, owner, running, ucall, restarts, over>>

(* When that fails too, or the rows cannot be read, initialize() gives up  *)
(* and the server listens; the rows that are left stay active.             *)
BootGivesUp ==
  /\ booting # {} /\ booting' = {}
  /\ unsaved' = unsaved \cup booting
  /\ UNCHANGED <<flag, links, registered, owner, running, row, ucall, restarts, over>>

UserStrategiesNext ==
  \/ \E c \in UserCalls :
       \/ ConnectCheck(c) \/ ConnectClient(c) \/ ConnectLinked(c) \/ ConnectUnflag(c)
       \/ DisconnectFlag(c) \/ DisconnectLink(c)
       \/ StartSelect(c) \/ StartSave(c) \/ StartInstance(c) \/ StartSubscribe(c)
       \/ StartFailed(c) \/ StopRow(c)
       \/ \E k \in Strategies : StartCheck(c, k) \/ StopInstance(c, k)
  \/ \E l \in DOMAIN links : LinkFlips(l)
  \/ ServerDies \/ BootGivesUp
  \/ \E k \in Strategies : BootPause(k)

-----------------------------------------------------------------------------
UserStrategiesTypeOK ==
  /\ registered \in 0..Len(links) /\ flag \in BOOLEAN
  /\ \A k \in Strategies : row[k] \in {"none", "active", "stopped", "paused", "error"}
  /\ \A k \in DOMAIN running : owner[running[k]] = k
  /\ \A l \in DOMAIN links : links[l].sub \in 0..Len(owner)

(* Whenever no request is in flight, a strategy the table calls active has *)
(* a running instance, or the last update of its status failed: over       *)
(* concurrent starts and stops, failing queries and subscriptions and      *)
(* restarts.  A failed update leaves an active row that nothing runs only  *)
(* until the next start, stop or restart writes that row.                  *)
ActiveRowsRun ==
  Quiet /\ booting = {} =>
    \A k \in Strategies : row[k] = "active" => k \in DOMAIN running \cup unsaved

(* "Strategy stopped successfully": after a stop with nothing else in      *)
(* flight, and until the next start, no executor of the strategy receives  *)
(* the ticker it trades on.                                                *)
StoppedGetsNoTicks == \A e \in DOMAIN owner : owner[e] \in over => ~GetsTicks(e)

=============================================================================
