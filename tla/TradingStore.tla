------------------------------ MODULE TradingStore -----------------------------
(***************************************************************************)
(* The trading state of the browser (state/store.ts): what it shows of the *)
(* connection, the strategy and the position, kept by three polls of the   *)
(* backend and by the user's actions, all of which await answers and then  *)
(* write.  The backend (external) is what the API reports of it: its link  *)
(* to the exchange, whether a strategy runs, whether a position is open.   *)
(*                                                                         *)
(* The local strategy object is never created (strategy is always null),   *)
(* and 'disabled' is never saved.  A poll is modelled with one request in  *)
(* flight: setInterval does not wait, but an answer takes less than 3 s.   *)
(***************************************************************************)
EXTENDS Naturals

CONSTANTS
  MaxActions, (* bound on user actions and backend changes together       *)
  MaxTurns    (* bound on backend changes                                 *)
ASSUME StoreAssumption == {MaxActions, MaxTurns} \subseteq Nat

VARIABLES
  reach,      (* backend: "up", "down", or "off" by hand                    *)
  runs,      (* backend: a strategy runs                                   *)
  atMarket,  (* backend: a position is open                                *)
  conn,      (* connectionState                                            *)
  status,    (* strategyStatus                                             *)
  shown,     (* activePosition: none, or with or without a strategy name   *)
  stopped,   (* wasStrategyStopped                                         *)
  saved,     (* last-active-strategy is set                                *)
  funds,     (* usdcBalance is known                                       *)
  polling,   (* the intervals that run                                     *)
  poll,      (* interval -> its callback in flight                         *)
  action,    (* the user's call in flight                                  *)
  sent,      (* requests to the backend that nobody awaits                 *)
  actions, turns, settled (* bounds; the backend and the user rest         *)
backendSide == <<reach, runs, atMarket>>
storeSide == <<conn, status, shown, stopped, saved, funds, polling>>
boundsSide == <<actions, turns, settled>>
storeVars == <<backendSide, storeSide, poll, action, sent, boundsSide>>

Polls == {"monitor", "realtime", "status"}
Resting == [at |-> "none"]
Waits(p, at) == poll[p].at = at
Unanswered == ~settled

StoreInit ==
  /\ reach \in {"up", "down", "off"} /\ runs \in BOOLEAN /\ atMarket \in BOOLEAN
  /\ conn = "Stopped" /\ status = "stopped" /\ shown = "none" /\ stopped = FALSE
  /\ saved \in BOOLEAN /\ funds = FALSE /\ polling = {}
  /\ poll = [p \in Polls |-> Resting] /\ action = Resting /\ sent = {}
  /\ actions = 0 /\ turns = 0 /\ settled = FALSE

-----------------------------------------------------------------------------
(* The backend on its own. *)
BackendTurns ==
  /\ ~settled /\ turns < MaxTurns /\ actions + turns < MaxActions /\ turns' = turns + 1
  /\ \/ reach \in {"up", "down"} /\ reach' = (IF reach = "up" THEN "down" ELSE "up") /\ UNCHANGED <<runs, atMarket>>
     \/ runs /\ runs' = FALSE /\ UNCHANGED <<reach, atMarket>>
     \/ (atMarket \/ runs) /\ atMarket' = ~atMarket /\ UNCHANGED <<reach, runs>>
  /\ UNCHANGED <<storeSide, poll, action, sent, actions, settled>>
Settle == ~settled /\ settled' = TRUE /\ UNCHANGED <<backendSide, storeSide, poll, action, sent, actions, turns>>

(* Requests sent without waiting: they arrive in any order, or not. *)
Arrives(s) ==
  /\ sent' = sent \ {s}
  /\ \/ Unanswered /\ UNCHANGED <<reach, runs>>
     \/ s = "disconnect" /\ reach' = "off" /\ UNCHANGED runs
     \/ s \in {"stop", "kill"} /\ runs' = FALSE /\ UNCHANGED reach
  /\ UNCHANGED <<atMarket, storeSide, poll, action, boundsSide>>

-----------------------------------------------------------------------------
(* The user's calls begin: at most one is awaited. *)
Acts(at) ==
  /\ action = Resting /\ ~settled /\ actions + turns < MaxActions /\ actions' = actions + 1
  /\ action' = [at |-> at] /\ UNCHANGED <<backendSide, poll, turns, settled>>
Returns == action' = Resting

(* initializeClient connects by itself if the backend is connected. *)
AutoConnect ==
  /\ polling = {} /\ reach = "up" /\ Acts("connect") /\ conn' = "Connecting"
  /\ UNCHANGED <<status, shown, stopped, saved, funds, polling, sent>>
StoreConnects ==
  /\ Acts("connect") /\ conn' = "Connecting"
  /\ UNCHANGED <<status, shown, stopped, saved, funds, polling, sent>>
Connected ==
  /\ action.at = "connect"
  /\ \/ reach' = "up" /\ conn' = "Active" /\ action' = [at |-> "startPolls"]
     \/ UNCHANGED reach /\ conn' = "Error" /\ Returns
  /\ UNCHANGED <<runs, atMarket, status, shown, stopped, saved, funds, polling, poll, sent, boundsSide>>
StartPolls ==
  /\ action.at = "startPolls" /\ polling' = Polls /\ Returns
  /\ UNCHANGED <<backendSide, conn, status, shown, stopped, saved, funds, poll, sent, boundsSide>>

StoreDisconnects ==
  /\ Acts("none") /\ polling' = {} /\ sent' = sent \cup {"disconnect"}
  /\ conn' = "Stopped" /\ status' = "stopped" /\ shown' = "none"
  /\ UNCHANGED <<stopped, saved, funds>>

(* killSwitch: only the monitor's interval ends. *)
KillSwitch ==
  /\ Acts("none") /\ polling' = polling \ {"monitor"} /\ sent' = sent \cup {"kill"}
  /\ conn' = "Stopped" /\ status' = "stopped" /\ shown' = "none" /\ stopped' = FALSE
  /\ UNCHANGED <<saved, funds>>

(* stopStrategy(true): the backend is asked in the background. *)
StopStrategy ==
  /\ Acts("none") /\ sent' = sent \cup {"stop"}
  /\ status' = (IF shown # "none" THEN "paused" ELSE "stopped")
  /\ stopped' = (shown = "none") /\ saved' = (saved /\ shown # "none")
  /\ UNCHANGED <<conn, shown, funds, polling>>

(* fetchUSDCBalance: an answer of 0 or none leaves what was known. *)
FetchBalance ==
  /\ conn = "Active" /\ ~funds /\ funds' = TRUE
  /\ UNCHANGED <<backendSide, conn, status, shown, stopped, saved, polling, poll, action, sent, boundsSide>>

-----------------------------------------------------------------------------
(* checkForOpenPosition: the strategy's status, then the positions. *)
CheckPosition ==
  /\ conn = "Active" /\ Acts("check") /\ UNCHANGED <<storeSide, sent>>
CheckStatusRead ==
  /\ action.at = "check" /\ action' = [at |-> "checkPositions", running |-> runs]
  /\ UNCHANGED <<backendSide, storeSide, poll, sent, boundsSide>>
CheckEnds ==
  /\ action.at = "checkPositions" /\ Returns
  /\ \/ Unanswered /\ UNCHANGED <<status, shown>>
     \/ atMarket /\ status' = "in-position" /\ shown' = "named"
     \/ ~atMarket /\ status' = (IF action.running THEN "analyzing" ELSE "stopped") /\ UNCHANGED shown
  /\ UNCHANGED <<backendSide, conn, stopped, saved, funds, polling, poll, sent, boundsSide>>

(* startStrategy, for the user, the monitor or closePosition: with a       *)
(* position it is only queued; otherwise the backend is asked, which       *)
(* connects if it must and refuses when a strategy runs.  The callers      *)
(* other than the user write 'stopped' when it fails.                      *)
StartFails(byUser) == status' = (IF byUser THEN status ELSE "stopped") /\ UNCHANGED <<reach, runs, stopped, saved>>
StartReads(byUser, ends, goesOn) ==
  \/ (~funds \/ conn # "Active" \/ Unanswered) /\ StartFails(byUser) /\ ends
  \/ /\ funds /\ conn = "Active" /\ atMarket /\ ends
     /\ saved' = TRUE /\ stopped' = FALSE /\ status' = "paused" /\ UNCHANGED <<reach, runs>>
  \/ /\ funds /\ conn = "Active" /\ ~atMarket /\ goesOn
     /\ saved' = TRUE /\ stopped' = FALSE /\ UNCHANGED <<reach, runs, status>>
StartSends(byUser) ==
  \/ ~runs /\ runs' = TRUE /\ reach' = "up" /\ status' = "analyzing" /\ UNCHANGED <<stopped, saved>>
  \/ (runs \/ Unanswered) /\ StartFails(byUser)
StartLeaves == UNCHANGED <<atMarket, conn, shown, funds, polling, sent, boundsSide>>

StartStrategy == Acts("start") /\ UNCHANGED <<storeSide, sent>>
UserStarts ==
  /\ action.at = "start" /\ StartReads(TRUE, Returns, action' = [at |-> "send", byUser |-> TRUE])
  /\ UNCHANGED poll /\ StartLeaves
ActionSends == action.at = "send" /\ StartSends(action.byUser) /\ Returns /\ UNCHANGED poll /\ StartLeaves

(* closePosition: price, close, notification; then a restart unless the    *)
(* user had stopped.                                                       *)
ClosePosition == shown # "none" /\ Acts("close") /\ UNCHANGED <<storeSide, sent>>
PositionClosed ==
  /\ action.at = "close"
  /\ \/ Unanswered /\ Returns /\ UNCHANGED <<atMarket, status, shown>>
     \/ /\ atMarket' = FALSE /\ shown' = "none"
        /\ IF saved /\ ~stopped THEN action' = [at |-> "restart"] /\ UNCHANGED status
           ELSE Returns /\ status' = "stopped"
  /\ UNCHANGED <<reach, runs, conn, stopped, saved, funds, polling, poll, sent, boundsSide>>
CloseRestarts ==
  /\ action.at = "restart" /\ StartReads(FALSE, Returns, action' = [at |-> "send", byUser |-> FALSE])
  /\ UNCHANGED poll /\ StartLeaves

-----------------------------------------------------------------------------
Becomes(p, value) == poll' = [poll EXCEPT ![p] = value]

(* The monitor takes what it compares with before it asks. *)
MonitorBegins ==
  /\ "monitor" \in polling /\ Waits("monitor", "none") /\ conn = "Active"
  /\ Becomes("monitor", [at |-> "asked", pos |-> shown, was |-> stopped])
  /\ UNCHANGED <<backendSide, storeSide, action, sent, boundsSide>>

MonitorReads ==
  /\ Waits("monitor", "asked")
  /\ LET had == poll["monitor"].pos # "none" IN
       \/ (Unanswered \/ had = atMarket) /\ Becomes("monitor", Resting) /\ UNCHANGED <<status, shown>>
       \/ /\ had /\ ~atMarket /\ shown' = "none"
          /\ IF poll["monitor"].was THEN Becomes("monitor", Resting) /\ status' = "stopped"
             ELSE Becomes("monitor", [at |-> "restart"]) /\ UNCHANGED status
       \/ ~had /\ atMarket /\ Becomes("monitor", Resting) /\ shown' = "external" /\ status' = "in-position"
  /\ UNCHANGED <<backendSide, conn, stopped, saved, funds, polling, action, sent, boundsSide>>

MonitorRestarts ==
  /\ Waits("monitor", "restart") /\ UNCHANGED action /\ StartLeaves
  /\ StartReads(FALSE, Becomes("monitor", Resting), Becomes("monitor", [at |-> "send"]))
MonitorSends ==
  /\ Waits("monitor", "send") /\ StartSends(FALSE) /\ Becomes("monitor", Resting) /\ UNCHANGED action /\ StartLeaves

(* The connection poll of every second. *)
RealtimeBegins ==
  /\ "realtime" \in polling /\ Waits("realtime", "none") /\ Becomes("realtime", [at |-> "asked", reach |-> reach])
  /\ UNCHANGED <<backendSide, storeSide, action, sent, boundsSide>>
RealtimeEnds ==
  /\ Waits("realtime", "asked") /\ Becomes("realtime", Resting)
  /\ conn' = CASE poll["realtime"].reach = "up" -> "Active"
               [] poll["realtime"].reach = "off" /\ conn = "Active" -> "Stopped"
               [] OTHER -> conn
  /\ UNCHANGED <<backendSide, status, shown, stopped, saved, funds, polling, action, sent, boundsSide>>

(* The status poll of every 3 s: the status, the positions, the connection *)
(* and, after more awaits, the strategy.                                   *)
StatusBegins ==
  /\ "status" \in polling /\ Waits("status", "none")
  /\ Becomes("status", [at |-> "asked", reach |-> reach, running |-> runs])
  /\ UNCHANGED <<backendSide, storeSide, action, sent, boundsSide>>

StatusReads ==
  /\ Waits("status", "asked")
  /\ \/ Unanswered /\ Becomes("status", Resting) /\ UNCHANGED <<conn, status, shown, funds>>
     \/ /\ poll["status"].reach = "up" /\ conn' = "Active" /\ funds' \in {funds, TRUE}
        /\ Becomes("status", [at |-> "apply", running |-> poll["status"].running, pos |-> atMarket])
        /\ UNCHANGED <<status, shown>>
     \/ /\ poll["status"].reach = "off" /\ conn' = "Stopped" /\ status' = "stopped" /\ shown' = "none"
        /\ Becomes("status", Resting) /\ UNCHANGED funds
     \/ poll["status"].reach = "down" /\ Becomes("status", Resting) /\ UNCHANGED <<conn, status, shown, funds>>
  /\ UNCHANGED <<backendSide, stopped, saved, polling, action, sent, boundsSide>>

(* Mutant: a position is shown as traded although the strategy stopped.    *)
StatusShowsTrading(running, pos) == IF pos THEN "in-position" ELSE IF running THEN "analyzing" ELSE "stopped"
StatusShown(running, pos) ==
  IF pos THEN (IF running THEN "in-position" ELSE "paused") ELSE IF running THEN "analyzing" ELSE "stopped"

StatusApplies ==
  /\ Waits("status", "apply") /\ Becomes("status", Resting)
  /\ LET s == poll["status"] IN
       /\ status' = StatusShown(s.running, s.pos)
       /\ shown' = CASE s.pos -> "named"
                     [] ~s.pos /\ ~s.running /\ status = "stopped" -> shown
                     [] OTHER -> "none"
  /\ UNCHANGED <<backendSide, conn, stopped, saved, funds, polling, action, sent, boundsSide>>

-----------------------------------------------------------------------------
Acting ==
  \/ AutoConnect \/ StoreConnects \/ Connected \/ StartPolls \/ StoreDisconnects \/ KillSwitch
  \/ StopStrategy \/ StartStrategy \/ UserStarts \/ ActionSends \/ ClosePosition \/ PositionClosed
  \/ CloseRestarts \/ CheckPosition \/ CheckStatusRead \/ CheckEnds \/ FetchBalance
Monitoring == MonitorBegins \/ MonitorReads \/ MonitorRestarts \/ MonitorSends
Realtime == RealtimeBegins \/ RealtimeEnds
Statuses == StatusBegins \/ StatusReads \/ StatusApplies

StoreNext == BackendTurns \/ Settle \/ Acting \/ Monitoring \/ Realtime \/ Statuses \/ \E s \in sent : Arrives(s)

(* Intervals fire, and what was awaited is answered. *)
Awaited == Connected \/ StartPolls \/ UserStarts \/ ActionSends \/ PositionClosed \/ CloseRestarts \/ CheckStatusRead \/ CheckEnds
StoreFairness ==
  /\ WF_storeVars(Awaited) /\ WF_storeVars(\E s \in sent : Arrives(s))
  /\ WF_storeVars(Monitoring) /\ WF_storeVars(Realtime) /\ WF_storeVars(Statuses)

-----------------------------------------------------------------------------
StoreTypeOK ==
  /\ conn \in {"Stopped", "Connecting", "Active", "Error"}
  /\ status \in {"stopped", "analyzing", "in-position", "paused"}
  /\ shown \in {"none", "named", "external"} /\ polling \subseteq Polls
  /\ sent \subseteq {"disconnect", "kill", "stop"} /\ {runs, atMarket, stopped, saved, funds} \subseteq BOOLEAN

(* Whatever the polls, the monitor and the user's calls have written over  *)
(* each other: once the backend and the user rest, a store that polls a    *)
(* connected backend ends up showing its strategy and its connection, and  *)
(* stays there.                                                            *)
Truthful ==
  /\ conn = "Active" /\ (runs <=> status \in {"analyzing", "in-position"})
  /\ (atMarket <=> status \in {"in-position", "paused"})
StatusConverges ==
  <>(settled /\ "status" \in polling /\ reach = "up" /\ sent = {} /\ action = Resting) => <>[]Truthful

(* "disconnect ... connectionState: 'Stopped'": a store that has stopped   *)
(* its polls and been told to disconnect shows no connection.              *)
DisconnectShown == polling = {} /\ action = Resting /\ reach = "off" => conn # "Active"

=============================================================================
