---------------------------- MODULE TradeLifecycle ----------------------------
(***************************************************************************)
(* The Razor executor, the reconciliation service, the market, and what    *)
(* strategy-service.ts adds: starting and stopping the strategy, closing   *)
(* the position by hand, and the restart of the server.                    *)
(***************************************************************************)
EXTENDS RazorExecutor, TradeReconciliation

CONSTANTS
  Slow,        (* may activations outlast the minute they started in: the  *)
               (* three or four requests of a trade may take 30 s each     *)
  MaxRestarts, (* bound on crashes                                         *)
  MaxStops,    (* bound on stopStrategy calls                              *)
  MaxCloses    (* bound on closePosition calls                             *)

ASSUME LifecycleAssumption ==
  /\ Slow \in BOOLEAN
  /\ {MaxRestarts, MaxStops, MaxCloses} \subseteq Nat

VARIABLES
  server,   (* "down", "starting" (initialize awaits) or "up"              *)
  sweeping, (* the reconciliation service exists, over a connected client  *)
  strategy, (* the StateManager's entry: "none", "active" or "stopped"     *)
  close,    (* closePosition: progress, the orders seen, the trade found   *)
  used,     (* restarts, stops and closes so far                           *)
  late      (* history: what activations have outlasted, a "candle" (a     *)
            (* trade was begun during another one) or a "cooldown"         *)

serviceVars == <<server, sweeping, strategy, close, used>>
vars == <<ledgerVars, executorVars, check, serviceVars, late>>

NoClose == [pc |-> "idle", seen |-> {}, trade |-> None]

(* start() creates the service once, right after initialize, and only when *)
(* that left a client; a connection made later is not given to it.         *)
Init ==
  /\ LedgerInit
  /\ ExecutorInit
  /\ ReconciliationInit
  /\ server = "up"
  /\ sweeping \in {Checks # {}, FALSE}
  /\ strategy = "none"
  /\ close = NoClose
  /\ used = [restarts |-> 0, stops |-> 0, closes |-> 0]
  /\ late = {}

-----------------------------------------------------------------------------
(* startStrategy and stopStrategy *)

(* At most one entry in the StateManager: starting a strategy while the    *)
(* entry of a stopped one is kept for its open position is left out.       *)
StartStrategy(t, e) ==
  /\ server = "up"
  /\ strategy = "none"
  /\ e # ticking
  /\ \A other \in Tasks : task[other].e # e
  /\ strategy' = "active"
  /\ Begin(t, e)
  /\ UNCHANGED <<ledgerVars, ticking, check, server, sweeping, close, used>>

(* A Razor executor has no timer in runningStrategies, and its ticker      *)
(* subscription is left alone.  The entry is kept while a position is open.*)
StopStrategy ==
  /\ server = "up"
  /\ strategy = "active"
  /\ ticking # None
  /\ used.stops < MaxStops
  /\ used' = [used EXCEPT !.stops = @ + 1]
  /\ strategy' = IF exec[ticking].status = "position_open" THEN "stopped" ELSE "none"
  /\ UNCHANGED <<ledgerVars, executorVars, check, server, sweeping, close>>

-----------------------------------------------------------------------------
(* closePosition *)

CloseGoto(pc) == close' = [close EXCEPT !.pc = pc]

CloseRequest ==
  /\ server = "up"
  /\ close.pc = "idle"
  /\ used.closes < MaxCloses
  /\ used' = [used EXCEPT !.closes = @ + 1]
  /\ CloseGoto("cancel_all")
  /\ UNCHANGED <<ledgerVars, executorVars, check, server, sweeping, strategy>>

CloseCancelAll ==
  /\ close.pc = "cancel_all"
  /\ Cancel(OpenOrders)
  /\ CloseGoto("close")
  /\ UNCHANGED <<size, entries, trades, faults, executorVars, check, server, sweeping, strategy, used>>

(* Deribit closes the whole position at market, or has none to close and   *)
(* rejects the request.                                                    *)
CloseMarket ==
  /\ close.pc = "close"
  /\ size > 0
  /\ Resize(0)
  /\ CloseGoto("find")
  /\ UNCHANGED <<entries, orders, faults, executorVars, check, server, sweeping, strategy, used>>

(* The open trade of the instrument, if there is one, goes to              *)
(* cleanupTradeOrders, which asks for the open orders.                     *)
CloseNothing ==
  /\ close.pc = "close"
  /\ size = 0
  /\ close' = NoClose
  /\ UNCHANGED <<ledgerVars, executorVars, check, server, sweeping, strategy, used>>

CloseFind ==
  /\ close.pc = "find"
  /\ close' = IF OpenTrades = {} THEN NoClose
              ELSE [pc |-> "cleanup", seen |-> {}, trade |-> Latest(OpenTrades)]
  /\ UNCHANGED <<ledgerVars, executorVars, check, server, sweeping, strategy, used>>

CloseSeeOrders ==
  /\ close.pc = "cleanup"
  /\ close' = [close EXCEPT !.pc = "cancel", !.seen = OpenOrders]
  /\ UNCHANGED <<ledgerVars, executorVars, check, server, sweeping, strategy, used>>

(* Its orders and every other reduce-only order in the answer; a cancel    *)
(* that fails is logged and the others go on.                              *)
CloseCancel ==
  /\ close.pc = "cancel"
  /\ \E cancelled \in SUBSET close.seen :
       /\ IF cancelled = close.seen THEN UNCHANGED faults ELSE Fault
       /\ Cancel(cancelled)
  /\ CloseGoto("finish")
  /\ UNCHANGED <<size, entries, trades, executorVars, check, server, sweeping, strategy, used>>

CloseFinish ==
  /\ close.pc = "finish"
  /\ CloseTrades({close.trade})
  /\ CloseGoto("resume")
  /\ UNCHANGED <<size, entries, orders, faults, executorVars, check, server, sweeping, strategy, used>>

(* cleanupTradeOrders sets a strategy of the trade's name active again.    *)
Reactivated == IF strategy = "stopped" THEN "active" ELSE strategy

(* tradeClosed: every executor of that name has its forceResume called.    *)
ForceResume ==
  exec' = [e \in Executors |->
             [status |-> "analyzing", tradeId |-> None, cooling |-> TRUE]]

CloseResume ==
  /\ close.pc = "resume"
  /\ strategy' = Reactivated
  /\ ForceResume
  /\ close' = NoClose
  /\ UNCHANGED <<ledgerVars, ticking, task, check, server, sweeping, used>>

(* A failed request ends closePosition, though Deribit may have done what  *)
(* it asked for; cleanupTradeOrders swallows its own errors, and the event *)
(* is emitted all the same.                                                *)
CloseFail ==
  /\ Fault
  /\ close' = NoClose
  /\ \/ close.pc \in {"cancel_all", "close", "find"} /\ UNCHANGED <<size, orders, trades, exec>>
     \/ close.pc = "cancel_all" /\ Cancel(OpenOrders) /\ UNCHANGED <<size, trades, exec>>
     \/ close.pc = "close" /\ Resize(0) /\ UNCHANGED <<orders, exec>>
     \/ close.pc \in {"cleanup", "finish"} /\ ForceResume /\ UNCHANGED <<size, orders, trades>>
  /\ UNCHANGED <<entries, ticking, task, check, server, sweeping, strategy, used>>

ClosePosition ==
  \/ CloseRequest \/ CloseCancelAll \/ CloseMarket \/ CloseNothing \/ CloseFind \/ CloseSeeOrders
  \/ CloseCancel \/ CloseFinish \/ CloseResume \/ CloseFail

-----------------------------------------------------------------------------
(* The process dies with everything in it. *)
Crash ==
  /\ server # "down"
  /\ used.restarts < MaxRestarts
  /\ used' = [used EXCEPT !.restarts = @ + 1]
  /\ server' = "down"
  /\ sweeping' = FALSE
  /\ exec' = [e \in Executors |-> NewExecutor]
  /\ ticking' = None
  /\ task' = [t \in Tasks |-> NoTask]
  /\ check' = [c \in Checks |-> NoCheck]
  /\ close' = NoClose
  /\ UNCHANGED <<ledgerVars, strategy>>

(* strategyService.initialize, before anything else can run:               *)
(* reconcileAllOpenTrades closes the ghost trades and cancels the          *)
(* reduce-only orders left with them, as far as its requests succeed, then *)
(* an active strategy is run again.                                        *)
Ghosts == IF size = 0 THEN OpenTrades ELSE {}

Restart(t, e) ==
  /\ server = "down"
  /\ server' = "starting"
  /\ sweeping' = (Checks # {})
  /\ \E closed \in SUBSET Ghosts, cancelled \in SUBSET OpenOrders :
       /\ IF closed = Ghosts /\ cancelled = (IF Ghosts = {} THEN {} ELSE OpenOrders)
            THEN UNCHANGED faults
            ELSE Ghosts # {} /\ Fault
       /\ CloseTrades(closed)
       /\ Cancel(cancelled)
       /\ strategy' = IF closed = {} THEN strategy ELSE Reactivated
       /\ IF strategy' = "active"
            THEN /\ exec' = [exec EXCEPT ![e] = NewExecutor]
                 /\ task' = [task EXCEPT ![t] = [NoTask EXCEPT !.pc = "init", !.e = e,
                                                  !.open = OpenTrades \ closed]]
            ELSE UNCHANGED <<exec, task>>
  /\ UNCHANGED <<size, entries, ticking, check, close, used>>

(* initialize has returned: the reconciliation service and the API start.  *)
Listen ==
  /\ server = "starting"
  /\ \A t \in Tasks : task[t].pc \notin InitPc
  /\ server' = "up"
  /\ UNCHANGED <<ledgerVars, executorVars, check, sweeping, strategy, close, used>>

(* The connection cannot be restored: nothing is compared or resumed, and  *)
(* there is no reconciliation service, or one whose client stays dead.     *)
RestartOffline ==
  /\ server = "down"
  /\ server' = "up"
  /\ Fault
  /\ UNCHANGED <<size, entries, orders, trades, executorVars, check, sweeping, strategy, close,
                 used>>

-----------------------------------------------------------------------------
Market ==
  /\ \E o \in OpenOrders : Fill(o)
  /\ UNCHANGED <<executorVars, check, serviceVars>>

(* A trade is begun while another one is being executed. *)
Overlap == Executing # {} /\ ~(Executing' \subseteq Executing)

Ticking ==
  /\ ExecutorNext
  /\ IF Overlap THEN Slow /\ late' = late \cup {"candle"} ELSE UNCHANGED late
  /\ UNCHANGED <<check, serviceVars>>

(* Something, closePosition included, is in flight from before the minute. *)
(* Only that delays a signal: an executor starts to monitor a position     *)
(* after it has opened one, with a new cooldown.                           *)
InFlight == close.pc # "idle" \/ \E t \in Tasks : ~At(t, "idle")

Cooling ==
  /\ CooldownEnds
  /\ IF InFlight THEN Slow /\ late' = late \cup {"cooldown"} ELSE UNCHANGED late
  /\ UNCHANGED <<check, serviceVars>>

Reconciling ==
  /\ server = "up"
  /\ sweeping
  /\ ReconciliationNext
  /\ UNCHANGED <<executorVars, serviceVars>>

Next ==
  \/ Ticking
  \/ Cooling
  \/ /\ \/ Market
        \/ Reconciling
        \/ \E t \in Tasks, e \in Executors : StartStrategy(t, e) \/ Restart(t, e)
        \/ StopStrategy
        \/ ClosePosition
        \/ Crash
        \/ Listen
        \/ RestartOffline
     /\ UNCHANGED late

Spec == Init /\ [][Next]_vars

(* Every awaited request is answered or times out (deribit-client.ts), the *)
(* ticker keeps ticking, setInterval keeps firing once start() has been    *)
(* called (Reconciling needs sweeping) and the server is started again,    *)
(* online or not.  Nothing is promised of the market or the user.          *)
TaskProgress(t) == (TickMonitor(t) \/ TaskStep(t)) /\ UNCHANGED <<check, serviceVars, late>>

CheckProgress(c) == Reconciling /\ (StartCheck(c) \/ CheckStep(c)) /\ UNCHANGED late

CloseProgress == close.pc # "idle" /\ ClosePosition /\ UNCHANGED late

Fairness ==
  /\ \A t \in Tasks : WF_vars(TaskProgress(t))
  /\ \A c \in Checks : WF_vars(CheckProgress(c))
  /\ WF_vars(CloseProgress)
  /\ WF_vars(Listen /\ UNCHANGED late)
  /\ WF_vars(/\ RestartOffline \/ \E t \in Tasks, e \in Executors : Restart(t, e)
             /\ UNCHANGED late)

FairSpec == Spec /\ Fairness

-----------------------------------------------------------------------------
TypeOK ==
  /\ LedgerTypeOK
  /\ ExecutorTypeOK
  /\ ReconciliationTypeOK
  /\ server \in {"down", "starting", "up"}
  /\ sweeping \in BOOLEAN
  /\ strategy \in {"none", "active", "stopped"}
  /\ close \in [pc: {"idle", "cancel_all", "close", "find", "cleanup", "cancel", "finish",
                     "resume"},
                seen: SUBSET OrderId, trade: TradeId \cup {None}]
  /\ used \in [restarts: Nat, stops: Nat, closes: Nat]
  /\ late \subseteq {"candle", "cooldown"}

(* "ORPHAN POSITION CHECK: Verify no position exists" before every entry,  *)
(* and no analysis while a position is open: only two trades executed at   *)
(* the same time can double the position.                                  *)
NeverDoubled == size > 1 => "candle" \in late

(* A trade is closed in the database only after its position was flat, as  *)
(* long as activations end within their minute (closeTradeHistory,         *)
(* cleanupTradeOrders, closeGhostTrade, runCheck: "database trades stay in *)
(* sync with Deribit positions").                                          *)
ClosedOnlyAfterFlat ==
  late = {} => \A id \in DOMAIN trades : trades[id].status = "closed" => trades[id].flat

Quiet ==
  /\ server = "up"
  /\ \A t \in Tasks : At(t, "idle")
  /\ \A c \in Checks : CheckAt(c, "idle")
  /\ close.pc = "idle"

(* As long as no request failed, a position nobody is working on has an    *)
(* open trade.                                                             *)
PositionTracked == Quiet /\ faults = 0 /\ size > 0 => OpenTrades # {}

(* As long as no request failed, the current trade of an executor is the   *)
(* record of the position held, and not of an earlier one (executeTrade,   *)
(* reconcileStateOnStartup case 3 after a crash between any two steps).    *)
CurrentTradeMatches ==
  \A e \in Executors :
    faults = 0 /\ size > 0 /\ exec[e].status = "position_open" /\ exec[e].tradeId # None
      => ~trades[exec[e].tradeId].flat

(* Moving the stop to breakeven and cleaning up never leave an open        *)
(* position without its last stop ("Place new BE SL FIRST (to avoid gap)");*)
(* only closePosition lifts it, before it closes the position.             *)
NoStopGap ==
  [][Stops # {} /\ Stops' = {} /\ size' > 0 => close.pc = "cancel_all"]_vars

(* When the position stays flat and the reconciliation service lives, every*)
(* open trade is closed in the end: what the executor fails to close, a    *)
(* check closes.  After a boot offline nobody closes it until the next one.*)
GhostTradesClose == <>[](size = 0 /\ sweeping) => []<>(OpenTrades = {})

(* When the position stays flat, the executor that listens to the ticker   *)
(* goes back to its analysis ("AUTO-RESUME": checkPositionAndResume, also  *)
(* when it has no current trade, forceResume, reconcileStateOnStartup).    *)
ResumesWhenFlat ==
  <>[](size = 0) => []<>(ticking = None \/ exec[ticking].status = "analyzing")

(* "Check for reverse orphans: Deribit positions without database records":*)
(* with the reconciliation service running, a position that stays open     *)
(* gets a trade record.                                                    *)
UntrackedPositionRecorded ==
  [](size > 0 /\ OpenTrades = {} /\ sweeping => <>(size = 0 \/ OpenTrades # {}))

(* "Set to stopped to prevent further trades": the executor that finds a   *)
(* position before its entry is stopped.                                   *)
RefusalStops ==
  [][\A t \in Tasks : Refuse(t) => exec'[task[t].e].status = "stopped"]_vars

(* "Safe to fully stop": no activation of a stopped strategy starts to     *)
(* execute a trade.                                                        *)
StoppedStartsNothing ==
  [][(\E t \in Tasks : TickSignal(t)) => strategy # "none"]_vars

(* "Na positie close worden alle reduce_only orders expliciet gecanceld":  *)
(* when the executor resumes, no order of the closed position is left.     *)
ResumesClean ==
  [][(\E t \in Tasks : Closed(t)) => OpenOrders' = {}]_vars

=============================================================================
