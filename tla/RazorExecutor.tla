---------------------------- MODULE RazorExecutor ----------------------------
(***************************************************************************)
(* The trade lifecycle of strategies/razor-executor.ts: every ticker       *)
(* message calls onTicker, nobody waits for the previous call, and each    *)
(* call runs on through its awaits while others come in.  A task is such   *)
(* an activation, from one await to the next.                              *)
(*                                                                         *)
(* The statuses initializing and signal_detected are read like analyzing   *)
(* by every guard and are not told apart; stopped is overwritten before    *)
(* anybody can read it (see Refuse).                                       *)
(***************************************************************************)
EXTENDS TradeLedger

CONSTANTS
  Executors, (* executor objects                                           *)
  Tasks      (* activations that may be in flight at once                  *)

ASSUME ExecutorAssumption == None \notin Executors

VARIABLES
  exec,    (* executor -> status, currentTradeId, cooldownUntil in future  *)
  ticking, (* the executor whose onTicker the ticker channel calls         *)
  task     (* activations                                                  *)

executorVars == <<exec, ticking, task>>

ExecutePc == {"verify", "entry", "sl", "tp", "record", "opened"}
MonitorPc == {"adjust", "place", "cancel", "update", "check", "derive", "closed"}
InitPc == {"init", "adopt"}
TaskPc == {"idle"} \cup ExecutePc \cup MonitorPc \cup InitPc

Executor == [status: {"analyzing", "position_open"}, tradeId: TradeId \cup {None},
             cooling: BOOLEAN]

(* No candle closes in an executor's first minute (candleStartTime).       *)
NewExecutor == [status |-> "analyzing", tradeId |-> None, cooling |-> TRUE]

(* The locals an activation carries over its awaits. *)
NoTask == [pc |-> "idle", e |-> None, trade |-> None, sl |-> None, tp |-> None,
           old |-> None, open |-> {}]

ExecutorInit ==
  /\ exec = [e \in Executors |-> NewExecutor]
  /\ ticking = None
  /\ task = [t \in Tasks |-> NoTask]

At(t, pc) == task[t].pc = pc
Goto(t, pc) == task' = [task EXCEPT ![t].pc = pc]
End(t) == task' = [task EXCEPT ![t] = NoTask]

Executing == {t \in Tasks : task[t].pc \in ExecutePc}

-----------------------------------------------------------------------------
(* onTicker *)

(* Status analyzing: candles and indicators only.  The status is written   *)
(* again even while another activation is executing a trade.               *)
TickAnalyze ==
  /\ ticking # None
  /\ exec[ticking].status = "analyzing"
  /\ exec' = [exec EXCEPT ![ticking].status = "analyzing"]
  /\ UNCHANGED <<ledgerVars, ticking, task>>

(* A candle closed, once per minute, outside the cooldown, and the signal  *)
(* is strong enough: executeTrade, whatever else is in flight.             *)
TickSignal(t) ==
  /\ At(t, "idle")
  /\ ticking # None
  /\ exec[ticking].status = "analyzing"
  /\ ~exec[ticking].cooling
  /\ task' = [task EXCEPT ![t] = [NoTask EXCEPT !.pc = "verify", !.e = ticking]]
  /\ UNCHANGED <<ledgerVars, exec, ticking>>

(* Mutant: without a current trade nothing is done, not even the reset.    *)
TickMonitorStuck(t) ==
  /\ At(t, "idle")
  /\ ticking # None
  /\ exec[ticking].status = "position_open"
  /\ LET id == exec[ticking].tradeId IN
       /\ id # None
       /\ task' = [task EXCEPT ![t] = [NoTask EXCEPT !.pc = "check", !.e = ticking, !.trade = id,
                                                     !.tp = trades[id].tp]]
  /\ UNCHANGED <<ledgerVars, exec, ticking>>

(* Status position_open: checkPositionAndResume, through maybeAdjustStops  *)
(* unless that is disabled or throttled.                                   *)
TickMonitor(t) ==
  /\ At(t, "idle")
  /\ ticking # None
  /\ exec[ticking].status = "position_open"
  /\ LET id == exec[ticking].tradeId IN
       IF id = None
         THEN /\ exec' = [exec EXCEPT ![ticking].status = "analyzing"]
              /\ UNCHANGED task
         ELSE /\ \E pc \in {"adjust", "check"} :
                   task' = [task EXCEPT ![t] =
                             [NoTask EXCEPT !.pc = pc, !.e = ticking, !.trade = id,
                                            !.tp = trades[id].tp]]
              /\ UNCHANGED exec
  /\ UNCHANGED <<ledgerVars, ticking>>

(* The minute is over: Date.now() passes cooldownUntil.                    *)
CooldownEnds ==
  /\ ticking # None
  /\ exec[ticking].cooling
  /\ exec' = [exec EXCEPT ![ticking].cooling = FALSE]
  /\ UNCHANGED <<ledgerVars, ticking, task>>

-----------------------------------------------------------------------------
(* executeTrade *)

(* The catch of executeTrade: back to analyzing, with a cooldown. *)
GiveUp(t) ==
  /\ exec' = [exec EXCEPT ![task[t].e].status = "analyzing", ![task[t].e].cooling = TRUE]
  /\ End(t)

(* Mutant: the position check is skipped. *)
VerifyUnchecked(t) ==
  /\ At(t, "verify")
  /\ Goto(t, "entry")
  /\ UNCHANGED <<ledgerVars, exec, ticking>>

(* getPositions answers: no position, go on. *)
Verify(t) ==
  /\ At(t, "verify")
  /\ size = 0
  /\ Goto(t, "entry")
  /\ UNCHANGED <<ledgerVars, exec, ticking>>

(* getPositions answers: a position exists.  The status is set to stopped, *)
(* and the error thrown next is caught by executeTrade itself.             *)
Refuse(t) ==
  /\ At(t, "verify")
  /\ size > 0
  /\ GiveUp(t)
  /\ UNCHANGED <<ledgerVars, ticking>>

PlaceEntry(t) ==
  /\ At(t, "entry")
  /\ Buy
  /\ Goto(t, "sl")
  /\ UNCHANGED <<orders, faults, exec, ticking>>

PlaceStop(t) ==
  /\ At(t, "sl")
  /\ Place("sl")
  /\ task' = [task EXCEPT ![t].pc = "tp", ![t].sl = Len(orders')]
  /\ UNCHANGED <<size, entries, trades, faults, exec, ticking>>

PlaceTarget(t) ==
  /\ At(t, "tp")
  /\ Place("tp")
  /\ task' = [task EXCEPT ![t].pc = "record", ![t].tp = Len(orders')]
  /\ UNCHANGED <<size, entries, trades, faults, exec, ticking>>

(* The row is inserted; recordTrade then awaits the Telegram notification. *)
Record(t) ==
  /\ At(t, "record")
  /\ RecordTrade(task[t].sl, task[t].tp)
  /\ task' = [task EXCEPT ![t].pc = "opened", ![t].trade = Len(trades')]
  /\ UNCHANGED <<size, entries, orders, faults, exec, ticking>>

Opened(t) ==
  /\ At(t, "opened")
  /\ exec' = [exec EXCEPT ![task[t].e] =
                [status |-> "position_open", tradeId |-> task[t].trade, cooling |-> TRUE]]
  /\ End(t)
  /\ UNCHANGED <<ledgerVars, ticking>>

(* A request of executeTrade rejects: nothing happened, or the order was   *)
(* accepted and only the answer is lost.                                   *)
ExecuteFail(t) ==
  /\ task[t].pc \in {"verify", "entry", "sl", "tp", "record"}
  /\ Fault
  /\ \/ UNCHANGED <<size, entries, orders, trades>>
     \/ At(t, "entry") /\ Buy /\ UNCHANGED orders
     \/ At(t, "sl") /\ Place("sl") /\ UNCHANGED <<size, entries, trades>>
     \/ At(t, "tp") /\ Place("tp") /\ UNCHANGED <<size, entries, trades>>
  /\ GiveUp(t)
  /\ UNCHANGED ticking

(* A reduce-only order without a position is refused. *)
ReduceOnlyRefused(t) ==
  /\ task[t].pc \in {"sl", "tp"}
  /\ size = 0
  /\ GiveUp(t)
  /\ UNCHANGED <<ledgerVars, ticking>>

Execute(t) ==
  \/ Verify(t) \/ Refuse(t) \/ PlaceEntry(t) \/ PlaceStop(t) \/ PlaceTarget(t)
  \/ Record(t) \/ Opened(t) \/ ExecuteFail(t) \/ ReduceOnlyRefused(t)

-----------------------------------------------------------------------------
(* maybeAdjustStops: the answers of its four queries are one snapshot. *)

AdjustSkip(t) ==
  /\ At(t, "adjust")
  /\ Goto(t, "check")
  /\ UNCHANGED <<ledgerVars, exec, ticking>>

(* Mutant: the old stop is cancelled before the new one is placed. *)
AdjustCancelFirst(t) ==
  /\ At(t, "adjust")
  /\ size > 0
  /\ \E old \in Stops :
       /\ orders[old] = "sl"
       /\ Cancel({old})
       /\ task' = [task EXCEPT ![t].pc = "place", ![t].old = old]
  /\ UNCHANGED <<size, entries, trades, faults, exec, ticking>>

(* The price passed the trigger and the first stop found is not yet at     *)
(* breakeven (without a stop, the recorded stopLoss is compared).          *)
AdjustDecide(t) ==
  /\ At(t, "adjust")
  /\ size > 0
  /\ \E old \in IF Stops = {} THEN {None} ELSE Stops :
       /\ old # None => orders[old] = "sl"
       /\ task' = [task EXCEPT ![t].pc = "place", ![t].old = old]
  /\ UNCHANGED <<ledgerVars, exec, ticking>>

PlaceBreakeven(t) ==
  /\ At(t, "place")
  /\ Place("be")
  /\ task' = [task EXCEPT ![t].pc = IF task[t].old = None THEN "update" ELSE "cancel",
                          ![t].sl = Len(orders')]
  /\ UNCHANGED <<size, entries, trades, faults, exec, ticking>>

CancelOld(t) ==
  /\ At(t, "cancel")
  /\ \/ Cancel({task[t].old}) /\ UNCHANGED faults
     \/ Fault /\ UNCHANGED orders
  /\ Goto(t, "update")
  /\ UNCHANGED <<size, entries, trades, exec, ticking>>

UpdateIds(t) ==
  /\ At(t, "update")
  /\ UpdateOrderIds(task[t].trade, task[t].sl, task[t].tp)
  /\ Goto(t, "check")
  /\ UNCHANGED <<size, entries, orders, faults, exec, ticking>>

AdjustFail(t) ==
  /\ task[t].pc \in {"adjust", "place", "update"}
  /\ \/ Fault /\ UNCHANGED orders
     \/ At(t, "place") /\ Fault /\ Place("be")
     \/ At(t, "place") /\ size = 0 /\ UNCHANGED <<faults, orders>>
  /\ Goto(t, "check")
  /\ UNCHANGED <<size, entries, trades, exec, ticking>>

AdjustStops(t) ==
  \/ AdjustSkip(t) \/ AdjustDecide(t) \/ PlaceBreakeven(t) \/ CancelOld(t)
  \/ UpdateIds(t) \/ AdjustFail(t)

-----------------------------------------------------------------------------
(* checkPositionAndResume and closeTradeHistory *)

(* After closeTradeHistory, whatever it did: analyzing, with a cooldown. *)
Resume(t, tradeId) ==
  /\ exec' = [exec EXCEPT ![task[t].e] =
                [status |-> "analyzing", tradeId |-> tradeId, cooling |-> TRUE]]
  /\ End(t)

CurrentTrade(t) == exec[task[t].e].tradeId

(* Mutant: the position is not found in the answer (another field name). *)
CheckPositionBlind(t) ==
  /\ At(t, "check")
  /\ IF CurrentTrade(t) # None THEN Goto(t, "derive") /\ UNCHANGED exec ELSE Resume(t, None)
  /\ UNCHANGED <<ledgerVars, ticking>>

(* getPositions answers. *)
CheckPosition(t) ==
  /\ At(t, "check")
  /\ \/ size > 0 /\ End(t) /\ UNCHANGED exec
     \/ size = 0 /\ CurrentTrade(t) # None /\ Goto(t, "derive") /\ UNCHANGED exec
     \/ size = 0 /\ CurrentTrade(t) = None /\ Resume(t, None)
  /\ UNCHANGED <<ledgerVars, ticking>>

(* Mutant: the update is lost. *)
CloseHistoryLost(t) ==
  /\ At(t, "derive")
  /\ Goto(t, "closed")
  /\ UNCHANGED <<ledgerVars, exec, ticking>>

(* The exit details have arrived; currentTradeId is read again. *)
CloseHistory(t) ==
  /\ At(t, "derive")
  /\ CloseTrades({CurrentTrade(t)})
  /\ Goto(t, "closed")
  /\ UNCHANGED <<size, entries, orders, faults, exec, ticking>>

Closed(t) ==
  /\ At(t, "closed")
  /\ Resume(t, None)
  /\ UNCHANGED <<ledgerVars, ticking>>

(* A failed check leaves everything; a failed close is swallowed, and the  *)
(* strategy resumes with the trade still open and current.                 *)
CheckFail(t) ==
  /\ Fault
  /\ \/ At(t, "check") /\ End(t) /\ UNCHANGED exec
     \/ At(t, "derive") /\ Resume(t, CurrentTrade(t))
  /\ UNCHANGED <<size, entries, orders, trades, ticking>>

Check(t) == CheckPosition(t) \/ CloseHistory(t) \/ Closed(t) \/ CheckFail(t)

-----------------------------------------------------------------------------
(* initialize: reconcileStateOnStartup, then the ticker subscription. *)

Begin(t, e) ==
  /\ At(t, "idle")
  /\ exec' = [exec EXCEPT ![e] = NewExecutor]
  /\ task' = [task EXCEPT ![t] = [NoTask EXCEPT !.pc = "init", !.e = e, !.open = OpenTrades]]

Subscribe(t, status, tradeId) ==
  /\ exec' = [exec EXCEPT ![task[t].e].status = status, ![task[t].e].tradeId = tradeId]
  /\ ticking' = task[t].e
  /\ End(t)

(* Cases 1 and 4: no position; the trades found open are closed. *)
ReconcileFlat(t) ==
  /\ At(t, "init")
  /\ size = 0
  /\ CloseTrades(task[t].open)
  /\ Subscribe(t, "analyzing", None)
  /\ UNCHANGED <<size, entries, orders, faults>>

(* Case 3: the most recent open trade becomes the current one. *)
ReconcileTracked(t) ==
  /\ At(t, "init")
  /\ size > 0
  /\ task[t].open # {}
  /\ Subscribe(t, "position_open", Latest(task[t].open))
  /\ UNCHANGED ledgerVars

(* Case 2: a position without a trade; createTradeFromPosition asks for    *)
(* the open orders.                                                        *)
ReconcileOrphan(t) ==
  /\ At(t, "init")
  /\ size > 0
  /\ task[t].open = {}
  /\ Goto(t, "adopt")
  /\ UNCHANGED <<ledgerVars, exec, ticking>>

FirstOrNone(ids) == IF ids = {} THEN {None} ELSE ids

(* Mutant: createTradeFromPosition records nothing. *)
AdoptUnrecorded(t) ==
  /\ At(t, "adopt")
  /\ Subscribe(t, "position_open", None)
  /\ UNCHANGED ledgerVars

Adopt(t) ==
  /\ At(t, "adopt")
  /\ \E sl \in FirstOrNone(Stops), tp \in FirstOrNone(OpenOrders \ Stops) :
       RecordTrade(sl, tp)
  /\ Subscribe(t, "position_open", Len(trades'))
  /\ UNCHANGED <<size, entries, orders, faults>>

(* Both functions swallow their errors. *)
InitFail(t) ==
  /\ Fault
  /\ \/ At(t, "init") /\ Subscribe(t, "analyzing", None)
     \/ At(t, "adopt") /\ Subscribe(t, "position_open", None)
  /\ UNCHANGED <<size, entries, orders, trades>>

Initialize(t) ==
  \/ ReconcileFlat(t) \/ ReconcileTracked(t) \/ ReconcileOrphan(t) \/ Adopt(t)
  \/ InitFail(t)

-----------------------------------------------------------------------------
TaskStep(t) == Execute(t) \/ AdjustStops(t) \/ Check(t) \/ Initialize(t)

Tick(t) == TickSignal(t) \/ TickMonitor(t)

ExecutorNext == TickAnalyze \/ \E t \in Tasks : Tick(t) \/ TaskStep(t)

ExecutorTypeOK ==
  /\ exec \in [Executors -> Executor]
  /\ ticking \in Executors \cup {None}
  /\ task \in [Tasks -> [pc: TaskPc, e: Executors \cup {None}, trade: TradeId \cup {None},
                         sl: OrderId \cup {None}, tp: OrderId \cup {None},
                         old: OrderId \cup {None}, open: SUBSET TradeId]]

=============================================================================
