-------------------------- MODULE TradeSafety_proofs ---------------------------
(***************************************************************************)
(* The safety properties of the trade lifecycle, for any number of         *)
(* executors, activations and checks: the position is doubled only by two  *)
(* trades executed at the same time, a trade is closed only after its      *)
(* position, the last stop of a position is not taken away, the current    *)
(* trade is the record of the position, and a position has a record.  Each *)
(* has a part of its own, with the inductive invariant it rests on and     *)
(* what each theorem assumes beyond that.                                  *)
(*                                                                         *)
(* The first: the check for a position and the entry are two requests.     *)
(* What makes the answer of the first still true at the second is that     *)
(* there is only one activation between the two, until one outlasts the    *)
(* minute and the next candle finds it still executing (late).             *)
(***************************************************************************)
EXTENDS TradeLifecycle_proofs

OneExecution == \A t1, t2 \in Executing : t1 = t2

EntersFlat == \A t \in Tasks : At(t, "entry") => size = 0

Single == size <= 1

EntryInv == OneExecution /\ EntersFlat /\ Single

(* The steps that neither start an execution, nor pass the check, nor buy. *)
NoNewExecution ==
  /\ \A t \in Tasks : task'[t].pc \in ExecutePc => task[t].pc \in ExecutePc
  /\ \A t \in Tasks : task'[t].pc = "entry" => task[t].pc = "entry"

LEMMA EntryInvKept ==
  ASSUME LedgerTypeOK, EntryInv, NoNewExecution, size' \in Nat, size' <= size
  PROVE  EntryInv'
BY DEF LedgerTypeOK, EntryInv, OneExecution, EntersFlat, Single, NoNewExecution,
       Executing, At

(* An activation changes only its own place, and ends or goes on.          *)
LEMMA TaskMoves ==
  ASSUME ExecutorInv, NEW t \in Tasks, NEW r, task' = [task EXCEPT ![t] = r]
  PROVE  \A u \in Tasks : task'[u] = IF u = t THEN r ELSE task[u]
BY DEF ExecutorInv

LEMMA GotoMoves ==
  ASSUME ExecutorInv, NEW t \in Tasks, NEW pc, Goto(t, pc)
  PROVE  \A u \in Tasks : task'[u].pc = IF u = t THEN pc ELSE task[u].pc
BY DEF ExecutorInv, Goto, TaskOn, TaskRecord

LEMMA EndMoves ==
  ASSUME ExecutorInv, NEW t \in Tasks, End(t)
  PROVE  \A u \in Tasks : task'[u].pc = IF u = t THEN "idle" ELSE task[u].pc
BY DEF ExecutorInv, End, NoTask

LEMMA ExecuteKeepsEntryInv ==
  ASSUME TypeInv, EntryInv, NEW t \in Tasks, Execute(t)
  PROVE  EntryInv'
<1> USE DEF TypeInv
<1>t. task[t] \in TaskOn(Ids)
  BY DEF ExecutorInv
<1>e. ASSUME End(t), size' \in Nat, size' <= size
      PROVE  EntryInv'
  BY <1>e, EndMoves, EntryInvKept DEF NoNewExecution, ExecutePc
<1>m. ASSUME NEW pc, \A u \in Tasks : task'[u].pc = IF u = t THEN pc ELSE task[u].pc,
             task[t].pc \in ExecutePc, pc # "entry", UNCHANGED size
      PROVE  EntryInv'
  BY <1>m, EntryInvKept DEF NoNewExecution, LedgerTypeOK
(* Only the activation that buys is executing: no other is at its entry.   *)
<1>b. ASSUME At(t, "entry"), Buy,
             NEW pc \in TaskPc \ {"entry"},
             \A u \in Tasks : task'[u].pc = IF u = t THEN pc ELSE task[u].pc
      PROVE  EntryInv'
  <2>1. size = 0 /\ size' = 1
    BY <1>b DEF EntryInv, EntersFlat, Buy, Resize
  <2>2. OneExecution'
    BY <1>b DEF EntryInv, OneExecution, Executing, At, ExecutePc
  <2>3. \A u \in Tasks : ~At(u, "entry")'
    BY <1>b DEF EntryInv, OneExecution, Executing, At, ExecutePc
  <2> QED
    BY <2>1, <2>2, <2>3 DEF EntryInv, EntersFlat, Single
<1>1. CASE Verify(t)
  <2>1. \A u \in Tasks : task'[u].pc = IF u = t THEN "entry" ELSE task[u].pc
    BY <1>1, GotoMoves DEF Verify
  <2>2. size = 0 /\ size' = 0
    BY <1>1 DEF Verify, ledgerVars
  <2>3. OneExecution'
    BY <1>1, <2>1 DEF EntryInv, OneExecution, Executing, Verify, At, ExecutePc
  <2> QED
    BY <2>2, <2>3 DEF EntryInv, EntersFlat, Single
<1>2. CASE Refuse(t) \/ ReduceOnlyRefused(t)
  BY <1>2, <1>e DEF Refuse, ReduceOnlyRefused, GiveUp, ledgerVars, LedgerTypeOK
<1>3. CASE PlaceEntry(t)
  <2>1. \A u \in Tasks : task'[u].pc = IF u = t THEN "sl" ELSE task[u].pc
    BY <1>3, GotoMoves DEF PlaceEntry
  <2> QED
    BY <1>3, <1>b, <2>1 DEF PlaceEntry, TaskPc, ExecutePc
<1>4. CASE PlaceStop(t)
  <2>1. \A u \in Tasks : task'[u].pc = IF u = t THEN "tp" ELSE task[u].pc
    BY <1>4, <1>t DEF PlaceStop, ExecutorInv, TaskOn, TaskRecord
  <2> QED
    BY <1>4, <1>m, <2>1 DEF PlaceStop, At, ExecutePc
<1>5. CASE PlaceTarget(t)
  <2>1. \A u \in Tasks : task'[u].pc = IF u = t THEN "record" ELSE task[u].pc
    BY <1>5, <1>t DEF PlaceTarget, ExecutorInv, TaskOn, TaskRecord
  <2> QED
    BY <1>5, <1>m, <2>1 DEF PlaceTarget, At, ExecutePc
<1>6. CASE Record(t)
  <2>1. \A u \in Tasks : task'[u].pc = IF u = t THEN "opened" ELSE task[u].pc
    BY <1>6, <1>t DEF Record, ExecutorInv, TaskOn, TaskRecord
  <2> QED
    BY <1>6, <1>m, <2>1 DEF Record, At, ExecutePc
<1>7. CASE Opened(t)
  BY <1>7, <1>e DEF Opened, ledgerVars, LedgerTypeOK
<1>8. CASE ExecuteFail(t)
  <2>1. CASE UNCHANGED size
    BY <1>8, <1>e, <2>1 DEF ExecuteFail, GiveUp, LedgerTypeOK
  <2>2. CASE At(t, "entry") /\ Buy
    BY <1>8, <1>b, <2>2, EndMoves DEF ExecuteFail, GiveUp, TaskPc
  <2> QED
    BY <1>8, <2>1, <2>2 DEF ExecuteFail
<1> QED
  BY <1>1, <1>2, <1>3, <1>4, <1>5, <1>6, <1>7, <1>8 DEF Execute

(* Monitoring and initialisation never execute a trade. *)
LEMMA OtherTasksKeepEntryInv ==
  ASSUME TypeInv, EntryInv, NEW t \in Tasks, AdjustStops(t) \/ Check(t) \/ Initialize(t)
  PROVE  EntryInv'
<1> USE DEF TypeInv
<1>1. UNCHANGED size
  BY DEF AdjustStops, Check, Initialize, AdjustSkip, AdjustDecide, PlaceBreakeven, CancelOld,
         UpdateIds, AdjustFail, CheckPosition, CloseHistory, Closed, CheckFail, ReconcileFlat,
         ReconcileTracked, ReconcileOrphan, Adopt, InitFail, ledgerVars
<1>m. ASSUME NEW pc \in {"idle"} \cup MonitorPc \cup InitPc,
             \A u \in Tasks : task'[u].pc = IF u = t THEN pc ELSE task[u].pc
      PROVE  EntryInv'
  BY <1>1, <1>m, EntryInvKept DEF NoNewExecution, LedgerTypeOK, ExecutePc, MonitorPc, InitPc
<1>e. End(t) => EntryInv'
  BY <1>m, EndMoves
<1>2. CASE AdjustStops(t)
  <2>t. task[t] \in TaskOn(Ids)
    BY DEF ExecutorInv
  <2>g. ASSUME NEW pc \in MonitorPc, Goto(t, pc) PROVE EntryInv'
    BY <1>m, <2>g, GotoMoves
  <2>1. CASE AdjustDecide(t)
    <3>1. \A u \in Tasks : task'[u].pc = IF u = t THEN "place" ELSE task[u].pc
      BY <2>1, <2>t DEF AdjustDecide, ExecutorInv, TaskOn, TaskRecord
    <3> QED
      BY <1>m, <3>1 DEF MonitorPc
  <2>2. CASE PlaceBreakeven(t)
    <3>1. PICK pc \in {"update", "cancel"} :
            \A u \in Tasks : task'[u].pc = IF u = t THEN pc ELSE task[u].pc
      BY <2>2, <2>t DEF PlaceBreakeven, ExecutorInv, TaskOn, TaskRecord
    <3> QED
      BY <1>m, <3>1 DEF MonitorPc
  <2>3. CASE AdjustSkip(t) \/ CancelOld(t) \/ UpdateIds(t) \/ AdjustFail(t)
    BY <2>3, <2>g DEF AdjustSkip, CancelOld, UpdateIds, AdjustFail, MonitorPc
  <2> QED
    BY <1>2, <2>1, <2>2, <2>3 DEF AdjustStops
<1>3. CASE Check(t)
  <2>1. End(t) \/ Goto(t, "derive") \/ Goto(t, "closed")
    BY <1>3 DEF Check, CheckPosition, CloseHistory, Closed, CheckFail, Resume
  <2> QED
    BY <1>e, <1>m, <2>1, GotoMoves DEF MonitorPc
<1>4. CASE Initialize(t)
  <2>1. End(t) \/ Goto(t, "adopt")
    BY <1>4 DEF Initialize, ReconcileFlat, ReconcileTracked, ReconcileOrphan, Adopt, InitFail,
                Subscribe
  <2> QED
    BY <1>e, <1>m, <2>1, GotoMoves DEF InitPc
<1> QED
  BY <1>2, <1>3, <1>4

(* What the history says of the step that makes it.                        *)
LEMMA AloneUnlessLate ==
  ASSUME TypeInv, Ticking, NEW t \in Tasks, TickSignal(t), "candle" \notin late'
  PROVE  Executing = {}
<1>1. t \in Executing' /\ t \notin Executing
  BY DEF TickSignal, NoTask, TypeInv, ExecutorInv, Executing, ExecutePc, At
<1>2. ~Overlap
  BY DEF Ticking
<1> QED BY <1>1, <1>2 DEF Overlap

LEMMA TicksKeepEntryInv ==
  ASSUME TypeInv, EntryInv, NEW t \in Tasks, TickSignal(t) => Executing = {},
         TickSignal(t) \/ TickMonitor(t)
  PROVE  EntryInv'
<1> USE DEF TypeInv
<1>1. CASE TickSignal(t)
  <2>1. Executing = {} /\ UNCHANGED size
    BY <1>1 DEF TickSignal, ledgerVars
  <2>2. \A u \in Tasks : task'[u].pc = IF u = t THEN "verify" ELSE task[u].pc
    BY <1>1 DEF TickSignal, NoTask, ExecutorInv
  <2> QED
    BY <2>1, <2>2
       DEF EntryInv, OneExecution, EntersFlat, Single, Executing, At, ExecutePc
<1>2. CASE TickMonitor(t)
  <2>1. UNCHANGED size
    BY <1>2 DEF TickMonitor, ledgerVars
  <2>2. UNCHANGED task \/ \E pc \in {"adjust", "check"} :
          \A u \in Tasks : task'[u].pc = IF u = t THEN pc ELSE task[u].pc
    BY <1>2 DEF TickMonitor, NoTask, ExecutorInv
  <2>3. NoNewExecution
    BY <2>2 DEF NoNewExecution, ExecutePc
  <2> QED
    BY <2>1, <2>3, EntryInvKept DEF LedgerTypeOK
<1> QED
  BY <1>1, <1>2

LEMMA EntryInvStep ==
  ASSUME TypeInv, EntryInv, "candle" \notin late', [Next]_vars
  PROVE  EntryInv'
<1> USE DEF TypeInv
<1>u. ASSUME UNCHANGED task, size' \in Nat, size' <= size
      PROVE  EntryInv'
  BY <1>u, EntryInvKept DEF NoNewExecution
<1>i. ASSUME NEW t \in Tasks, NEW r, r.pc = "init" \/ r.pc = "idle", UNCHANGED size,
             task' = [task EXCEPT ![t] = r]
      PROVE  EntryInv'
  <2>1. NoNewExecution
    BY <1>i, TaskMoves DEF NoNewExecution, ExecutePc
  <2> QED
    BY <1>i, <2>1, EntryInvKept DEF LedgerTypeOK
<1>1. CASE Market
  BY <1>1, <1>u
     DEF Market, Fill, Resize, executorVars, LedgerTypeOK
<1>2. CASE Ticking
  <2>1. CASE TickAnalyze
    BY <1>u, <2>1 DEF TickAnalyze, ledgerVars, LedgerTypeOK
  <2> QED
    BY <1>2, <2>1, AloneUnlessLate, TicksKeepEntryInv, ExecuteKeepsEntryInv, OtherTasksKeepEntryInv
       DEF Ticking, ExecutorNext, Tick, TaskStep
<1>3. CASE Cooling
  BY <1>3, <1>u DEF Cooling, CooldownEnds, ledgerVars, LedgerTypeOK
<1>4. CASE Reconciling
  <2>1. UNCHANGED size
    BY <1>4
       DEF Reconciling, ReconciliationNext, CheckStep, StartCheck, Positions, CloseOrphan,
           VerifyOrders, ClosePastStop, Repair, ReplaceStop, SaveStop, ReplaceTarget, SaveTarget,
           ReverseOrphan, RunCheckFail, VerifyFail, ReplaceFail, ledgerVars
  <2> QED
    BY <1>4, <1>u, <2>1 DEF Reconciling, executorVars, LedgerTypeOK
<1>5. ASSUME NEW t \in Tasks, NEW e \in Executors, StartStrategy(t, e) PROVE EntryInv'
  BY <1>5, <1>i DEF StartStrategy, Begin, NoTask, ledgerVars
<1>6. ASSUME NEW t \in Tasks, NEW e \in Executors, Restart(t, e) PROVE EntryInv'
  <2>1. UNCHANGED size
    BY <1>6 DEF Restart
  <2>2. UNCHANGED task \/ \E open : task' = [task EXCEPT ![t] =
                             [NoTask EXCEPT !.pc = "init", !.e = e, !.open = open]]
    BY <1>6 DEF Restart
  <2>3. \A open : [NoTask EXCEPT !.pc = "init", !.e = e, !.open = open].pc = "init"
    BY DEF NoTask
  <2>4. CASE UNCHANGED task
    BY <1>u, <2>1, <2>4 DEF LedgerTypeOK
  <2>5. ASSUME NEW open, task' = [task EXCEPT ![t] =
                            [NoTask EXCEPT !.pc = "init", !.e = e, !.open = open]]
        PROVE  EntryInv'
    BY <1>i, <2>1, <2>3, <2>5
  <2> QED
    BY <2>2, <2>4, <2>5
<1>7. CASE StopStrategy \/ Listen \/ RestartOffline
  BY <1>7, <1>u DEF StopStrategy, Listen, RestartOffline, ledgerVars, executorVars, LedgerTypeOK
<1>8. CASE ClosePosition
  <2>1. UNCHANGED task /\ size' \in Nat /\ size' <= size
    BY <1>8
       DEF ClosePosition, CloseRequest, CloseCancelAll, CloseMarket, CloseNothing, CloseFind,
           CloseSeeOrders, CloseCancel, CloseFinish, CloseResume, CloseFail, Resize, ledgerVars, executorVars,
           LedgerTypeOK
  <2> QED
    BY <1>u, <2>1
<1>9. CASE Crash
  BY <1>9, EntryInvKept DEF Crash, NoTask, NoNewExecution, ExecutePc, ledgerVars, LedgerTypeOK
<1>10. CASE UNCHANGED vars
  BY <1>10, <1>u DEF vars, ledgerVars, executorVars, LedgerTypeOK
<1> QED
  BY <1>1, <1>2, <1>3, <1>4, <1>5, <1>6, <1>7, <1>8, <1>9, <1>10 DEF Next

LEMMA EntryInvInit == Init => EntryInv
  BY DEF Init, LedgerInit, ExecutorInit, NoTask, EntryInv, OneExecution, EntersFlat,
         Single, Executing, At, ExecutePc

(* "ORPHAN POSITION CHECK: Verify no position exists": the answer to       *)
(* getPositions still holds when the entry is placed, so that two entries  *)
(* never add up, across signals, lost answers, restarts, closes by hand    *)
(* and handovers between executors, however slow the requests are: only    *)
(* a trade begun while another one is being executed doubles it.           *)
THEOREM PositionNeverDoubled == Spec => []NeverDoubled
<1> DEFINE Inv == "candle" \notin late => EntryInv
<1>1. Init => Inv
  BY EntryInvInit
<1>2. TypeInv /\ Inv /\ [Next]_vars => Inv'
  BY EntryInvStep, LateGrows
<1>3. TypeInv /\ Inv => NeverDoubled
  BY DEF EntryInv, Single, NeverDoubled, TypeInv, LedgerTypeOK
<1> QED
  BY <1>1, <1>2, <1>3, TypeInvAlways, PTL DEF Spec

-----------------------------------------------------------------------------
(* Which activations go together.  A candle or a cooldown outlasts what    *)
(* was in flight when it began; so an executor that is monitored gives no  *)
(* signal, one that executes is not monitored, and one that starts has the *)
(* reconciliation of its state to itself.                                  *)
Monitoring == {t \in Tasks : task[t].pc \in MonitorPc}
Initializing == {t \in Tasks : task[t].pc \in InitPc}

(* A monitored executor has a trade, or has resumed and cools down.        *)
MonitorsHold ==
  \A t \in Monitoring :
    \/ exec[task[t].e].status = "position_open" /\ exec[task[t].e].tradeId # None
    \/ exec[task[t].e].status = "analyzing" /\ exec[task[t].e].cooling

ExecutesAnalyzing == \A t \in Executing : exec[task[t].e].status = "analyzing"

NotBoth == \A t \in Executing, u \in Monitoring : task[t].e # task[u].e

InitAlone ==
  \A t \in Initializing :
    /\ task[t].e # ticking
    /\ \A u \in Tasks : u # t /\ ~At(u, "idle") => task[u].e # task[t].e

DownIsIdle == server = "down" => ticking = None /\ close.pc = "idle" /\ \A t \in Tasks : At(t, "idle")

ActivationInv == MonitorsHold /\ ExecutesAnalyzing /\ NotBoth /\ InitAlone /\ DownIsIdle

(* No activation begins, and one that goes on stays of its kind.           *)
NothingBegins ==
  \A u \in Tasks :
    \/ task'[u].pc = "idle"
    \/ /\ task'[u].e = task[u].e /\ task[u].pc # "idle"
       /\ task'[u].pc \in ExecutePc => task[u].pc \in ExecutePc
       /\ task'[u].pc \in MonitorPc => task[u].pc \in MonitorPc
       /\ task'[u].pc \in InitPc => task[u].pc \in InitPc

StillUp == server' = server /\ (server = "down" => close'.pc = "idle")

LEMMA KindsDiffer == ExecutePc \cap MonitorPc = {} /\ ExecutePc \cap InitPc = {} /\ MonitorPc \cap InitPc = {}
                     /\ "idle" \notin ExecutePc \cup MonitorPc \cup InitPc
  BY DEF ExecutePc, MonitorPc, InitPc

LEMMA TaskTyped ==
  ASSUME TypeInv, NEW t \in Tasks
  PROVE  /\ task[t].pc \in TaskPc /\ (task[t].pc # "idle" => task[t].e \in Executors)
         /\ DOMAIN task = Tasks /\ DOMAIN exec = Executors
         /\ DOMAIN task[t] = {"pc", "e", "trade", "sl", "tp", "old", "open"}
         /\ task[t].trade \in Ids \cup {None} /\ task[t].open \subseteq Ids
  BY DEF TypeInv, ExecutorInv, TaskOn, TaskRecord

LEMMA ExecTyped ==
  ASSUME TypeInv, NEW e \in Executors
  PROVE  /\ DOMAIN exec[e] = {"status", "tradeId", "cooling"} /\ exec[e].tradeId \in Ids \cup {None}
         /\ exec[e].status \in {"analyzing", "position_open"} /\ exec[e].cooling \in BOOLEAN
  BY DEF TypeInv, ExecutorInv, ExecutorOn, Executor

(* The executors are left alone.                                           *)
LEMMA ActivationsKept ==
  ASSUME TypeInv, ActivationInv, NothingBegins, UNCHANGED <<exec, ticking>>, StillUp
  PROVE  ActivationInv'
<1>1. MonitorsHold' /\ ExecutesAnalyzing' /\ NotBoth'
  BY KindsDiffer DEF ActivationInv, NothingBegins, MonitorsHold, ExecutesAnalyzing, NotBoth, Monitoring, Executing
<1>2. InitAlone'
  BY KindsDiffer DEF ActivationInv, NothingBegins, InitAlone, Initializing, At
<1>3. DownIsIdle'
  BY DEF ActivationInv, NothingBegins, DownIsIdle, StillUp, At
<1> QED BY <1>1, <1>2, <1>3 DEF ActivationInv

(* An executor goes back to analyzing, and cools down.                     *)
LEMMA CoolingKept ==
  ASSUME TypeInv, ActivationInv, NothingBegins, UNCHANGED ticking, StillUp,
         \A x \in Executors : exec'[x] = exec[x] \/ (exec'[x].status = "analyzing" /\ exec'[x].cooling)
  PROVE  ActivationInv'
<1>0. \A u \in Tasks : task[u].pc # "idle" => task[u].e \in Executors
  BY TaskTyped
<1>1. MonitorsHold' /\ ExecutesAnalyzing' /\ NotBoth'
  BY <1>0, KindsDiffer DEF ActivationInv, NothingBegins, MonitorsHold, ExecutesAnalyzing, NotBoth, Monitoring, Executing
<1>2. InitAlone'
  BY KindsDiffer DEF ActivationInv, NothingBegins, InitAlone, Initializing, At
<1>3. DownIsIdle'
  BY DEF ActivationInv, NothingBegins, DownIsIdle, StillUp, At
<1> QED BY <1>1, <1>2, <1>3 DEF ActivationInv

(* An executor that has just one activation changes as that ends.          *)
LEMMA LastKept ==
  ASSUME TypeInv, ActivationInv, NothingBegins, NEW e \in Executors, ticking' \in {ticking, e}, StillUp,
         \A u \in Tasks : task'[u].pc # "idle" => task[u].e # e,
         server # "down", \A x \in Executors : x # e => exec'[x] = exec[x]
  PROVE  ActivationInv'
<1>0. \A u \in Tasks : task[u].pc # "idle" => task[u].e \in Executors
  BY TaskTyped
<1>1. MonitorsHold' /\ ExecutesAnalyzing' /\ NotBoth'
  BY <1>0, KindsDiffer DEF ActivationInv, NothingBegins, MonitorsHold, ExecutesAnalyzing, NotBoth, Monitoring, Executing
<1>2. InitAlone'
  BY KindsDiffer DEF ActivationInv, NothingBegins, InitAlone, Initializing, At
<1>3. DownIsIdle'
  BY DEF DownIsIdle, StillUp
<1> QED BY <1>1, <1>2, <1>3 DEF ActivationInv

(* An activation goes on to pc, or ends.                                   *)
Onward(t, pc) ==
  /\ \A u \in Tasks : u # t => task'[u] = task[u]
  /\ task'[t].pc = pc /\ task'[t].e = task[t].e /\ task'[t].trade = task[t].trade

Ended(t) ==
  /\ \A u \in Tasks : u # t => task'[u] = task[u]
  /\ task'[t] = NoTask

LEMMA GotoOnward == ASSUME TypeInv, NEW t \in Tasks, NEW pc, Goto(t, pc) PROVE Onward(t, pc) /\ task'[t] = [task[t] EXCEPT !.pc = pc]
  BY TaskTyped DEF Goto, Onward

LEMMA EndEnded == ASSUME TypeInv, NEW t \in Tasks, End(t) PROVE Ended(t) /\ task'[t].pc = "idle"
  BY TaskTyped DEF End, Ended, NoTask

LEMMA EndedIdle == ASSUME NEW t, Ended(t) PROVE task'[t].pc = "idle"
  BY DEF Ended, NoTask

LEMMA OnwardBegins ==
  ASSUME TypeInv, NEW t \in Tasks, NEW pc, Onward(t, pc), task[t].pc # "idle",
         \/ pc \in ExecutePc /\ task[t].pc \in ExecutePc
         \/ pc \in MonitorPc /\ task[t].pc \in MonitorPc
         \/ pc \in InitPc /\ task[t].pc \in InitPc
  PROVE  NothingBegins
  BY KindsDiffer, TaskTyped DEF Onward, NothingBegins

LEMMA EndedBegins ==
  ASSUME TypeInv, NEW t \in Tasks, Ended(t)
  PROVE  NothingBegins
  BY TaskTyped DEF Ended, NothingBegins, NoTask

(* executeTrade, activation by activation.                                 *)
LEMMA ExecuteMoves ==
  ASSUME TypeInv, NEW t \in Tasks, Execute(t)
  PROVE  /\ task[t].pc \in ExecutePc
         /\ UNCHANGED ticking
         /\ \/ UNCHANGED exec /\ ~At(t, "opened") /\ \E pc \in {"entry", "sl", "tp"} : Onward(t, pc)
            \/ UNCHANGED exec /\ At(t, "tp") /\ Onward(t, "record")
            \/ /\ UNCHANGED exec /\ At(t, "record") /\ task'[t].pc = "opened" /\ task'[t].e = task[t].e
               /\ \A u \in Tasks : u # t => task'[u] = task[u]
            \/ GiveUp(t) \/ Opened(t)
<1>t. /\ DOMAIN task = Tasks
      /\ DOMAIN task[t] = {"pc", "e", "trade", "sl", "tp", "old", "open"}
  BY TaskTyped
<1>1. CASE Verify(t)
  BY <1>1, GotoOnward DEF Verify, At, ExecutePc
<1>2. CASE Refuse(t) \/ ReduceOnlyRefused(t) \/ ExecuteFail(t)
  BY <1>2 DEF Refuse, ReduceOnlyRefused, ExecuteFail, At, ExecutePc
<1>3. CASE PlaceEntry(t)
  BY <1>3, GotoOnward DEF PlaceEntry, At, ExecutePc
<1>4. CASE PlaceStop(t)
  BY <1>t, <1>4 DEF PlaceStop, Onward, At, ExecutePc
<1>5. CASE PlaceTarget(t)
  BY <1>t, <1>5 DEF PlaceTarget, Onward, At, ExecutePc
<1>6. CASE Record(t)
  BY <1>t, <1>6 DEF Record, At, ExecutePc
<1>7. CASE Opened(t)
  BY <1>7 DEF Opened, At, ExecutePc
<1> QED BY <1>1, <1>2, <1>3, <1>4, <1>5, <1>6, <1>7 DEF Execute

LEMMA AdjustMoves ==
  ASSUME TypeInv, NEW t \in Tasks, AdjustStops(t)
  PROVE  /\ task[t].pc \in MonitorPc /\ task[t].pc \notin {"check", "derive", "closed"}
         /\ UNCHANGED <<exec, ticking, size>>
         /\ \E pc \in {"place", "cancel", "update", "check"} : Onward(t, pc)
<1>t. /\ DOMAIN task = Tasks
      /\ DOMAIN task[t] = {"pc", "e", "trade", "sl", "tp", "old", "open"}
  BY TaskTyped
<1>1. CASE AdjustSkip(t) \/ UpdateIds(t) \/ AdjustFail(t) \/ CancelOld(t)
  BY <1>1, GotoOnward DEF AdjustSkip, UpdateIds, AdjustFail, CancelOld, At, MonitorPc, ledgerVars
<1>2. CASE AdjustDecide(t)
  BY <1>t, <1>2 DEF AdjustDecide, Onward, At, MonitorPc, ledgerVars
<1>3. CASE PlaceBreakeven(t)
  BY <1>t, <1>3 DEF PlaceBreakeven, Onward, At, MonitorPc
<1> QED BY <1>1, <1>2, <1>3 DEF AdjustStops

LEMMA CheckMoves ==
  ASSUME TypeInv, NEW t \in Tasks, Check(t)
  PROVE  /\ task[t].pc \in {"check", "derive", "closed"} /\ UNCHANGED <<ticking, size>>
         /\ \/ UNCHANGED exec /\ (Ended(t) \/ Onward(t, "derive") \/ Onward(t, "closed"))
            \/ \E id : Resume(t, id)
<1>1. CASE CheckPosition(t)
  BY <1>1, GotoOnward, EndEnded DEF CheckPosition, At, ledgerVars
<1>2. CASE CloseHistory(t)
  BY <1>2, GotoOnward DEF CloseHistory, At
<1>3. CASE Closed(t)
  BY <1>3 DEF Closed, At, ledgerVars
<1>4. CASE CheckFail(t)
  BY <1>4, EndEnded DEF CheckFail, At
<1> QED BY <1>1, <1>2, <1>3, <1>4 DEF Check

LEMMA InitializeMoves ==
  ASSUME TypeInv, NEW t \in Tasks, Initialize(t)
  PROVE  /\ task[t].pc \in InitPc /\ UNCHANGED size
         /\ \/ At(t, "init") /\ Onward(t, "adopt") /\ UNCHANGED <<exec, ticking>>
            \/ \E status, id : Subscribe(t, status, id)
<1>1. CASE ReconcileOrphan(t)
  BY <1>1, GotoOnward DEF ReconcileOrphan, At, InitPc, ledgerVars
<1>2. CASE ReconcileFlat(t)
  BY <1>2 DEF ReconcileFlat, At, InitPc
<1>3. CASE ReconcileTracked(t)
  BY <1>3 DEF ReconcileTracked, At, InitPc, ledgerVars
<1>4. CASE Adopt(t)
  BY <1>4 DEF Adopt, At, InitPc
<1>5. CASE InitFail(t)
  BY <1>5 DEF InitFail, At, InitPc
<1> QED BY <1>1, <1>2, <1>3, <1>4, <1>5 DEF Initialize

(* What an activation leaves when it resumes, gives up or subscribes.      *)
LEMMA ResumeMoves ==
  ASSUME TypeInv, NEW t \in Tasks, task[t].pc # "idle", (\E id : Resume(t, id)) \/ GiveUp(t)
  PROVE  /\ Ended(t) /\ exec'[task[t].e].status = "analyzing" /\ exec'[task[t].e].cooling
         /\ \A x \in Executors : x # task[t].e => exec'[x] = exec[x]
<1>1. /\ task[t].e \in Executors /\ DOMAIN exec = Executors
      /\ DOMAIN exec[task[t].e] = {"status", "tradeId", "cooling"}
  BY TaskTyped, ExecTyped
<1>2. CASE GiveUp(t)
  BY <1>1, <1>2, EndEnded DEF GiveUp
<1>3. ASSUME NEW id, Resume(t, id)
      PROVE  /\ Ended(t) /\ exec'[task[t].e].status = "analyzing" /\ exec'[task[t].e].cooling
             /\ \A x \in Executors : x # task[t].e => exec'[x] = exec[x]
  BY <1>1, <1>3, EndEnded DEF Resume
<1> QED BY <1>2, <1>3

LEMMA SubscribeMoves ==
  ASSUME TypeInv, NEW t \in Tasks, task[t].pc # "idle", NEW status, NEW id, Subscribe(t, status, id)
  PROVE  /\ Ended(t) /\ ticking' = task[t].e
         /\ exec'[task[t].e] = [exec[task[t].e] EXCEPT !.status = status, !.tradeId = id]
         /\ \A x \in Executors : x # task[t].e => exec'[x] = exec[x]
<1>1. /\ task[t].e \in Executors /\ DOMAIN exec = Executors
      /\ DOMAIN exec[task[t].e] = {"status", "tradeId", "cooling"}
  BY TaskTyped, ExecTyped
<1> QED BY <1>1, EndEnded DEF Subscribe

LEMMA OpenedMoves ==
  ASSUME TypeInv, NEW t \in Tasks, Opened(t)
  PROVE  /\ Ended(t) /\ At(t, "opened") /\ UNCHANGED ticking
         /\ exec'[task[t].e] = [status |-> "position_open", tradeId |-> task[t].trade, cooling |-> TRUE]
         /\ \A x \in Executors : x # task[t].e => exec'[x] = exec[x]
<1>1. task[t].e \in Executors /\ DOMAIN exec = Executors
  BY TaskTyped DEF Opened, At
<1> QED BY <1>1, EndEnded DEF Opened

(* The steps of an activation.                                             *)
LEMMA TaskStepKeepsActivations ==
  ASSUME TypeInv, EntryInv, ActivationInv, NEW t \in Tasks, TaskStep(t), UNCHANGED serviceVars
  PROVE  ActivationInv'
<1>0. /\ StillUp /\ (task[t].pc # "idle" => server # "down" /\ task[t].e \in Executors)
      /\ \A u \in Tasks : u # t /\ task[u].pc \in InitPc /\ task[t].pc # "idle" => task[u].e # task[t].e
  BY TaskTyped DEF StillUp, serviceVars, ActivationInv, DownIsIdle, InitAlone, Initializing, At
<1>1. CASE Execute(t)
  <2>1. task[t].pc \in ExecutePc /\ task[t].pc # "idle" /\ UNCHANGED ticking
    BY <1>1, ExecuteMoves, KindsDiffer
  <2>2. ASSUME UNCHANGED exec, NEW pc \in ExecutePc, task'[t].pc = pc, task'[t].e = task[t].e,
               \A u \in Tasks : u # t => task'[u] = task[u]
        PROVE  ActivationInv'
    <3>1. NothingBegins
      BY <2>1, <2>2, KindsDiffer, TaskTyped DEF NothingBegins
    <3> QED BY <1>0, <2>1, <2>2, <3>1, ActivationsKept
  <2>3. CASE GiveUp(t)
    <3>1. NothingBegins /\ \A x \in Executors : exec'[x] = exec[x] \/ (exec'[x].status = "analyzing" /\ exec'[x].cooling)
      BY <2>1, <2>3, ResumeMoves, EndedBegins
    <3> QED BY <1>0, <2>1, <3>1, CoolingKept
  <2>4. CASE Opened(t)
    <3>1. NothingBegins /\ \A x \in Executors : x # task[t].e => exec'[x] = exec[x]
      BY <2>4, OpenedMoves, EndedBegins
    <3>2. \A u \in Tasks : task'[u].pc # "idle" => u # t /\ task'[u] = task[u]
      BY <2>4, OpenedMoves, EndedIdle DEF Ended
    <3>3. ASSUME NEW u \in Tasks, u # t, task[u].pc # "idle"
          PROVE  task[u].e # task[t].e
      <4>1. CASE task[u].pc \in ExecutePc
        BY <2>1, <3>3, <4>1 DEF EntryInv, OneExecution, Executing
      <4>2. CASE task[u].pc \in MonitorPc
        BY <2>1, <4>2 DEF ActivationInv, NotBoth, Executing, Monitoring
      <4>3. CASE task[u].pc \in InitPc
        BY <1>0, <2>1, <3>3, <4>3
      <4> QED BY <3>3, <4>1, <4>2, <4>3, TaskTyped DEF TaskPc
    <3> QED BY <1>0, <2>1, <3>1, <3>2, <3>3, LastKept
  <2> QED BY <1>1, <2>1, <2>2, <2>3, <2>4, ExecuteMoves DEF Onward, At, ExecutePc
<1>2. CASE AdjustStops(t)
  <2>1. NothingBegins /\ UNCHANGED <<exec, ticking>>
    BY <1>2, AdjustMoves, OnwardBegins, KindsDiffer DEF MonitorPc
  <2> QED BY <1>0, <2>1, ActivationsKept
<1>3. CASE Check(t)
  <2>1. task[t].pc \in MonitorPc /\ task[t].pc # "idle" /\ UNCHANGED ticking
    BY <1>3, CheckMoves DEF MonitorPc
  <2>2. CASE UNCHANGED exec /\ (Ended(t) \/ Onward(t, "derive") \/ Onward(t, "closed"))
    <3>1. NothingBegins
      BY <2>1, <2>2, EndedBegins, OnwardBegins DEF MonitorPc
    <3> QED BY <1>0, <2>1, <2>2, <3>1, ActivationsKept
  <2>3. CASE \E id : Resume(t, id)
    <3>1. NothingBegins /\ \A x \in Executors : exec'[x] = exec[x] \/ (exec'[x].status = "analyzing" /\ exec'[x].cooling)
      BY <2>1, <2>3, ResumeMoves, EndedBegins
    <3> QED BY <1>0, <2>1, <3>1, CoolingKept
  <2> QED BY <1>3, <2>2, <2>3, CheckMoves
<1>4. CASE Initialize(t)
  <2>1. task[t].pc \in InitPc /\ task[t].pc # "idle"
    BY <1>4, InitializeMoves, KindsDiffer
  <2>2. CASE Onward(t, "adopt") /\ UNCHANGED <<exec, ticking>>
    <3>1. NothingBegins
      BY <2>1, <2>2, OnwardBegins DEF InitPc
    <3> QED BY <1>0, <2>2, <3>1, ActivationsKept
  <2>3. ASSUME NEW status, NEW id, Subscribe(t, status, id)
        PROVE  ActivationInv'
    <3>1. /\ NothingBegins /\ ticking' = task[t].e
          /\ \A x \in Executors : x # task[t].e => exec'[x] = exec[x]
      BY <2>1, <2>3, SubscribeMoves, EndedBegins
    <3>2. \A u \in Tasks : task'[u].pc # "idle" => u # t /\ task'[u] = task[u]
      BY <2>1, <2>3, SubscribeMoves, EndedIdle DEF Ended
    <3>3. \A u \in Tasks : u # t /\ task[u].pc # "idle" => task[u].e # task[t].e
      BY <2>1 DEF ActivationInv, InitAlone, Initializing, At
    <3> QED BY <1>0, <2>1, <3>1, <3>2, <3>3, LastKept
  <2> QED BY <1>4, <2>2, <2>3, InitializeMoves
<1> QED BY <1>1, <1>2, <1>3, <1>4 DEF TaskStep

(* A tick: nothing to do with the ledger or the other activations.         *)
TickBegins(t, pc) ==
  /\ \A u \in Tasks : u # t => task'[u] = task[u]
  /\ task'[t].pc = pc /\ task'[t].e = ticking /\ UNCHANGED exec

LEMMA TickMoves ==
  ASSUME TypeInv, NEW t \in Tasks, Tick(t)
  PROVE  /\ UNCHANGED <<ledgerVars, ticking>> /\ At(t, "idle") /\ ticking # None /\ ticking \in Executors
         /\ \/ TickSignal(t) /\ TickBegins(t, "verify")
            \/ /\ TickMonitor(t) /\ exec[ticking].tradeId = None
               /\ UNCHANGED task /\ exec' = [exec EXCEPT ![ticking].status = "analyzing"]
            \/ /\ TickMonitor(t) /\ exec[ticking].tradeId # None
               /\ TickBegins(t, "adjust") \/ TickBegins(t, "check")
<1>1. UNCHANGED <<ledgerVars, ticking>> /\ At(t, "idle") /\ ticking # None
  BY DEF Tick, TickSignal, TickMonitor
<1>2. ticking \in Executors /\ DOMAIN task = Tasks
  BY <1>1 DEF TypeInv, ExecutorInv
<1>3. CASE TickSignal(t)
  <2>1. task' = [task EXCEPT ![t] = [NoTask EXCEPT !.pc = "verify", !.e = ticking]] /\ UNCHANGED exec
    BY <1>3 DEF TickSignal
  <2> QED BY <1>1, <1>2, <1>3, <2>1 DEF TickBegins, NoTask
<1>4. CASE TickMonitor(t) /\ exec[ticking].tradeId = None
  BY <1>1, <1>2, <1>4 DEF TickMonitor
<1>5. CASE TickMonitor(t) /\ exec[ticking].tradeId # None
  <2>1. UNCHANGED exec /\ \E pc \in {"adjust", "check"} : \E id, tp :
          task' = [task EXCEPT ![t] = [NoTask EXCEPT !.pc = pc, !.e = ticking, !.trade = id, !.tp = tp]]
    BY <1>5, Zenon DEF TickMonitor
  <2>2. ASSUME NEW pc, NEW id, NEW tp,
               task' = [task EXCEPT ![t] = [NoTask EXCEPT !.pc = pc, !.e = ticking, !.trade = id, !.tp = tp]]
        PROVE  TickBegins(t, pc)
    BY <1>2, <2>1, <2>2 DEF TickBegins, NoTask
  <2> QED BY <1>1, <1>2, <1>5, <2>1, <2>2
<1> QED BY <1>1, <1>2, <1>3, <1>4, <1>5 DEF Tick

(* A tick begins an activation of the ticking executor.                    *)
LEMMA TickKeepsActivations ==
  ASSUME TypeInv, ActivationInv, NEW t \in Tasks, Tick(t), UNCHANGED serviceVars
  PROVE  ActivationInv'
<1>1. /\ At(t, "idle") /\ ticking # None /\ ticking \in Executors /\ UNCHANGED ticking /\ server # "down" /\ server' = server
      /\ \A u \in Tasks : u # t => task'[u] = task[u]
  BY TaskTyped DEF Tick, TickSignal, TickMonitor, TypeInv, ExecutorInv, serviceVars, ActivationInv, DownIsIdle
<1>2. CASE TickSignal(t)
  <2>1. /\ exec[ticking].status = "analyzing" /\ ~exec[ticking].cooling /\ UNCHANGED exec
        /\ task'[t].pc = "verify" /\ task'[t].e = ticking
    BY <1>2, TaskTyped DEF TickSignal, NoTask
  <2>2. MonitorsHold' /\ ExecutesAnalyzing'
    BY <1>1, <2>1 DEF ActivationInv, MonitorsHold, ExecutesAnalyzing, Monitoring, Executing, ExecutePc, MonitorPc
  <2>3. \A u \in Monitoring : task[u].e # ticking
    BY <2>1 DEF ActivationInv, MonitorsHold
  <2>4. NotBoth'
    BY <1>1, <2>1, <2>3 DEF ActivationInv, NotBoth, Monitoring, Executing, ExecutePc, MonitorPc
  <2>5. InitAlone' /\ DownIsIdle'
    BY <1>1, <2>1 DEF ActivationInv, InitAlone, Initializing, InitPc, DownIsIdle, At
  <2> QED BY <2>2, <2>4, <2>5 DEF ActivationInv
<1>3. CASE TickMonitor(t)
  <2>0. exec[ticking].status = "position_open"
    BY <1>3 DEF TickMonitor
  <2>1. CASE exec[ticking].tradeId = None
    <3>1. /\ UNCHANGED task /\ \A x \in Executors : x # ticking => exec'[x] = exec[x]
          /\ exec'[ticking].status = "analyzing"
      BY <1>1, <1>3, <2>1, TaskTyped, ExecTyped DEF TickMonitor
    <3>2. \A u \in Monitoring : task[u].e # ticking
      BY <2>0, <2>1 DEF ActivationInv, MonitorsHold
    <3>3. \A u \in Monitoring \cup Executing : task[u].e \in Executors
      BY TaskTyped, KindsDiffer DEF Monitoring, Executing
    <3>4. MonitorsHold' /\ ExecutesAnalyzing' /\ NotBoth'
      BY <3>1, <3>2, <3>3 DEF ActivationInv, MonitorsHold, ExecutesAnalyzing, NotBoth, Monitoring, Executing
    <3>5. InitAlone' /\ DownIsIdle'
      BY <1>1, <3>1 DEF ActivationInv, InitAlone, Initializing, DownIsIdle, At
    <3> QED BY <3>4, <3>5 DEF ActivationInv
  <2>2. CASE exec[ticking].tradeId # None
    <3>1. UNCHANGED exec /\ task'[t].pc \in {"adjust", "check"} /\ task'[t].e = ticking
      BY <2>0, <2>2, TickMoves DEF TickBegins, TickSignal
    <3>2. MonitorsHold' /\ ExecutesAnalyzing'
      BY <1>1, <2>0, <2>2, <3>1 DEF ActivationInv, MonitorsHold, ExecutesAnalyzing, Monitoring, Executing, ExecutePc, MonitorPc
    <3>3. \A u \in Executing : task[u].e # ticking
      BY <2>0 DEF ActivationInv, ExecutesAnalyzing
    <3>4. NotBoth'
      BY <1>1, <3>1, <3>3 DEF ActivationInv, NotBoth, Monitoring, Executing, ExecutePc, MonitorPc
    <3>5. InitAlone' /\ DownIsIdle'
      BY <1>1, <3>1 DEF ActivationInv, InitAlone, Initializing, InitPc, DownIsIdle, At
    <3> QED BY <3>2, <3>4, <3>5 DEF ActivationInv
  <2> QED BY <2>1, <2>2
<1> QED BY <1>2, <1>3 DEF Tick

(* The activations of a service that starts, restarts or crashes.          *)
LEMMA BeginKeepsActivations ==
  ASSUME TypeInv, ActivationInv, NEW t \in Tasks, NEW e \in Executors, At(t, "idle"),
         e # ticking, \A u \in Tasks : u # t /\ ~At(u, "idle") => task[u].e # e,
         UNCHANGED ticking, server' # "down",
         exec'[e] = NewExecutor, \A x \in Executors : x # e => exec'[x] = exec[x],
         task'[t].pc = "init", task'[t].e = e, \A u \in Tasks : u # t => task'[u] = task[u]
  PROVE  ActivationInv'
<1>1. \A u \in Tasks : task[u].pc # "idle" => task[u].e \in Executors \ {e}
  BY TaskTyped DEF At
<1>2. MonitorsHold' /\ ExecutesAnalyzing'
  BY <1>1, KindsDiffer DEF ActivationInv, MonitorsHold, ExecutesAnalyzing, Monitoring, Executing, ExecutePc, MonitorPc
<1>3. NotBoth'
  BY <1>1 DEF ActivationInv, NotBoth, Monitoring, Executing, ExecutePc, MonitorPc
<1>4. InitAlone'
  BY <1>1 DEF ActivationInv, InitAlone, Initializing, InitPc, At
<1> QED BY <1>2, <1>3, <1>4 DEF ActivationInv, DownIsIdle

LEMMA StartKeepsActivations ==
  ASSUME TypeInv, ActivationInv, NEW t \in Tasks, NEW e \in Executors, StartStrategy(t, e)
  PROVE  ActivationInv'
<1>1. /\ At(t, "idle") /\ server' # "down" /\ UNCHANGED ticking /\ e # ticking
      /\ \A u \in Tasks : u # t /\ ~At(u, "idle") => task[u].e # e
  BY DEF StartStrategy, Begin
<1>2. /\ exec'[e] = NewExecutor /\ \A x \in Executors : x # e => exec'[x] = exec[x]
      /\ task'[t].pc = "init" /\ task'[t].e = e /\ \A u \in Tasks : u # t => task'[u] = task[u]
  BY TaskTyped DEF StartStrategy, Begin, NoTask
<1> QED BY <1>1, <1>2, BeginKeepsActivations

LEMMA RestartBegins ==
  ASSUME TypeInv, NEW t \in Tasks, NEW e \in Executors, Restart(t, e)
  PROVE  \/ UNCHANGED <<exec, task>> /\ strategy' # "active"
         \/ /\ exec'[e] = NewExecutor /\ \A x \in Executors : x # e => exec'[x] = exec[x]
            /\ task'[t].pc = "init" /\ task'[t].e = e /\ \A u \in Tasks : u # t => task'[u] = task[u]
            /\ strategy' = "active"
<1>1. \/ UNCHANGED <<exec, task>> /\ strategy' # "active"
      \/ /\ exec' = [exec EXCEPT ![e] = NewExecutor] /\ strategy' = "active"
         /\ \E open : task' = [task EXCEPT ![t] = [NoTask EXCEPT !.pc = "init", !.e = e, !.open = open]]
  BY DEF Restart
<1>2. ASSUME exec' = [exec EXCEPT ![e] = NewExecutor], NEW open,
             task' = [task EXCEPT ![t] = [NoTask EXCEPT !.pc = "init", !.e = e, !.open = open]]
      PROVE  /\ exec'[e] = NewExecutor /\ \A x \in Executors : x # e => exec'[x] = exec[x]
             /\ task'[t].pc = "init" /\ task'[t].e = e /\ \A u \in Tasks : u # t => task'[u] = task[u]
  BY <1>2, TaskTyped DEF NoTask
<1> QED BY <1>1, <1>2

LEMMA RestartKeepsActivations ==
  ASSUME TypeInv, ActivationInv, NEW t \in Tasks, NEW e \in Executors, Restart(t, e)
  PROVE  ActivationInv'
<1>1. /\ server = "down" /\ server' # "down" /\ UNCHANGED ticking /\ ticking = None
      /\ \A u \in Tasks : At(u, "idle")
  BY DEF Restart, ActivationInv, DownIsIdle
<1>2. e # ticking
  BY <1>1, ExecutorAssumption
<1>3. CASE UNCHANGED <<exec, task>>
  BY <1>1, <1>3 DEF ActivationInv, MonitorsHold, ExecutesAnalyzing, NotBoth, InitAlone, DownIsIdle, Monitoring,
                    Executing, Initializing, At
<1> QED BY <1>1, <1>2, <1>3, RestartBegins, BeginKeepsActivations

LEMMA CrashKeepsActivations ==
  ASSUME TypeInv, Crash
  PROVE  ActivationInv'
<1>1. /\ \A t \in Tasks : task'[t].pc = "idle"
      /\ ticking' = None /\ close'.pc = "idle"
  BY DEF Crash, NoTask, NoClose
<1> QED BY <1>1, KindsDiffer DEF ActivationInv, MonitorsHold, ExecutesAnalyzing, NotBoth, InitAlone, DownIsIdle, Monitoring,
                    Executing, Initializing, At

(* Unless late, a cooldown ends when nothing is in flight.                 *)
LEMMA CooldownKeepsActivations ==
  ASSUME TypeInv, ActivationInv, late' = {}, Cooling
  PROVE  ActivationInv'
<1>1. /\ \A t \in Tasks : At(t, "idle")
      /\ UNCHANGED <<task, ticking, server, close>>
  BY DEF Cooling, CooldownEnds, InFlight, serviceVars
<1> QED BY <1>1, KindsDiffer DEF ActivationInv, MonitorsHold, ExecutesAnalyzing, NotBoth, InitAlone, DownIsIdle, Monitoring,
                    Executing, Initializing, At

(* closePosition and its tradeClosed, which every executor hears.          *)
LEMMA CloseMoves ==
  ASSUME ClosePosition
  PROVE  /\ UNCHANGED <<task, ticking, check, server>> /\ (close.pc = "idle" => server = "up")
         /\ UNCHANGED exec \/ ForceResume
<1>1. UNCHANGED <<task, ticking, check, server>> /\ (UNCHANGED exec \/ ForceResume)
  BY DEF ClosePosition, CloseRequest, CloseCancelAll, CloseMarket, CloseNothing, CloseFind, CloseSeeOrders, CloseCancel,
         CloseFinish, CloseResume, CloseFail, executorVars
<1>2. close.pc = "idle" => server = "up"
  BY DEF ClosePosition, CloseRequest, CloseCancelAll, CloseMarket, CloseNothing, CloseFind, CloseSeeOrders, CloseCancel,
         CloseFinish, CloseResume, CloseFail
<1> QED BY <1>1, <1>2

LEMMA CloseKeepsActivations ==
  ASSUME TypeInv, ActivationInv, ClosePosition
  PROVE  ActivationInv'
<1>1. StillUp
  BY CloseMoves DEF StillUp, ActivationInv, DownIsIdle
<1>2. NothingBegins
  BY CloseMoves, TaskTyped DEF NothingBegins
<1>3. \A x \in Executors : exec'[x] = exec[x] \/ (exec'[x].status = "analyzing" /\ exec'[x].cooling)
  BY CloseMoves DEF ForceResume
<1> QED BY <1>1, <1>2, <1>3, CloseMoves, CoolingKept

LEMMA ActivationInvInit == Init => ActivationInv
<1> SUFFICES ASSUME Init PROVE ActivationInv
  OBVIOUS
<1>1. \A t \in Tasks : task[t].pc = "idle"
  BY DEF Init, ExecutorInit, NoTask
<1> QED BY <1>1, KindsDiffer DEF Init, ActivationInv, MonitorsHold, ExecutesAnalyzing, NotBoth, InitAlone, DownIsIdle, Monitoring,
                    Executing, Initializing, At

LEMMA ActivationInvStep ==
  ASSUME TypeInv, EntryInv, ActivationInv, late' = {}, [Next]_vars
  PROVE  ActivationInv'
<1>u. ASSUME UNCHANGED <<exec, ticking, task, server, close>> PROVE ActivationInv'
  BY <1>u, ActivationsKept, TaskTyped DEF NothingBegins, StillUp, ActivationInv, DownIsIdle
<1>1. CASE Market \/ Reconciling \/ UNCHANGED vars
  BY <1>1, <1>u DEF Market, Reconciling, vars, executorVars, serviceVars
<1>2. CASE Ticking
  <2>1. CASE TickAnalyze
    <3>1. UNCHANGED exec
      <4>1. exec[ticking].status = "analyzing" /\ exec' = [exec EXCEPT ![ticking].status = "analyzing"] /\ ticking \in Executors
        BY <2>1 DEF TickAnalyze, TypeInv, ExecutorInv
      <4>2. [exec[ticking] EXCEPT !.status = "analyzing"] = exec[ticking]
        BY <4>1 DEF TypeInv, ExecutorInv, ExecutorOn, Executor
      <4> QED BY <4>1, <4>2 DEF TypeInv, ExecutorInv
    <3> QED BY <1>2, <1>u, <2>1, <3>1 DEF Ticking, TickAnalyze, serviceVars
  <2>2. ASSUME NEW t \in Tasks, Tick(t) \/ TaskStep(t) PROVE ActivationInv'
    BY <1>2, <2>2, TickKeepsActivations, TaskStepKeepsActivations DEF Ticking
  <2> QED BY <1>2, <2>1, <2>2 DEF Ticking, ExecutorNext
<1>3. CASE Cooling
  BY <1>3, CooldownKeepsActivations
<1>4. ASSUME NEW t \in Tasks, NEW e \in Executors, StartStrategy(t, e) \/ Restart(t, e) PROVE ActivationInv'
  BY <1>4, StartKeepsActivations, RestartKeepsActivations
<1>5. CASE StopStrategy
  BY <1>5, <1>u DEF StopStrategy, executorVars
<1>6. CASE Listen
  <2>1. server = "starting" /\ server' = "up" /\ UNCHANGED <<exec, ticking, task, close>>
    BY <1>6 DEF Listen, executorVars
  <2> QED BY <2>1 DEF ActivationInv, MonitorsHold, ExecutesAnalyzing, NotBoth, InitAlone, DownIsIdle, Monitoring,
                    Executing, Initializing, At
<1>7. CASE ClosePosition
  BY <1>7, CloseKeepsActivations
<1>8. CASE Crash
  BY <1>8, CrashKeepsActivations
<1>9. CASE RestartOffline
  <2>1. server' = "up" /\ UNCHANGED <<exec, ticking, task, close>>
    BY <1>9 DEF RestartOffline, executorVars
  <2> QED BY <2>1 DEF ActivationInv, MonitorsHold, ExecutesAnalyzing, NotBoth, InitAlone, DownIsIdle, Monitoring,
                    Executing, Initializing, At
<1> QED BY <1>1, <1>2, <1>3, <1>4, <1>5, <1>6, <1>7, <1>8, <1>9 DEF Next

-----------------------------------------------------------------------------
(* What the operations on the ledger do to the records of the trades.      *)
LEMMA ResizeDoes ==
  ASSUME LedgerTypeOK, NEW n, Resize(n)
  PROVE  /\ size' = n /\ DOMAIN trades' = DOMAIN trades
         /\ \A id \in DOMAIN trades : /\ trades'[id].flat <=> trades[id].flat \/ n = 0
                                      /\ trades'[id].status = trades[id].status
<1>1. \A id \in DOMAIN trades : trades[id] \in Trade
  BY ElementOfSeq, LenProperties DEF LedgerTypeOK
<1>2. \A id \in DOMAIN trades : trades'[id] = [trades[id] EXCEPT !.flat = @ \/ n = 0]
  BY DEF Resize
<1>3. \A r \in Trade : DOMAIN r = {"status", "sl", "tp", "flat"}
  BY DEF Trade
<1>4. ASSUME NEW id \in DOMAIN trades
      PROVE  (trades'[id].flat <=> trades[id].flat \/ n = 0) /\ trades'[id].status = trades[id].status
  <2>1. trades'[id].flat = (trades[id].flat \/ n = 0) /\ trades'[id].status = trades[id].status
    BY <1>1, <1>2, <1>3
  <2> QED BY <2>1
<1> QED BY <1>4 DEF Resize

LEMMA CloseTradesDoes ==
  ASSUME LedgerTypeOK, NEW ids, CloseTrades(ids)
  PROVE  /\ DOMAIN trades' = DOMAIN trades
         /\ \A id \in DOMAIN trades :
              /\ trades'[id].flat = trades[id].flat
              /\ id \in ids => trades'[id].status = "closed"
              /\ id \notin ids => trades'[id].status = trades[id].status
<1>1. \A id \in DOMAIN trades : trades[id] \in Trade
  BY ElementOfSeq, LenProperties DEF LedgerTypeOK
<1>2. \A id \in DOMAIN trades :
        trades'[id] = IF id \in ids THEN [trades[id] EXCEPT !.status = "closed"] ELSE trades[id]
  BY DEF CloseTrades
<1>3. \A r \in Trade : DOMAIN r = {"status", "sl", "tp", "flat"}
  BY DEF Trade
<1>4. DOMAIN trades' = DOMAIN trades
  BY DEF CloseTrades
<1> QED BY <1>1, <1>2, <1>3, <1>4

LEMMA UpdateOrderIdsDoes ==
  ASSUME LedgerTypeOK, NEW i, NEW sl, NEW tp, UpdateOrderIds(i, sl, tp)
  PROVE  /\ DOMAIN trades' = DOMAIN trades
         /\ \A id \in DOMAIN trades : trades'[id].flat = trades[id].flat /\ trades'[id].status = trades[id].status
<1>1. \A id \in DOMAIN trades : trades[id] \in Trade
  BY ElementOfSeq, LenProperties DEF LedgerTypeOK
<1>2. \A r \in Trade : DOMAIN r = {"status", "sl", "tp", "flat"}
  BY DEF Trade
<1> QED BY <1>1, <1>2 DEF UpdateOrderIds

LEMMA RecordTradeDoes ==
  ASSUME LedgerTypeOK, NEW sl \in OrderId \cup {None}, NEW tp \in OrderId \cup {None}, RecordTrade(sl, tp)
  PROVE  /\ Len(trades') = Len(trades) + 1 /\ DOMAIN trades' = DOMAIN trades \cup {Len(trades')}
         /\ Len(trades') \notin DOMAIN trades
         /\ \A id \in DOMAIN trades : trades'[id] = trades[id]
         /\ trades'[Len(trades')].status = "open" /\ (trades'[Len(trades')].flat <=> size = 0)
<1> DEFINE row == [status |-> "open", sl |-> sl, tp |-> tp, flat |-> size = 0]
<1>1. trades' = Append(trades, row) /\ row.status = "open" /\ (row.flat <=> size = 0) /\ row \in Trade
  BY DEF RecordTrade, Trade
<1> HIDE DEF row
<1>2. DOMAIN trades = 1 .. Len(trades) /\ Len(trades) \in Nat
  BY LenProperties DEF LedgerTypeOK
<1>3. /\ Len(trades') = Len(trades) + 1 /\ DOMAIN trades' = 1 .. (Len(trades) + 1)
      /\ \A id \in 1 .. Len(trades) : trades'[id] = trades[id]
      /\ trades'[Len(trades) + 1] = row
  BY <1>1, <1>2, AppendProperties, LenProperties DEF LedgerTypeOK
<1> QED BY <1>1, <1>2, <1>3

-----------------------------------------------------------------------------
(* A trade is closed only after its position was flat, when neither the    *)
(* reconciliation nor closePosition works on the same instrument.  The     *)
(* executor sees that the position is gone and closes the trade two        *)
(* requests later, by reading its current trade again: what it reads is    *)
(* flat still, because nothing opens a trade for an executor that is being *)
(* monitored.                                                              *)
NoClosing == close.pc = "idle"
FlatMarks == size = 0 => \A id \in DOMAIN trades : trades[id].flat
DerivesFlat ==
  \A t \in Tasks : At(t, "derive") /\ CurrentTrade(t) # None => trades[CurrentTrade(t)].flat
FlatClosed == \A id \in DOMAIN trades : trades[id].status = "closed" => trades[id].flat
FlatInv == NoClosing /\ FlatMarks /\ DerivesFlat /\ FlatClosed

(* What a step may do to the records: mark them flat, add one that is      *)
(* marked as the position is, close those that are flat.                   *)
TradesAge ==
  /\ DOMAIN trades \subseteq DOMAIN trades'
  /\ \A id \in DOMAIN trades :
       /\ trades[id].flat => trades'[id].flat
       /\ trades'[id].status = "closed" => trades[id].status = "closed" \/ trades[id].flat
  /\ \A id \in DOMAIN trades' \ DOMAIN trades : trades'[id].status = "open"
  /\ size' = 0 => \A id \in DOMAIN trades' : trades'[id].flat

(* No activation comes to close a trade, unless the position is gone; and  *)
(* the current trade stays.                                                *)
DerivesAsBefore ==
  \A u \in Tasks :
    task'[u].pc = "derive" =>
      \/ size' = 0
      \/ /\ task[u].pc = "derive" /\ task'[u].e = task[u].e
         /\ exec'[task[u].e].tradeId \in {exec[task[u].e].tradeId, None}

LEMMA FlatKept ==
  ASSUME TypeInv, TypeInv', FlatInv, TradesAge, DerivesAsBefore, close'.pc = "idle"
  PROVE  FlatInv'
<1>1. FlatMarks' /\ FlatClosed'
  BY DEF TradesAge, FlatMarks, FlatInv, FlatClosed
<1>2. ASSUME NEW u \in Tasks, task'[u].pc = "derive", exec'[task'[u].e].tradeId # None
      PROVE  trades'[exec'[task'[u].e].tradeId].flat
  <2>1. exec'[task'[u].e].tradeId \in DOMAIN trades'
    BY <1>2 DEF TypeInv, ExecutorInv, ExecutorOn, TaskOn, TaskRecord, Ids
  <2>2. CASE size' = 0
    BY <1>1, <2>1, <2>2 DEF FlatMarks
  <2>3. CASE size' # 0
    <3>1. /\ task[u].pc = "derive" /\ task'[u].e = task[u].e
          /\ exec'[task[u].e].tradeId = exec[task[u].e].tradeId
      BY <1>2, <2>3 DEF DerivesAsBefore
    <3>2. exec[task[u].e].tradeId \in DOMAIN trades
      <4>1. task[u].e \in Executors
        BY <3>1, TaskTyped
      <4> QED BY <1>2, <3>1, <4>1, ExecTyped DEF Ids
    <3> QED BY <1>2, <3>1, <3>2 DEF FlatInv, DerivesFlat, CurrentTrade, At, TradesAge
  <2> QED BY <2>2, <2>3
<1> QED BY <1>1, <1>2 DEF FlatInv, NoClosing, DerivesFlat, CurrentTrade, At

LEMMA SameTradesAge ==
  ASSUME FlatInv, UNCHANGED <<size, trades>>
  PROVE  TradesAge
  BY DEF TradesAge, FlatInv, FlatMarks

LEMMA ResizeAges ==
  ASSUME LedgerTypeOK, NEW n, Resize(n)
  PROVE  TradesAge
  BY ResizeDoes DEF TradesAge

LEMMA RecordAges ==
  ASSUME LedgerTypeOK, FlatInv, UNCHANGED size, NEW sl \in OrderId \cup {None}, NEW tp \in OrderId \cup {None},
         RecordTrade(sl, tp)
  PROVE  TradesAge
  BY RecordTradeDoes DEF TradesAge, FlatInv, FlatMarks

LEMMA UpdateAges ==
  ASSUME LedgerTypeOK, FlatInv, UNCHANGED size, NEW i, NEW sl, NEW tp, UpdateOrderIds(i, sl, tp)
  PROVE  TradesAge
  BY UpdateOrderIdsDoes DEF TradesAge, FlatInv, FlatMarks

LEMMA CloseAges ==
  ASSUME LedgerTypeOK, FlatInv, UNCHANGED size, NEW ids, CloseTrades(ids),
         \A id \in ids \cap DOMAIN trades : trades[id].flat
  PROVE  TradesAge
  BY CloseTradesDoes DEF TradesAge, FlatInv, FlatMarks

LEMMA TaskStepAges ==
  ASSUME TypeInv, FlatInv, NEW t \in Tasks, TaskStep(t)
  PROVE  TradesAge
<1> USE DEF TypeInv
<1>t. task[t] \in TaskRecord
  BY DEF ExecutorInv, TaskOn
<1>1. CASE Execute(t)
  <2>1. CASE Verify(t) \/ Refuse(t) \/ PlaceStop(t) \/ PlaceTarget(t) \/ Opened(t) \/ ReduceOnlyRefused(t)
    BY <2>1, SameTradesAge DEF Verify, Refuse, PlaceStop, PlaceTarget, Opened, ReduceOnlyRefused, ledgerVars
  <2>2. CASE PlaceEntry(t)
    BY <2>2, ResizeAges DEF PlaceEntry, Buy
  <2>3. CASE Record(t)
    BY <1>t, <2>3, RecordAges DEF Record, TaskRecord
  <2>4. CASE ExecuteFail(t)
    BY <2>4, SameTradesAge, ResizeAges DEF ExecuteFail, Buy
  <2> QED BY <1>1, <2>1, <2>2, <2>3, <2>4 DEF Execute
<1>2. CASE AdjustStops(t)
  <2>1. CASE UpdateIds(t)
    BY <2>1, UpdateAges DEF UpdateIds
  <2>2. CASE ~UpdateIds(t)
    BY <1>2, <2>2, SameTradesAge DEF AdjustStops, AdjustSkip, AdjustDecide, PlaceBreakeven, CancelOld, AdjustFail, ledgerVars
  <2> QED BY <2>1, <2>2
<1>3. CASE Check(t)
  <2>1. CASE CloseHistory(t)
    <3>1. At(t, "derive") /\ UNCHANGED size /\ CloseTrades({CurrentTrade(t)})
      BY <2>1 DEF CloseHistory
    <3>2. CurrentTrade(t) \in DOMAIN trades => CurrentTrade(t) # None
      BY LedgerAssumption, LenProperties DEF LedgerTypeOK
    <3> QED BY <3>1, <3>2, CloseAges DEF FlatInv, DerivesFlat
  <2>2. CASE ~CloseHistory(t)
    BY <1>3, <2>2, SameTradesAge DEF Check, CheckPosition, Closed, CheckFail, ledgerVars
  <2> QED BY <2>1, <2>2
<1>4. CASE Initialize(t)
  <2>1. CASE ReconcileFlat(t)
    BY <2>1, CloseAges DEF ReconcileFlat, FlatInv, FlatMarks
  <2>2. CASE Adopt(t)
    <3>1. PICK sl \in FirstOrNone(Stops), tp \in FirstOrNone(OpenOrders \ Stops) : RecordTrade(sl, tp)
      BY <2>2 DEF Adopt
    <3>2. Stops \subseteq OrderId /\ OpenOrders \subseteq OrderId
      BY LenProperties DEF Stops, OpenOrders, LedgerTypeOK, OrderId
    <3> QED BY <2>2, <3>1, <3>2, RecordAges DEF Adopt, FirstOrNone
  <2>3. CASE ReconcileTracked(t) \/ ReconcileOrphan(t) \/ InitFail(t)
    BY <2>3, SameTradesAge DEF ReconcileTracked, ReconcileOrphan, InitFail, ledgerVars
  <2> QED BY <1>4, <2>1, <2>2, <2>3 DEF Initialize
<1> QED BY <1>1, <1>2, <1>3, <1>4 DEF TaskStep

(* Those who are not about to close a trade keep it current for those who  *)
(* are.                                                                    *)
LEMMA TaskStepDerives ==
  ASSUME TypeInv, ActivationInv, NEW t \in Tasks, TaskStep(t)
  PROVE  DerivesAsBefore
<1>e. \A u \in Tasks : task[u].pc # "idle" => task[u].e \in Executors
  BY TaskTyped
<1>k. ASSUME UNCHANGED exec, \A u \in Tasks : u # t => task'[u] = task[u], task'[t].pc # "derive"
      PROVE  DerivesAsBefore
  BY <1>k DEF DerivesAsBefore
<1>a. ASSUME Ended(t), \A x \in Executors : x # task[t].e => exec'[x] = exec[x],
             task[t].pc \in ExecutePc \cup InitPc
      PROVE  DerivesAsBefore
  <2>1. \A u \in Tasks : u # t /\ task[u].pc = "derive" => task[u].e # task[t].e
    BY <1>a, KindsDiffer
       DEF ActivationInv, NotBoth, InitAlone, Executing, Monitoring, Initializing, MonitorPc, At
  <2> QED BY <1>a, <1>e, <2>1, EndedIdle DEF Ended, DerivesAsBefore
<1>1. CASE Execute(t)
  <2>1. CASE GiveUp(t)
    BY <1>1, <1>a, <2>1, ExecuteMoves, ResumeMoves, KindsDiffer
  <2>2. CASE Opened(t)
    BY <1>1, <1>a, <2>2, ExecuteMoves, OpenedMoves
  <2> QED BY <1>1, <1>k, <2>1, <2>2, ExecuteMoves DEF Onward
<1>2. CASE AdjustStops(t)
  BY <1>2, <1>k, AdjustMoves DEF Onward
<1>3. CASE Check(t)
  <2>1. CASE CheckPosition(t)
    <3>1. CASE size = 0
      <4>1. size' = 0
        BY <1>3, <3>1, CheckMoves
      <4> QED BY <4>1 DEF DerivesAsBefore
    <3>2. CASE size # 0
      <4>1. End(t) /\ UNCHANGED exec
        BY <2>1, <3>2 DEF CheckPosition
      <4> QED BY <1>k, <4>1, EndEnded DEF Ended
    <3> QED BY <3>1, <3>2
  <2>2. CASE CloseHistory(t)
    <3>1. UNCHANGED exec /\ Goto(t, "closed")
      BY <2>2 DEF CloseHistory
    <3>2. Onward(t, "closed")
      BY <3>1, GotoOnward
    <3>3. task'[t].pc = "closed" /\ \A u \in Tasks : u # t => task'[u] = task[u]
      BY <3>2 DEF Onward
    <3> QED BY <1>k, <3>1, <3>3
  <2>3. CASE Closed(t) \/ CheckFail(t)
    <3>1. CASE End(t) /\ UNCHANGED exec
      BY <1>k, <3>1, EndEnded DEF Ended
    <3>2. ASSUME NEW id \in {None, CurrentTrade(t)}, Resume(t, id), task[t].pc # "idle"
          PROVE  DerivesAsBefore
      <4>1. exec'[task[t].e].tradeId = id
        BY <1>e, <3>2, TaskTyped DEF Resume
      <4>2. Ended(t) /\ \A x \in Executors : x # task[t].e => exec'[x] = exec[x]
        BY <3>2, ResumeMoves
      <4> QED BY <1>e, <3>2, <4>1, <4>2, EndedIdle DEF Ended, DerivesAsBefore, CurrentTrade
    <3> QED BY <2>3, <3>1, <3>2 DEF Closed, CheckFail, At
  <2> QED BY <1>3, <2>1, <2>2, <2>3 DEF Check
<1>4. CASE Initialize(t)
  BY <1>4, <1>a, <1>k, InitializeMoves, SubscribeMoves, KindsDiffer DEF Onward
<1> QED BY <1>1, <1>2, <1>3, <1>4 DEF TaskStep

LEMMA FlatInvStep ==
  ASSUME TypeInv, EntryInv, ActivationInv, FlatInv, MaxCloses = 0, Checks = {}, [Next]_vars
  PROVE  FlatInv'
<1>t. TypeInv /\ TypeInv' /\ LedgerTypeOK
  BY TypeInvStep DEF TypeInv
<1>i. close.pc = "idle"
  BY DEF FlatInv, NoClosing
<1>s. ASSUME TradesAge, UNCHANGED <<exec, task, close>>
      PROVE  FlatInv'
  BY <1>i, <1>s, <1>t, FlatKept DEF DerivesAsBefore
(* A step that leaves the ledger and the current trades alone.             *)
<1>d. ASSUME UNCHANGED <<size, trades>>, close'.pc = "idle",
             \A u \in Tasks : task'[u].pc = "derive" => task'[u] = task[u],
             \A u \in Tasks : task'[u].pc = "derive" => exec'[task[u].e].tradeId = exec[task[u].e].tradeId
      PROVE  FlatInv'
  BY <1>d, <1>t, SameTradesAge, FlatKept DEF DerivesAsBefore
<1>1. CASE Market
  <2>1. PICK o \in OpenOrders : Fill(o)
    BY <1>1 DEF Market
  <2>2. TradesAge
    BY <1>t, <2>1, SameTradesAge, ResizeAges DEF Fill
  <2> QED BY <1>1, <1>s, <2>2 DEF Market, executorVars, serviceVars
<1>2. CASE Ticking
  <2>0. close'.pc = "idle"
    BY <1>2, <1>i DEF Ticking, serviceVars
  <2>1. CASE TickAnalyze
    <3>1. \A x \in Executors : exec'[x].tradeId = exec[x].tradeId
      BY <1>t, <2>1, ExecTyped DEF TickAnalyze
    <3> QED BY <1>d, <1>t, <2>0, <2>1, <3>1, TaskTyped DEF TickAnalyze, ledgerVars
  <2>2. ASSUME NEW t \in Tasks, TickSignal(t) PROVE FlatInv'
    BY <1>d, <1>t, <2>0, <2>2, TaskTyped DEF TickSignal, NoTask, ledgerVars
  <2>3. ASSUME NEW t \in Tasks, TickMonitor(t) PROVE FlatInv'
    <3>1. /\ UNCHANGED <<size, trades>>
          /\ \/ UNCHANGED task /\ exec' = [exec EXCEPT ![ticking].status = "analyzing"]
             \/ /\ UNCHANGED exec /\ task'[t].pc \in {"adjust", "check"}
                /\ \A u \in Tasks : u # t => task'[u] = task[u]
      BY ZenonT(40), <1>t, <2>3, TaskTyped DEF TickMonitor, NoTask, ledgerVars
    <3>2. ASSUME NEW x \in Executors PROVE exec'[x].tradeId = exec[x].tradeId
      <4>1. DOMAIN exec = Executors /\ DOMAIN exec[x] = {"status", "tradeId", "cooling"}
        BY <1>t, ExecTyped DEF TypeInv, ExecutorInv
      <4> QED BY <3>1, <4>1
    <3> QED BY <1>d, <1>t, <2>0, <3>1, <3>2, TaskTyped
  <2>4. ASSUME NEW t \in Tasks, TaskStep(t) PROVE FlatInv'
    BY <1>t, <2>0, <2>4, TaskStepAges, TaskStepDerives, FlatKept
  <2> QED BY <1>2, <2>1, <2>2, <2>3, <2>4 DEF Ticking, ExecutorNext, Tick
<1>3. CASE Cooling
  <2>1. /\ UNCHANGED <<size, trades, task>> /\ close'.pc = "idle"
        /\ exec' = [exec EXCEPT ![ticking].cooling = FALSE]
    BY <1>3, <1>i DEF Cooling, CooldownEnds, ledgerVars, serviceVars
  <2>2. \A x \in Executors : exec'[x].tradeId = exec[x].tradeId
    BY <1>t, <2>1, ExecTyped
  <2> QED BY <1>d, <1>t, <2>1, <2>2, TaskTyped
<1>4. ~Reconciling
  BY DEF Reconciling, ReconciliationNext
<1>5. ASSUME NEW t \in Tasks, NEW e \in Executors, StartStrategy(t, e) PROVE FlatInv'
  <2>1. /\ UNCHANGED <<size, trades>> /\ close'.pc = "idle" /\ task'[t].pc = "init"
        /\ \A u \in Tasks : u # t => task'[u] = task[u]
        /\ \A u \in Tasks : (task[u].e # e /\ exec' = [exec EXCEPT ![e] = NewExecutor]) \/ u = t
    BY <1>5, <1>i, <1>t, TaskTyped DEF StartStrategy, Begin, NoTask, ledgerVars
  <2>2. \A u \in Tasks : task'[u].pc = "derive" => exec'[task[u].e] = exec[task[u].e]
    BY <1>t, <2>1, TaskTyped
  <2> QED BY <1>d, <2>1, <2>2
<1>6. ASSUME NEW t \in Tasks, NEW e \in Executors, Restart(t, e) PROVE FlatInv'
  <2>1. PICK ids \in SUBSET Ghosts : CloseTrades(ids) /\ UNCHANGED size /\ server = "down" /\ UNCHANGED close
    BY <1>6 DEF Restart
  <2>2. TradesAge
    <3>1. \A id \in ids : trades[id].flat
      BY <2>1 DEF Ghosts, OpenTrades, FlatInv, FlatMarks
    <3> QED BY <1>t, <2>1, <3>1, CloseAges
  <2>3. DerivesAsBefore
    BY <1>6, <1>t, <2>1, RestartBegins DEF ActivationInv, DownIsIdle, DerivesAsBefore, At
  <2> QED BY <1>i, <1>t, <2>1, <2>2, <2>3, FlatKept
<1>7. CASE StopStrategy \/ Listen \/ RestartOffline
  BY <1>7, <1>s, <1>t, SameTradesAge DEF StopStrategy, Listen, RestartOffline, ledgerVars, executorVars
<1>8. CASE ClosePosition
  <2>1. CloseRequest
    BY <1>8, <1>i DEF ClosePosition, CloseCancelAll, CloseMarket, CloseNothing, CloseFind, CloseSeeOrders,
                      CloseCancel, CloseFinish, CloseResume, CloseFail
  <2>2. used.closes \in Nat
    BY <1>t DEF TypeInv, ServiceInv
  <2> QED BY <2>1, <2>2 DEF CloseRequest
<1>9. CASE Crash
  <2>1. UNCHANGED <<size, trades>> /\ close'.pc = "idle" /\ \A u \in Tasks : task'[u].pc = "idle"
    BY <1>9 DEF Crash, NoTask, NoClose, ledgerVars
  <2> QED BY <1>d, <2>1
<1>10. CASE UNCHANGED vars
  BY <1>10, <1>s, <1>t, SameTradesAge DEF vars, ledgerVars, executorVars, serviceVars
<1> QED BY <1>1, <1>2, <1>3, <1>4, <1>5, <1>6, <1>7, <1>8, <1>9, <1>10 DEF Next

(* "Database trades stay in sync with Deribit positions": the executor, a  *)
(* start and the reconciliation of a restart close a trade only after its  *)
(* position was flat, over lost requests, crashes, handovers and stops, as *)
(* long as no activation has outlasted its minute.                         *)
THEOREM ClosedWhenFlat ==
  ASSUME MaxCloses = 0, Checks = {}
  PROVE  Spec => []ClosedOnlyAfterFlat
<1> DEFINE Inv == late = {} => EntryInv /\ ActivationInv /\ FlatInv
<1>1. Init => Inv
  <2>1. Init => FlatInv
    BY DEF Init, LedgerInit, ExecutorInit, NoTask, NoClose, FlatInv, NoClosing, FlatMarks, DerivesFlat,
           FlatClosed, At
  <2> QED BY <2>1, EntryInvInit, ActivationInvInit
<1>2. TypeInv /\ Inv /\ [Next]_vars => Inv'
  BY EntryInvStep, ActivationInvStep, FlatInvStep, LateGrows
<1>3. Inv => ClosedOnlyAfterFlat
  BY DEF FlatInv, FlatClosed, ClosedOnlyAfterFlat
<1> QED
  BY <1>1, <1>2, <1>3, TypeInvAlways, PTL DEF Spec

-----------------------------------------------------------------------------
(* One executor at a time, as long as no strategy is stopped: those that   *)
(* trade are the one the ticker calls, and a strategy starts alone.        *)
TradesTicking == \A t \in Tasks : task[t].pc \in ExecutePc \cup MonitorPc => task[t].e = ticking
StartsAlone == \A t \in Initializing : ticking = None /\ \A u \in Tasks : u # t => At(u, "idle")
NeverStopped ==
  /\ strategy # "stopped"
  /\ strategy = "none" => ticking = None /\ \A t \in Tasks : At(t, "idle")
OneExecutor == TradesTicking /\ StartsAlone /\ NeverStopped

LEMMA OneKept ==
  ASSUME TypeInv, OneExecutor, NothingBegins, UNCHANGED ticking, strategy' \in {strategy, "active"}
  PROVE  OneExecutor'
<1>1. TradesTicking' /\ StartsAlone'
  BY TaskTyped, KindsDiffer DEF OneExecutor, TradesTicking, StartsAlone, NothingBegins, Initializing, At
<1>2. NeverStopped'
  BY DEF OneExecutor, NeverStopped, NothingBegins, At
<1> QED BY <1>1, <1>2 DEF OneExecutor

LEMMA TaskStepBegins ==
  ASSUME TypeInv, NEW t \in Tasks, TaskStep(t)
  PROVE  /\ NothingBegins /\ task[t].pc # "idle"
         /\ \/ UNCHANGED ticking
            \/ task[t].pc \in InitPc /\ ticking' = task[t].e /\ Ended(t)
<1>1. CASE Execute(t)
  <2>1. task[t].pc \in ExecutePc /\ task[t].pc # "idle" /\ UNCHANGED ticking
    BY <1>1, ExecuteMoves, KindsDiffer
  <2>2. ASSUME NEW pc \in ExecutePc, task'[t].pc = pc, task'[t].e = task[t].e,
               \A u \in Tasks : u # t => task'[u] = task[u]
        PROVE  NothingBegins
    BY <2>1, <2>2, KindsDiffer, TaskTyped DEF NothingBegins
  <2>3. CASE GiveUp(t) \/ Opened(t)
    BY <2>1, <2>3, ResumeMoves, OpenedMoves, EndedBegins
  <2> QED BY <1>1, <2>1, <2>2, <2>3, ExecuteMoves DEF Onward, ExecutePc
<1>2. CASE AdjustStops(t)
  BY <1>2, AdjustMoves, OnwardBegins, KindsDiffer DEF MonitorPc
<1>3. CASE Check(t)
  <2>1. task[t].pc \in MonitorPc /\ task[t].pc # "idle" /\ UNCHANGED ticking
    BY <1>3, CheckMoves DEF MonitorPc
  <2> QED BY <1>3, <2>1, CheckMoves, ResumeMoves, EndedBegins, OnwardBegins DEF MonitorPc
<1>4. CASE Initialize(t)
  <2>1. task[t].pc \in InitPc /\ task[t].pc # "idle"
    BY <1>4, InitializeMoves, KindsDiffer
  <2> QED BY <1>4, <2>1, InitializeMoves, SubscribeMoves, EndedBegins, OnwardBegins DEF InitPc
<1> QED BY <1>1, <1>2, <1>3, <1>4 DEF TaskStep

LEMMA OneExecutorStep ==
  ASSUME TypeInv, ActivationInv, OneExecutor, MaxStops = 0, [Next]_vars
  PROVE  OneExecutor'
<1>u. ASSUME UNCHANGED <<task, ticking>>, strategy' \in {strategy, "active"} PROVE OneExecutor'
  BY <1>u, OneKept, TaskTyped DEF NothingBegins
<1>1. CASE Market \/ Reconciling \/ UNCHANGED vars
  BY <1>1, <1>u DEF Market, Reconciling, vars, executorVars, serviceVars
<1>2. CASE Ticking
  <2>1. CASE TickAnalyze
    BY <1>2, <1>u, <2>1 DEF Ticking, TickAnalyze, serviceVars
  <2>2. ASSUME NEW t \in Tasks, Tick(t) PROVE OneExecutor'
    <3>1. /\ At(t, "idle") /\ ticking # None /\ UNCHANGED <<ticking, strategy>>
          /\ \A u \in Tasks : u # t => task'[u] = task[u]
          /\ task'[t] = task[t] \/ (task'[t].e = ticking /\ task'[t].pc \in ExecutePc \cup MonitorPc)
      BY <1>2, <2>2, TickMoves DEF Ticking, TickBegins, serviceVars, ExecutePc, MonitorPc
    <3>2. TradesTicking' /\ StartsAlone'
      BY <3>1, TaskTyped, KindsDiffer DEF OneExecutor, TradesTicking, StartsAlone, Initializing, At
    <3>3. NeverStopped'
      BY <3>1 DEF OneExecutor, NeverStopped
    <3> QED BY <3>2, <3>3 DEF OneExecutor
  <2>3. ASSUME NEW t \in Tasks, TaskStep(t) PROVE OneExecutor'
    <3>0. UNCHANGED strategy
      BY <1>2 DEF Ticking, serviceVars
    <3>1. CASE UNCHANGED ticking
      BY <2>3, <3>0, <3>1, TaskStepBegins, OneKept
    <3>2. CASE task[t].pc \in InitPc /\ Ended(t)
      <4>1. \A u \in Tasks : task'[u].pc = "idle"
        BY <3>2, EndedIdle DEF OneExecutor, StartsAlone, Initializing, At, Ended
      <4>2. strategy # "none"
        BY <3>2, KindsDiffer DEF OneExecutor, NeverStopped, At
      <4> QED BY <3>0, <4>1, <4>2, KindsDiffer DEF OneExecutor, TradesTicking, StartsAlone, NeverStopped, Initializing, At
    <3> QED BY <2>3, <3>1, <3>2, TaskStepBegins
  <2> QED BY <1>2, <2>1, <2>2, <2>3 DEF Ticking, ExecutorNext
<1>3. CASE Cooling
  BY <1>3, <1>u DEF Cooling, CooldownEnds, serviceVars
(* A strategy starts where nothing else runs.                              *)
<1>4. ASSUME NEW t \in Tasks, NEW e \in Executors, StartStrategy(t, e) \/ Restart(t, e) PROVE OneExecutor'
  <2>1. UNCHANGED ticking /\ ticking = None /\ \A u \in Tasks : At(u, "idle")
    BY <1>4 DEF StartStrategy, Restart, OneExecutor, NeverStopped, ActivationInv, DownIsIdle
  <2>2. /\ strategy' \in {strategy, "active"} /\ strategy' # "stopped"
        /\ \/ UNCHANGED task
           \/ task'[t].pc = "init" /\ strategy' = "active" /\ \A u \in Tasks : u # t => task'[u] = task[u]
    <3>1. CASE StartStrategy(t, e)
      BY <3>1, TaskTyped DEF StartStrategy, Begin, NoTask
    <3>2. CASE Restart(t, e)
      <4>1. strategy' = strategy
        BY <3>2 DEF Restart, Reactivated, OneExecutor, NeverStopped
      <4> QED BY <3>2, <4>1, RestartBegins DEF OneExecutor, NeverStopped
    <3> QED BY <1>4, <3>1, <3>2
  <2>3. TradesTicking' /\ StartsAlone'
    BY <2>1, <2>2, KindsDiffer DEF OneExecutor, TradesTicking, StartsAlone, Initializing, At, InitPc, ExecutePc, MonitorPc
  <2>4. NeverStopped'
    BY <2>1, <2>2 DEF OneExecutor, NeverStopped, At
  <2> QED BY <2>3, <2>4 DEF OneExecutor
<1>5. ~StopStrategy
  BY DEF StopStrategy, TypeInv, ServiceInv
<1>6. CASE Listen \/ RestartOffline
  BY <1>6, <1>u DEF Listen, RestartOffline, executorVars
<1>7. CASE ClosePosition
  <2>1. strategy' = strategy
    BY <1>7 DEF ClosePosition, CloseRequest, CloseCancelAll, CloseMarket, CloseNothing, CloseFind, CloseSeeOrders, CloseCancel,
         CloseFinish, CloseResume, CloseFail, Reactivated, OneExecutor, NeverStopped
  <2> QED BY <1>7, <1>u, <2>1, CloseMoves
<1>8. CASE Crash
  <2>1. ticking' = None /\ UNCHANGED strategy /\ \A u \in Tasks : task'[u].pc = "idle"
    BY <1>8 DEF Crash, NoTask
  <2> QED BY <2>1, KindsDiffer DEF OneExecutor, TradesTicking, StartsAlone, NeverStopped, Initializing, At
<1> QED BY <1>1, <1>2, <1>3, <1>4, <1>5, <1>6, <1>7, <1>8 DEF Next

LEMMA OneExecutorInit == Init => OneExecutor
<1> SUFFICES ASSUME Init PROVE OneExecutor
  OBVIOUS
<1>1. \A t \in Tasks : task[t].pc = "idle"
  BY DEF Init, ExecutorInit, NoTask
<1> QED BY <1>1, KindsDiffer DEF Init, ExecutorInit, OneExecutor, TradesTicking, StartsAlone, NeverStopped, Initializing, At

-----------------------------------------------------------------------------
(* Moving the stop: the activation that cancels the old stop has placed    *)
(* the new one, which rests until the position is gone or closePosition    *)
(* has lifted all orders to close it.                                      *)
Leaving == size = 0 \/ close.pc = "close"

BreakevenRests ==
  \A t \in Tasks :
    /\ At(t, "place") /\ task[t].old # None =>
         task[t].old \in DOMAIN orders /\ orders[task[t].old] \in {"sl", "gone"}
    /\ At(t, "cancel") =>
         /\ task[t].old \in DOMAIN orders /\ orders[task[t].old] \in {"sl", "gone"}
         /\ task[t].sl \in DOMAIN orders /\ (orders[task[t].sl] = "be" \/ Leaving)

(* No order is lost.                                                       *)
OrdersStand == \A o \in DOMAIN orders : o \in DOMAIN orders' /\ orders'[o] = orders[o]

(* Only with the position goes a stop at breakeven, or the last stop.      *)
OrdersAge ==
  /\ \A o \in DOMAIN orders :
       /\ o \in DOMAIN orders'
       /\ orders'[o] = orders[o] \/ (orders'[o] = "gone" /\ (orders[o] # "be" \/ Leaving'))
  /\ Stops # {} /\ Stops' = {} => Leaving'

LEMMA PlaceDoes ==
  ASSUME LedgerTypeOK, NEW kind \in OrderKind, Place(kind)
  PROVE  OrdersStand /\ Len(orders') \in DOMAIN orders' /\ orders'[Len(orders')] = kind
<1>1. DOMAIN orders = 1 .. Len(orders) /\ Len(orders) \in Nat /\ orders' = Append(orders, kind)
  BY LenProperties DEF LedgerTypeOK, Place
<1>2. /\ Len(orders') = Len(orders) + 1 /\ DOMAIN orders' = 1 .. (Len(orders) + 1)
      /\ \A id \in 1 .. Len(orders) : orders'[id] = orders[id]
      /\ orders'[Len(orders) + 1] = kind
  BY <1>1, AppendProperties, LenProperties DEF LedgerTypeOK
<1> QED BY <1>1, <1>2 DEF OrdersStand

LEMMA StandAge == OrdersStand => OrdersAge
  BY DEF OrdersStand, OrdersAge, Stops

LEMMA SameOrdersStand == UNCHANGED orders => OrdersStand
  BY DEF OrdersStand

(* What an activation does to the orders, other than cancelling the old    *)
(* stop.                                                                   *)
LEMMA TaskStepStands ==
  ASSUME LedgerTypeOK, NEW t \in Tasks, TaskStep(t), ~CancelOld(t)
  PROVE  OrdersStand
<1>0. {"sl", "tp", "be"} \subseteq OrderKind
  BY DEF OrderKind
<1>1. CASE Execute(t)
  <2>1. UNCHANGED orders \/ \E kind \in OrderKind : Place(kind)
    BY <1>0, <1>1 DEF Execute, Verify, Refuse, PlaceEntry, PlaceStop, PlaceTarget, Record, Opened, ExecuteFail,
                      ReduceOnlyRefused, ledgerVars
  <2> QED BY <2>1, PlaceDoes, SameOrdersStand
<1>2. CASE AdjustStops(t)
  <2>1. UNCHANGED orders \/ Place("be")
    BY <1>2 DEF AdjustStops, AdjustSkip, AdjustDecide, PlaceBreakeven, UpdateIds, AdjustFail, ledgerVars
  <2> QED BY <1>0, <2>1, PlaceDoes, SameOrdersStand
<1>3. CASE Check(t)
  BY <1>3, SameOrdersStand DEF Check, CheckPosition, CloseHistory, Closed, CheckFail, ledgerVars
<1>4. CASE Initialize(t)
  BY <1>4, SameOrdersStand DEF Initialize, ReconcileFlat, ReconcileTracked, ReconcileOrphan, Adopt, InitFail, ledgerVars
<1> QED BY <1>1, <1>2, <1>3, <1>4 DEF TaskStep

LEMMA ReconcilingStands ==
  ASSUME LedgerTypeOK, Reconciling
  PROVE  OrdersStand /\ UNCHANGED size
<1>0. {"sl", "tp"} \subseteq OrderKind
  BY DEF OrderKind
<1>1. UNCHANGED size /\ (UNCHANGED orders \/ \E kind \in {"sl", "tp"} : Place(kind))
  BY DEF Reconciling, ReconciliationNext, CheckStep, StartCheck, Positions, CloseOrphan,
         VerifyOrders, ClosePastStop, Repair, ReplaceStop, SaveStop, ReplaceTarget, SaveTarget,
         ReverseOrphan, RunCheckFail, VerifyFail, ReplaceFail, ledgerVars
<1> QED BY <1>0, <1>1, PlaceDoes, SameOrdersStand

LEMMA CancelOldAges ==
  ASSUME TypeInv, BreakevenRests, NEW t \in Tasks, CancelOld(t), UNCHANGED serviceVars
  PROVE  OrdersAge
<1>1. CASE UNCHANGED orders
  BY <1>1, SameOrdersStand, StandAge DEF CancelOld
<1>2. CASE Cancel({task[t].old})
  <2> DEFINE old == task[t].old  be == task[t].sl
  <2>1. /\ UNCHANGED size /\ orders[old] \in {"sl", "gone"} /\ be \in DOMAIN orders
        /\ orders[be] = "be" \/ Leaving'
    BY DEF CancelOld, BreakevenRests, Leaving, serviceVars
  <2>2. /\ DOMAIN orders' = DOMAIN orders
        /\ \A o \in DOMAIN orders : orders'[o] = IF o = old THEN "gone" ELSE orders[o]
    BY <1>2 DEF Cancel
  <2>3. orders[be] = "be" => be \in Stops'
    BY <2>1, <2>2 DEF Stops
  <2> QED BY <2>1, <2>2, <2>3 DEF OrdersAge
<1> QED BY <1>1, <1>2 DEF CancelOld

LEMMA NoClosingKept ==
  ASSUME TypeInv, NoClosing, MaxCloses = 0, [Next]_vars
  PROVE  NoClosing' /\ ~ClosePosition
<1>1. ASSUME ClosePosition PROVE FALSE
  <2>1. CloseRequest
    BY <1>1 DEF NoClosing, ClosePosition, CloseCancelAll, CloseMarket, CloseNothing, CloseFind, CloseSeeOrders,
                      CloseCancel, CloseFinish, CloseResume, CloseFail
  <2>2. used.closes \in Nat
    BY DEF TypeInv, ServiceInv
  <2> QED BY <2>1, <2>2 DEF CloseRequest
<1>2. CASE UNCHANGED close
  BY <1>1, <1>2 DEF NoClosing
<1>3. CASE Crash
  BY <1>1, <1>3 DEF Crash, NoClose, NoClosing
<1> QED BY <1>1, <1>2, <1>3
     DEF Next, Market, Ticking, Cooling, Reconciling, StartStrategy, Restart, RestartOffline, StopStrategy, Listen,
         serviceVars, vars

(* Every step but those of closePosition.                                  *)
LEMMA OrdersAgeStep ==
  ASSUME TypeInv, EntryInv, BreakevenRests, ClosePosition => OrdersAge, [Next]_vars
  PROVE  OrdersAge
<1>t. LedgerTypeOK
  BY DEF TypeInv
<1>1. CASE Market
  <2>1. PICK o \in OpenOrders : Fill(o)
    BY <1>1 DEF Market
  <2>2. size' = 0
    BY <1>t, <2>1 DEF Fill, Resize, LedgerTypeOK, EntryInv, Single
  <2>3. /\ DOMAIN orders' = DOMAIN orders
        /\ \A x \in DOMAIN orders : orders'[x] = IF x = o THEN "gone" ELSE orders[x]
    BY <2>1 DEF Fill, Cancel
  <2> QED BY <2>2, <2>3 DEF OrdersAge, Leaving
<1>2. CASE Ticking
  <2>1. CASE TickAnalyze
    BY <2>1, SameOrdersStand, StandAge DEF TickAnalyze, ledgerVars
  <2>2. ASSUME NEW t \in Tasks, Tick(t) PROVE OrdersAge
    BY <2>2, SameOrdersStand, StandAge DEF Tick, TickSignal, TickMonitor, ledgerVars
  <2>3. ASSUME NEW t \in Tasks, TaskStep(t) PROVE OrdersAge
    BY <1>2, <1>t, <2>3, TaskStepStands, CancelOldAges, StandAge DEF Ticking
  <2> QED BY <1>2, <2>1, <2>2, <2>3 DEF Ticking, ExecutorNext
<1>3. CASE Reconciling
  BY <1>3, <1>t, ReconcilingStands, StandAge
<1>4. ASSUME NEW t \in Tasks, NEW e \in Executors, Restart(t, e) PROVE OrdersAge
  <2>1. PICK closed \in SUBSET Ghosts, cancelled \in SUBSET OpenOrders :
          Cancel(cancelled) /\ (Ghosts = {} => cancelled = {}) /\ UNCHANGED size
    BY <1>4 DEF Restart
  <2>2. CASE cancelled = {}
    BY <2>1, <2>2, StandAge DEF Cancel, OrdersStand
  <2>3. CASE cancelled # {}
    <3>1. size' = 0
      BY <2>1, <2>3 DEF Ghosts
    <3>2. /\ DOMAIN orders' = DOMAIN orders
          /\ \A x \in DOMAIN orders : orders'[x] = IF x \in cancelled THEN "gone" ELSE orders[x]
      BY <2>1 DEF Cancel
    <3> QED BY <3>1, <3>2 DEF OrdersAge, Leaving
  <2> QED BY <2>2, <2>3
<1>5. CASE Cooling \/ StopStrategy \/ Crash \/ Listen \/ RestartOffline \/ UNCHANGED vars
  BY <1>5, SameOrdersStand, StandAge
     DEF Cooling, CooldownEnds, StopStrategy, Crash, Listen, RestartOffline, ledgerVars, vars
<1>6. ASSUME NEW t \in Tasks, NEW e \in Executors, StartStrategy(t, e) PROVE OrdersAge
  BY <1>6, SameOrdersStand, StandAge DEF StartStrategy, ledgerVars
<1> QED BY <1>1, <1>2, <1>3, <1>4, <1>5, <1>6 DEF Next

(* Nobody enters while the executor that the ticker calls is monitored.    *)
LEMMA StaysFlat ==
  ASSUME TypeInv, ActivationInv, OneExecutor, [Next]_vars, size = 0, Monitoring # {}
  PROVE  size' = 0
<1>1. \A t \in Tasks : task[t].pc \notin ExecutePc
  BY DEF ActivationInv, NotBoth, OneExecutor, TradesTicking, Monitoring, Executing
<1>2. CASE UNCHANGED size
  BY <1>2
<1>3. CASE Market
  BY <1>3 DEF Market, Fill
<1>4. CASE Ticking
  <2>1. ASSUME NEW t \in Tasks, TaskStep(t) PROVE size' = 0
    <3>1. ~Execute(t)
      BY <1>1, ExecuteMoves
    <3> QED BY <2>1, <3>1, AdjustMoves, CheckMoves, InitializeMoves DEF TaskStep
  <2> QED BY <1>4, <2>1 DEF Ticking, ExecutorNext, Tick, TickAnalyze, TickSignal, TickMonitor, ledgerVars
<1>5. CASE Reconciling
  BY <1>5, ReconcilingStands DEF TypeInv
<1>6. CASE ClosePosition
  BY <1>6 DEF ClosePosition, CloseRequest, CloseCancelAll, CloseMarket, CloseNothing, CloseFind, CloseSeeOrders,
                CloseCancel, CloseFinish, CloseResume, CloseFail, Resize, ledgerVars
<1> QED BY <1>2, <1>3, <1>4, <1>5, <1>6
     DEF Next, Cooling, CooldownEnds, StartStrategy, Restart, RestartOffline, StopStrategy, Crash, Listen, ledgerVars, vars

LEMMA RestsKept ==
  ASSUME BreakevenRests, OrdersAge, Monitoring # {} /\ Leaving => Leaving',
         NEW u \in Tasks, task'[u].pc \in {"place", "cancel"} => task'[u] = task[u]
  PROVE  /\ At(u, "place")' /\ task'[u].old # None =>
              task'[u].old \in DOMAIN orders' /\ orders'[task'[u].old] \in {"sl", "gone"}
         /\ At(u, "cancel")' =>
              /\ task'[u].old \in DOMAIN orders' /\ orders'[task'[u].old] \in {"sl", "gone"}
              /\ task'[u].sl \in DOMAIN orders' /\ (orders'[task'[u].sl] = "be" \/ Leaving')
<1>1. CASE task'[u] = task[u]
  <2>1. At(u, "cancel") => Monitoring # {}
    BY DEF At, Monitoring, MonitorPc
  <2> QED BY <1>1, <2>1 DEF BreakevenRests, OrdersAge, At
<1> QED BY <1>1 DEF At

LEMMA TaskStepRests ==
  ASSUME TypeInv, BreakevenRests, OrdersAge, Monitoring # {} /\ Leaving => Leaving', NEW t \in Tasks, TaskStep(t)
  PROVE  BreakevenRests'
<1>t. DOMAIN task = Tasks /\ DOMAIN task[t] = {"pc", "e", "trade", "sl", "tp", "old", "open"} /\ LedgerTypeOK
  BY TaskTyped DEF TypeInv
<1>k. ASSUME task'[t].pc \notin {"place", "cancel"}, \A u \in Tasks : u # t => task'[u] = task[u]
      PROVE  BreakevenRests'
  BY <1>k, RestsKept DEF BreakevenRests
<1>1. CASE Execute(t)
  <2>1. (GiveUp(t) \/ Opened(t)) => Ended(t)
    BY <1>1, ExecuteMoves, ResumeMoves, OpenedMoves, KindsDiffer
  <2> QED BY <1>1, <1>k, <2>1, ExecuteMoves, EndedIdle DEF Onward, Ended
<1>2. CASE AdjustStops(t)
  <2>1. CASE AdjustDecide(t)
    <3>1. PICK old \in IF Stops = {} THEN {None} ELSE Stops :
            /\ old # None => orders[old] = "sl"
            /\ task' = [task EXCEPT ![t].pc = "place", ![t].old = old]
      BY <2>1 DEF AdjustDecide
    <3>2. UNCHANGED orders /\ (old # None => old \in DOMAIN orders)
      BY <2>1, <3>1 DEF AdjustDecide, ledgerVars, Stops
    <3>3. task'[t].pc = "place" /\ task'[t].old = old /\ \A u \in Tasks : u # t => task'[u] = task[u]
      BY <1>t, <3>1
    <3> QED BY <3>1, <3>2, <3>3, RestsKept DEF BreakevenRests, At
  <2>2. CASE PlaceBreakeven(t)
    <3>1. /\ At(t, "place") /\ task'[t].pc = (IF task[t].old = None THEN "update" ELSE "cancel")
          /\ task'[t].sl = Len(orders') /\ task'[t].old = task[t].old
          /\ \A u \in Tasks : u # t => task'[u] = task[u]
      BY <1>t, <2>2 DEF PlaceBreakeven
    <3>2. OrdersStand /\ Len(orders') \in DOMAIN orders' /\ orders'[Len(orders')] = "be"
      BY <1>t, <2>2, PlaceDoes DEF PlaceBreakeven, OrderKind
    <3> QED BY <3>1, <3>2, RestsKept DEF BreakevenRests, OrdersStand, At
  <2>3. CASE AdjustSkip(t) \/ CancelOld(t) \/ UpdateIds(t) \/ AdjustFail(t)
    <3>1. Goto(t, "check") \/ Goto(t, "update")
      BY <2>3 DEF AdjustSkip, CancelOld, UpdateIds, AdjustFail
    <3>2. Onward(t, "check") \/ Onward(t, "update")
      BY <3>1, GotoOnward
    <3> QED BY <1>k, <3>2 DEF Onward
  <2> QED BY <1>2, <2>1, <2>2, <2>3 DEF AdjustStops
<1>3. CASE Check(t)
  <2>1. task[t].pc # "idle"
    BY <1>3, CheckMoves
  <2> QED BY <1>3, <1>k, <2>1, CheckMoves, ResumeMoves, EndedIdle DEF Onward, Ended
<1>4. CASE Initialize(t)
  <2>1. task[t].pc # "idle"
    BY <1>4, InitializeMoves, KindsDiffer
  <2> QED BY ZenonT(40), <1>4, <1>k, <2>1, InitializeMoves, SubscribeMoves, EndedIdle DEF Onward, Ended
<1> QED BY <1>1, <1>2, <1>3, <1>4 DEF TaskStep

LEMMA BreakevenRestsStep ==
  ASSUME TypeInv, BreakevenRests, OrdersAge, Crash \/ (Monitoring # {} /\ Leaving => Leaving'), [Next]_vars
  PROVE  BreakevenRests'
<1>4. CASE Crash
  <2>1. \A u \in Tasks : task'[u].pc = "idle"
    BY <1>4 DEF Crash, NoTask
  <2> QED BY <2>1 DEF BreakevenRests, At
<1>o. ~Crash => (Monitoring # {} /\ Leaving => Leaving')
  OBVIOUS
<1>k. ASSUME ~Crash, \A u \in Tasks : task'[u].pc \in {"place", "cancel"} => task'[u] = task[u]
      PROVE  BreakevenRests'
  BY <1>k, <1>o, RestsKept DEF BreakevenRests
<1>1. CASE UNCHANGED task
  BY <1>1, <1>4, <1>k
<1>2. CASE Ticking
  <2>1. ASSUME NEW t \in Tasks, Tick(t) PROVE BreakevenRests'
    <3>1. \A u \in Tasks : task'[u] = task[u] \/ task'[u].pc \in {"verify", "adjust", "check"}
      BY <2>1, TickMoves DEF TickBegins
    <3> QED BY <1>4, <1>k, <3>1
  <2>2. ASSUME NEW t \in Tasks, TaskStep(t) PROVE BreakevenRests'
    BY <1>4, <1>o, <2>2, TaskStepRests
  <2> QED BY <1>1, <1>2, <2>1, <2>2 DEF Ticking, ExecutorNext, TickAnalyze
<1>3. ASSUME NEW t \in Tasks, NEW e \in Executors, StartStrategy(t, e) \/ Restart(t, e) PROVE BreakevenRests'
  <2>1. \A u \in Tasks : task'[u] = task[u] \/ task'[u].pc = "init"
    <3>1. CASE StartStrategy(t, e)
      BY <3>1, TaskTyped DEF StartStrategy, Begin, NoTask
    <3>2. CASE Restart(t, e)
      BY <3>2, RestartBegins
    <3> QED BY <1>3, <3>1, <3>2
  <2> QED BY <1>4, <1>k, <2>1
<1> QED BY <1>1, <1>2, <1>3, <1>4, CloseMoves
     DEF Next, Market, Cooling, CooldownEnds, Reconciling, StopStrategy, Listen, RestartOffline, executorVars, vars

(* "Place new BE SL FIRST (to avoid gap)": moving the stop, the checks     *)
(* that replace lost orders, and the clean-up of a restart leave an open   *)
(* position its last stop, over lost requests and crashes.                 *)
THEOREM StopKept ==
  ASSUME ~Slow, MaxStops = 0, MaxCloses = 0
  PROVE  Spec => NoStopGap
<1> DEFINE GapInv == OneExecutor /\ BreakevenRests /\ NoClosing
           Gap == Stops # {} /\ Stops' = {} /\ size' > 0 => close.pc = "cancel_all"
<1>1. Init => EntryInv /\ ActivationInv /\ GapInv
  <2>1. Init => BreakevenRests /\ NoClosing
    BY DEF Init, ExecutorInit, NoTask, NoClose, BreakevenRests, NoClosing, At
  <2> QED BY <2>1, EntryInvInit, ActivationInvInit, OneExecutorInit
<1>4. Spec => [](late = {})
  BY NeverLate
<1>s. ASSUME TypeInv, EntryInv, ActivationInv, GapInv, [Next]_vars
      PROVE  OrdersAge /\ BreakevenRests' /\ NoClosing'
  <2>1. ~ClosePosition /\ NoClosing'
    BY <1>s, NoClosingKept
  <2>2. Monitoring # {} /\ Leaving => Leaving'
    BY <1>s, StaysFlat DEF Leaving, NoClosing
  <2>3. OrdersAge
    BY <1>s, <2>1, OrdersAgeStep
  <2> QED BY <1>s, <2>1, <2>2, <2>3, BreakevenRestsStep
<1>2. TypeInv /\ EntryInv /\ ActivationInv /\ GapInv /\ (late = {})' /\ [Next]_vars
        => (EntryInv /\ ActivationInv /\ GapInv)'
  BY <1>s, EntryInvStep, ActivationInvStep, OneExecutorStep
<1>3. TypeInv /\ EntryInv /\ ActivationInv /\ GapInv /\ [Next]_vars => [Gap]_vars
  BY <1>s DEF OrdersAge, Leaving, NoClosing
<1> QED
  BY <1>1, <1>2, <1>3, <1>4, TypeInvAlways, PTL DEF Spec, NoStopGap

-----------------------------------------------------------------------------
(* The current trade and the position, as long as no request fails, no     *)
(* strategy is stopped and only the executor keeps the book: between the   *)
(* entry and its record nothing else can trade, and what closePosition     *)
(* empties stays empty until its trade is closed.                          *)
Entering == \E t \in Tasks : task[t].pc \in {"verify", "entry"}
Opening == \E t \in Tasks : task[t].pc \in {"verify", "entry", "sl", "tp", "record"}
Emptied == close.pc \in {"find", "cleanup", "cancel", "finish", "resume"}

(* One open trade at most: that of the position held, if there is one.     *)
Book ==
  /\ FlatMarks
  /\ size > 0 => \A id \in OpenTrades : ~trades[id].flat
  /\ \A id1, id2 \in OpenTrades : id1 = id2

NotStarted ==
  /\ strategy = "none" => size = 0 /\ OpenTrades = {}
  /\ \A e \in Executors : e # ticking => exec[e].status = "analyzing"
  /\ strategy = "active" /\ server # "down" => ticking # None \/ Initializing # {}

Executes ==
  \A t \in Tasks :
    /\ task[t].pc \in {"verify", "entry"} => size = 0
    /\ task[t].pc \in {"verify", "entry", "sl", "tp", "record"} => OpenTrades = {}
    /\ At(t, "opened") =>
         /\ task[t].trade # None /\ OpenTrades \subseteq {task[t].trade}
         /\ size > 0 => task[t].trade \in OpenTrades

Waits ==
  ticking # None /\ exec[ticking].status = "analyzing" /\ Executing = {} => size = 0 /\ OpenTrades = {}

Holds ==
  ticking # None /\ exec[ticking].status = "position_open" =>
    /\ exec[ticking].tradeId # None
    /\ OpenTrades \subseteq {exec[ticking].tradeId}
    /\ size > 0 => exec[ticking].tradeId \in OpenTrades

Starts ==
  \A t \in Initializing :
    /\ At(t, "init") => task[t].open = OpenTrades
    /\ At(t, "adopt") => OpenTrades = {}
    /\ server = "starting" \/ (size = 0 /\ OpenTrades = {})

Monitors ==
  \A t \in Tasks :
    /\ At(t, "derive") => size = 0
    /\ At(t, "closed") => size = 0 /\ OpenTrades = {}

Closes ==
  /\ Emptied =>
       /\ size = 0 /\ ~Entering /\ Initializing = {}
       /\ ticking # None /\ (exec[ticking].status = "analyzing" /\ Executing = {} => exec[ticking].cooling)
  /\ close.pc \in {"cleanup", "cancel", "finish"} => ~Opening /\ OpenTrades \subseteq {close.trade}
  /\ close.pc = "resume" => ~Opening /\ OpenTrades = {}
  /\ server = "starting" => close.pc = "idle"

Tracked == Book /\ NotStarted /\ Executes /\ Waits /\ Holds /\ Starts /\ Monitors /\ Closes
TrackInv == faults = 0 => Tracked

LEMMA SameBook ==
  ASSUME Book, UNCHANGED <<size, trades>>
  PROVE  Book' /\ OpenTrades' = OpenTrades
  BY DEF Book, FlatMarks, OpenTrades

LEMMA ResizeBook ==
  ASSUME LedgerTypeOK, Book, NEW n, Resize(n), n = 0 \/ OpenTrades = {}
  PROVE  Book' /\ OpenTrades' = OpenTrades
<1>1. size' = n /\ OpenTrades' = OpenTrades
  BY ResizeDoes DEF OpenTrades
<1>2. FlatMarks' /\ (n > 0 => OpenTrades' = {}) /\ n \in {0, n}
  BY <1>1, ResizeDoes DEF FlatMarks
<1> QED BY <1>1, <1>2 DEF Book

LEMMA CloseBook ==
  ASSUME LedgerTypeOK, Book, UNCHANGED size, NEW ids, CloseTrades(ids)
  PROVE  Book' /\ OpenTrades' = OpenTrades \ ids
<1>1. OpenTrades' = OpenTrades \ ids
  BY CloseTradesDoes DEF OpenTrades
<1>2. FlatMarks'
  BY CloseTradesDoes DEF FlatMarks, Book
<1>3. size > 0 => \A id \in OpenTrades' : ~trades'[id].flat
  BY <1>1, CloseTradesDoes DEF Book, OpenTrades
<1> QED BY <1>1, <1>2, <1>3 DEF Book

LEMMA UpdateBook ==
  ASSUME LedgerTypeOK, Book, UNCHANGED size, NEW i, NEW sl, NEW tp, UpdateOrderIds(i, sl, tp)
  PROVE  Book' /\ OpenTrades' = OpenTrades
  BY UpdateOrderIdsDoes DEF Book, FlatMarks, OpenTrades

LEMMA RecordBook ==
  ASSUME LedgerTypeOK, Book, UNCHANGED size, OpenTrades = {}, NEW sl \in OrderId \cup {None}, NEW tp \in OrderId \cup {None},
         RecordTrade(sl, tp)
  PROVE  Book' /\ OpenTrades' = {Len(trades')} /\ Len(trades') # None
<1> DEFINE new == Len(trades')
<1>1. /\ DOMAIN trades' = DOMAIN trades \cup {new} /\ \A x \in DOMAIN trades : trades'[x] = trades[x]
      /\ trades'[new].status = "open" /\ (trades'[new].flat <=> size = 0)
  BY RecordTradeDoes
<1>2. new # None
  BY RecordTradeAdds, LedgerAssumption DEF TradeId
<1> HIDE DEF new
<1>3. OpenTrades' = {new}
  BY <1>1 DEF OpenTrades
<1>4. FlatMarks'
  BY <1>1 DEF FlatMarks, Book
<1>5. size' > 0 => \A id \in OpenTrades' : ~trades'[id].flat
  BY <1>1, <1>3 DEF LedgerTypeOK
<1>6. Book'
  BY <1>3, <1>4, <1>5 DEF Book
<1> QED BY <1>2, <1>3, <1>6 DEF new

(* Nothing happens but in the market, or to the stops of the position.     *)
TasksGo ==
  \A u \in Tasks :
    \/ task'[u] = task[u]
    \/ /\ task[u].pc \in MonitorPc \cup {"idle"}
       /\ task'[u].pc \in (MonitorPc \ {"derive", "closed"}) \cup {"idle"}

LEMMA TrackedQuiet ==
  ASSUME Tracked, Book', OpenTrades' = OpenTrades, size' \in {size, 0}, TasksGo,
         UNCHANGED <<exec, ticking, close, server, strategy>>
  PROVE  Tracked'
<1>1. Executing' = Executing /\ Initializing' = Initializing
  BY DEF TasksGo, Executing, Initializing, ExecutePc, MonitorPc, InitPc
<1>2. \A u \in Tasks : task'[u] = task[u] \/ task'[u].pc \notin {"derive", "closed"} \cup ExecutePc \cup InitPc
  BY DEF TasksGo, ExecutePc, MonitorPc, InitPc
<1>3. NotStarted' /\ Waits' /\ Holds'
  BY <1>1 DEF Tracked, NotStarted, Waits, Holds
<1>4. Executes'
  BY <1>2 DEF Tracked, Executes, At, ExecutePc
<1>5. Starts' /\ Monitors'
  BY <1>1, <1>2 DEF Tracked, Starts, Monitors, At, Initializing, InitPc
<1>6. Closes'
  <2>1. Opening' => Opening
    BY <1>2 DEF Opening, ExecutePc
  <2>2. Entering' => Entering
    BY <1>2 DEF Entering, ExecutePc
  <2> QED BY <1>1, <2>1, <2>2 DEF Tracked, Closes, Emptied
<1> QED BY <1>3, <1>4, <1>5, <1>6 DEF Tracked

(* The activations of an executor: an executor that is monitored does not  *)
(* execute, one that starts is alone.                                      *)
LEMMA NoMix ==
  ASSUME ActivationInv, OneExecutor
  PROVE  /\ Monitoring = {} \/ Executing = {}
         /\ \A t \in Initializing : ticking = None /\ Executing = {} /\ Monitoring = {} /\ Initializing = {t}
<1>1. Monitoring = {} \/ Executing = {}
  BY DEF ActivationInv, NotBoth, OneExecutor, TradesTicking, Monitoring, Executing
<1>2. ASSUME NEW t \in Initializing
      PROVE  ticking = None /\ Executing = {} /\ Monitoring = {} /\ Initializing = {t}
  <2>1. t \in Tasks /\ task[t].pc \in InitPc /\ ticking = None /\ \A u \in Tasks : u # t => task[u].pc = "idle"
    BY <1>2 DEF OneExecutor, StartsAlone, Initializing, At
  <2> QED BY <2>1 DEF Executing, Monitoring, Initializing, ExecutePc, MonitorPc, InitPc
<1> QED BY <1>1, <1>2

(* The executor that trades is the one the ticker calls.                   *)
LEMMA ItsTicking ==
  ASSUME TypeInv, OneExecutor, NEW t \in Tasks, task[t].pc \in ExecutePc \cup MonitorPc
  PROVE  ticking = task[t].e /\ ticking \in Executors /\ ticking # None
  BY TaskTyped, KindsDiffer, ExecutorAssumption DEF OneExecutor, TradesTicking

(* checkPositionAndResume.                                                 *)
LEMMA CheckTracked ==
  ASSUME TypeInv, ActivationInv, OneExecutor, Tracked, NEW t \in Tasks, Check(t), UNCHANGED serviceVars,
         faults = 0, faults' = 0
  PROVE  Tracked'
<1>t. LedgerTypeOK /\ DOMAIN exec = Executors /\ DOMAIN task = Tasks
  BY TaskTyped DEF TypeInv
<1>m. /\ t \in Monitoring /\ Executing = {} /\ Initializing = {}
      /\ ticking = task[t].e /\ ticking \in Executors /\ ticking # None
  <2>1. task[t].pc \in MonitorPc
    BY CheckMoves DEF MonitorPc
  <2> QED BY <2>1, NoMix, ItsTicking DEF Monitoring
<1>1. CASE CheckPosition(t) /\ size > 0
  <2>1. End(t) /\ UNCHANGED <<size, trades, exec, ticking>>
    BY <1>1 DEF CheckPosition, ledgerVars
  <2>2. TasksGo
    BY <1>m, <2>1, EndEnded DEF TasksGo, Ended, Monitoring
  <2> QED BY <2>1, <2>2, SameBook, TrackedQuiet DEF Tracked, serviceVars
(* On to closeTradeHistory.                                                *)
<1>g. ASSUME NEW pc \in {"derive", "closed"}, Goto(t, pc), size = 0, UNCHANGED <<size, exec, ticking>>, Book',
             OpenTrades' \subseteq OpenTrades, pc = "closed" => OpenTrades' = {}
      PROVE  Tracked'
  <2>1. task'[t].pc = pc /\ \A u \in Tasks : u # t => task'[u] = task[u]
    BY <1>g, GotoOnward DEF Onward
  <2>2. Executing' = {} /\ Initializing' = {}
    BY <1>m, <2>1 DEF Executing, Initializing, ExecutePc, InitPc
  <2>3. NotStarted'
    BY <1>g, <1>m DEF Tracked, NotStarted, serviceVars
  <2>4. Waits' /\ Holds'
    BY <1>g, <1>m DEF Tracked, Waits, Holds, LedgerTypeOK
  <2>5. Executes' /\ Starts'
    BY <2>2 DEF Executes, Starts, Executing, ExecutePc, At
  <2>6. Monitors'
    BY <1>g, <2>1 DEF Tracked, Monitors, At
  <2>7. Closes'
    <3>1. ~Opening' /\ ~Entering'
      BY <2>2 DEF Opening, Entering, Executing, ExecutePc
    <3> QED BY <1>g, <1>m, <2>2, <3>1 DEF Tracked, Closes, Emptied, serviceVars
  <2> QED BY <1>g, <2>3, <2>4, <2>5, <2>6, <2>7 DEF Tracked
(* Back to analyzing.                                                      *)
<1>r. ASSUME Resume(t, None), size = 0, OpenTrades = {}, UNCHANGED <<size, trades, ticking>>
      PROVE  Tracked'
  <2>0. Book' /\ OpenTrades' = {}
    BY <1>r, SameBook DEF Tracked
  <2>1. \A u \in Tasks : task'[u].pc \in {task[u].pc, "idle"} /\ (task'[u].pc # "idle" => task'[u] = task[u])
    BY <1>r, EndEnded, EndedIdle DEF Resume, Ended
  <2>2. Executing' = {} /\ Initializing' = {}
    BY <1>m, <2>1, KindsDiffer DEF Executing, Initializing
  <2>3. /\ \A x \in Executors : x # ticking => exec'[x] = exec[x]
        /\ exec'[ticking].status = "analyzing" /\ exec'[ticking].cooling
    BY <1>m, <1>r, <1>t DEF Resume
  <2>4. NotStarted'
    BY <1>r, <1>m, <2>0, <2>3 DEF Tracked, NotStarted, serviceVars
  <2>5. Waits' /\ Holds' /\ Executes' /\ Starts'
    BY <1>r, <2>0, <2>2, <2>3 DEF Waits, Holds, Executes, Starts, Executing, ExecutePc, At
  <2>6. Monitors'
    BY <1>r, <2>0 DEF Monitors
  <2>7. Closes'
    <3>1. ~Opening' /\ ~Entering'
      BY <2>2 DEF Opening, Entering, Executing, ExecutePc
    <3> QED BY <1>r, <1>m, <2>0, <2>2, <2>3, <3>1 DEF Tracked, Closes, Emptied, serviceVars
  <2> QED BY <2>0, <2>4, <2>5, <2>6, <2>7 DEF Tracked
<1>2. CASE CheckPosition(t) /\ ~(size > 0)
  <2>1. CASE CurrentTrade(t) # None
    BY <1>2, <1>g, <2>1, SameBook DEF CheckPosition, ledgerVars, Tracked
  <2>2. CASE CurrentTrade(t) = None
    <3>1. exec[ticking].status = "analyzing"
      BY <1>m, <2>2 DEF ActivationInv, MonitorsHold, CurrentTrade
    <3>2. OpenTrades = {}
      BY <1>m, <3>1 DEF Tracked, Waits
    <3> QED BY <1>2, <1>r, <2>2, <3>2 DEF CheckPosition, ledgerVars
  <2> QED BY <2>1, <2>2
<1>3. CASE CloseHistory(t)
  <2>1. At(t, "derive") /\ CloseTrades({exec[ticking].tradeId}) /\ Goto(t, "closed") /\ UNCHANGED <<size, exec, ticking>>
    BY <1>3, <1>m DEF CloseHistory, CurrentTrade
  <2>2. size = 0
    BY <2>1 DEF Tracked, Monitors
  <2>3. OpenTrades \subseteq {exec[ticking].tradeId}
    BY <1>m, ExecTyped DEF Tracked, Waits, Holds
  <2>4. Book' /\ OpenTrades' = {}
    BY <1>t, <2>1, <2>3, CloseBook DEF Tracked
  <2> QED BY <1>g, <2>1, <2>2, <2>4
<1>4. CASE Closed(t)
  BY <1>4, <1>r DEF Closed, ledgerVars, Tracked, Monitors
<1>5. CASE CheckFail(t)
  BY <1>5, <1>t DEF CheckFail, Fault, LedgerTypeOK
<1> QED BY <1>1, <1>2, <1>3, <1>4, <1>5 DEF Check

(* executeTrade: one activation, with the market, the user and the crash.  *)
LEMMA ExecuteTracked ==
  ASSUME TypeInv, EntryInv, ActivationInv, OneExecutor, Tracked, NEW t \in Tasks, Execute(t), UNCHANGED serviceVars,
         faults = 0, faults' = 0
  PROVE  Tracked'
<1>t. LedgerTypeOK /\ DOMAIN exec = Executors /\ DOMAIN task = Tasks
      /\ DOMAIN task[t] = {"pc", "e", "trade", "sl", "tp", "old", "open"}
  BY TaskTyped DEF TypeInv
<1>m. /\ t \in Executing /\ Monitoring = {} /\ Initializing = {}
      /\ ticking = task[t].e /\ ticking \in Executors /\ ticking # None
      /\ exec[ticking].status = "analyzing" /\ Executing = {t}
  <2>1. task[t].pc \in ExecutePc
    BY ExecuteMoves
  <2>2. t \in Executing /\ Monitoring = {} /\ Initializing = {}
    BY <2>1, NoMix DEF Executing
  <2>3. ticking = task[t].e /\ ticking \in Executors /\ ticking # None
    BY <2>1, ItsTicking
  <2> QED BY <2>2, <2>3 DEF ActivationInv, ExecutesAnalyzing, EntryInv, OneExecution
(* On to its next request.                                                 *)
<1>g. ASSUME NEW pc \in ExecutePc, task'[t].pc = pc, \A u \in Tasks : u # t => task'[u] = task[u],
             UNCHANGED <<exec, ticking>>, Book', size' \in {0, size} \/ ~Emptied,
             pc \in {"verify", "entry"} => size' = 0 /\ ~Emptied,
             pc # "opened" => OpenTrades' = {} /\ OpenTrades = {},
             pc = "opened" =>
               /\ OpenTrades' = {task'[t].trade} /\ task'[t].trade # None
               /\ task[t].pc \in {"verify", "entry", "sl", "tp", "record"},
             task[t].pc \in {"verify", "entry"} \/ pc \notin {"verify", "entry"},
             task[t].pc \in {"verify", "entry", "sl", "tp", "record"}
      PROVE  Tracked'
  <2>1. Executing' = {t} /\ Initializing' = {}
    BY <1>g, <1>m, KindsDiffer DEF Executing, Initializing
  <2>2. Waits' /\ Holds' /\ Starts'
    BY <1>g, <1>m, <2>1 DEF Waits, Holds, Starts
  <2>3. Executes'
    BY <1>g, <1>m DEF Executes, Executing, ExecutePc, At
  <2>4. Monitors'
    BY <1>g, <1>m DEF Monitors, Monitoring, MonitorPc, ExecutePc, At
  <2>5. NotStarted'
    BY <1>g, <1>m DEF Tracked, NotStarted, OneExecutor, NeverStopped, serviceVars
  <2>6. Closes'
    <3>1. Opening
      BY <1>g DEF Opening
    <3>2. close.pc \notin {"cleanup", "cancel", "finish", "resume"}
      BY <3>1 DEF Tracked, Closes
    <3>3. Entering' => ~Emptied
      BY <1>g, <1>m DEF Entering, Executing, ExecutePc
    <3> QED BY <1>g, <1>m, <2>1, <3>2, <3>3 DEF Tracked, Closes, Emptied, serviceVars
  <2> QED BY <1>g, <2>2, <2>3, <2>4, <2>5, <2>6 DEF Tracked
(* Back to analyzing: nothing was opened, or what was is gone.             *)
<1>r. ASSUME GiveUp(t), size = 0, OpenTrades = {}, UNCHANGED <<size, trades, ticking>>
      PROVE  Tracked'
  <2>0. Book' /\ OpenTrades' = {}
    BY <1>r, SameBook DEF Tracked
  <2>1. \A u \in Tasks : task'[u].pc = "idle" \/ (u # t /\ task'[u] = task[u])
    BY <1>r, <1>m, ResumeMoves, KindsDiffer, EndedIdle DEF Ended, Executing
  <2>2. Executing' = {} /\ Initializing' = {}
    BY <1>m, <2>1, KindsDiffer DEF Executing, Initializing
  <2>3. /\ \A x \in Executors : x # ticking => exec'[x] = exec[x]
        /\ exec'[ticking].status = "analyzing" /\ exec'[ticking].cooling
    BY <1>m, <1>r, ResumeMoves, KindsDiffer DEF Executing
  <2>4. NotStarted'
    BY <1>r, <1>m, <2>0, <2>3 DEF Tracked, NotStarted, serviceVars
  <2>5. Waits' /\ Holds' /\ Executes' /\ Starts'
    BY <1>r, <2>0, <2>2, <2>3 DEF Waits, Holds, Executes, Starts, Executing, ExecutePc, At
  <2>6. Monitors'
    BY <1>r, <2>0 DEF Monitors
  <2>7. Closes'
    <3>1. ~Opening' /\ ~Entering'
      BY <2>2 DEF Opening, Entering, Executing, ExecutePc
    <3> QED BY <1>r, <1>m, <2>0, <2>2, <2>3, <3>1 DEF Tracked, Closes, Emptied, serviceVars
  <2> QED BY <2>0, <2>4, <2>5, <2>6, <2>7 DEF Tracked
<1>n. At(t, "verify") \/ At(t, "entry") => ~Emptied /\ size = 0 /\ OpenTrades = {}
  BY DEF Tracked, Closes, Executes, Entering, At
<1>1. CASE Verify(t)
  BY <1>1, <1>g, <1>n, GotoOnward, SameBook DEF Verify, Onward, ExecutePc, At, Tracked, ledgerVars
<1>2. CASE PlaceEntry(t)
  <2>1. At(t, "entry") /\ Resize(size + 1) /\ Goto(t, "sl") /\ UNCHANGED <<exec, ticking>>
    BY <1>2 DEF PlaceEntry, Buy
  <2>2. Book' /\ OpenTrades' = OpenTrades
    BY <1>n, <1>t, <2>1, ResizeBook DEF Tracked
  <2> QED BY <1>g, <1>n, <2>1, <2>2, GotoOnward DEF Onward, ExecutePc, At
<1>3. CASE PlaceStop(t) \/ PlaceTarget(t)
  <2>1. /\ UNCHANGED <<size, trades, exec, ticking>> /\ task[t].pc \in {"sl", "tp"} /\ task'[t].pc \in {"tp", "record"}
        /\ \A u \in Tasks : u # t => task'[u] = task[u]
    BY <1>3, <1>t DEF PlaceStop, PlaceTarget, At
  <2> QED BY <1>g, <2>1, SameBook DEF Tracked, Executes, ExecutePc
<1>4. CASE Record(t)
  <2>1. /\ UNCHANGED <<size, exec, ticking>> /\ At(t, "record") /\ task'[t].pc = "opened" /\ task'[t].trade = Len(trades')
        /\ \A u \in Tasks : u # t => task'[u] = task[u]
        /\ RecordTrade(task[t].sl, task[t].tp)
    BY <1>4, <1>t DEF Record
  <2>2. task[t].sl \in OrderId \cup {None} /\ task[t].tp \in OrderId \cup {None}
    BY DEF TypeInv, ExecutorInv, TaskOn, TaskRecord
  <2>3. Book' /\ OpenTrades' = {Len(trades')} /\ Len(trades') # None
    BY <1>t, <2>1, <2>2, RecordBook DEF Tracked, Executes, At
  <2> QED BY <1>g, <2>1, <2>3 DEF ExecutePc, At
<1>5. CASE Opened(t)
  <2>0. Book' /\ OpenTrades' = OpenTrades /\ UNCHANGED <<size, ticking>>
    BY <1>5, SameBook DEF Opened, ledgerVars, Tracked
  <2>1. \A u \in Tasks : task'[u].pc = "idle" \/ (u # t /\ task'[u] = task[u])
    BY <1>5, OpenedMoves, EndedIdle DEF Ended
  <2>2. Executing' = {} /\ Initializing' = {}
    BY <1>m, <2>1, KindsDiffer DEF Executing, Initializing
  <2>3. /\ \A x \in Executors : x # ticking => exec'[x] = exec[x]
        /\ exec'[ticking].status = "position_open" /\ exec'[ticking].tradeId = task[t].trade
    <3>1. exec'[ticking] = [status |-> "position_open", tradeId |-> task[t].trade, cooling |-> TRUE]
      BY <1>m, <1>5, OpenedMoves
    <3>2. \A x \in Executors : x # ticking => exec'[x] = exec[x]
      BY <1>m, <1>5, OpenedMoves
    <3> QED BY <3>1, <3>2
  <2>4. NotStarted' /\ Waits' /\ Starts' /\ Executes'
    BY <1>m, <2>0, <2>2, <2>3 DEF Tracked, NotStarted, Waits, Starts, Executes, Executing, ExecutePc, At, serviceVars
  <2>5. Holds'
    BY <1>5, <2>0, <2>3 DEF Tracked, Executes, Holds, Opened
  <2>6. Monitors'
    BY <1>m, <2>1 DEF Monitors, Monitoring, MonitorPc, At
  <2>7. Closes'
    <3>1. ~Opening' /\ ~Entering'
      BY <2>2 DEF Opening, Entering, Executing, ExecutePc
    <3> QED BY <1>m, <2>0, <2>2, <2>3, <3>1 DEF Tracked, Closes, Emptied, serviceVars
  <2> QED BY <2>0, <2>4, <2>5, <2>6, <2>7 DEF Tracked
<1>6. CASE Refuse(t)
  BY <1>6, <1>n DEF Refuse
<1>7. CASE ReduceOnlyRefused(t)
  BY <1>7, <1>r DEF ReduceOnlyRefused, ledgerVars, Tracked, Executes
<1>8. CASE ExecuteFail(t)
  BY <1>8, <1>t DEF ExecuteFail, Fault, LedgerTypeOK
<1> QED BY <1>1, <1>2, <1>3, <1>4, <1>5, <1>6, <1>7, <1>8 DEF Execute

LEMMA LatestOnly == ASSUME NEW id, id \in Nat PROVE Latest({id}) = id
  BY DEF Latest

(* reconcileStateOnStartup: the executor is the only one at work.          *)
LEMMA InitializeTracked ==
  ASSUME TypeInv, ActivationInv, OneExecutor, Tracked, NEW t \in Tasks, Initialize(t), UNCHANGED serviceVars,
         faults = 0, faults' = 0
  PROVE  Tracked'
<1>t. LedgerTypeOK /\ DOMAIN exec = Executors /\ DOMAIN task = Tasks /\ OpenTrades \subseteq Nat
  BY LenProperties, TaskTyped DEF TypeInv, LedgerTypeOK, OpenTrades
<1>m. /\ t \in Initializing /\ ticking = None /\ Executing = {} /\ Monitoring = {} /\ Initializing = {t}
      /\ task[t].e \in Executors /\ task[t].e # None /\ task[t].pc # "idle" /\ strategy # "none"
  <2>1. t \in Initializing
    BY InitializeMoves DEF Initializing
  <2> QED BY <2>1, NoMix, TaskTyped, KindsDiffer, ExecutorAssumption DEF Initializing, OneExecutor, NeverStopped, At
<1>c. ~Emptied
  BY <1>m DEF Tracked, Closes
(* It subscribes, with or without a trade.                                 *)
<1>s. ASSUME NEW status, NEW id, Subscribe(t, status, id), Book', UNCHANGED size,
             status = "analyzing" => size = 0 /\ OpenTrades' = {},
             status = "position_open" => id # None /\ OpenTrades' = {id},
             status \in {"analyzing", "position_open"}
      PROVE  Tracked'
  <2>1. \A u \in Tasks : task'[u].pc = "idle"
    <3>1. \A u \in Tasks : u # t => task[u].pc = "idle"
      BY <1>m DEF OneExecutor, StartsAlone, Initializing, At
    <3>2. Ended(t)
      BY <1>m, <1>s, SubscribeMoves
    <3> QED BY <3>1, <3>2, EndedIdle DEF Ended
  <2>2. Executing' = {} /\ Initializing' = {}
    BY <2>1, KindsDiffer DEF Executing, Initializing
  <2>3. /\ ticking' = task[t].e /\ \A x \in Executors : x # ticking' => exec'[x] = exec[x]
        /\ exec'[ticking'] = [exec[ticking'] EXCEPT !.status = status, !.tradeId = id]
    <3> DEFINE e == task[t].e
    <3>1. /\ ticking' = e /\ \A x \in Executors : x # e => exec'[x] = exec[x]
          /\ exec'[e] = [exec[e] EXCEPT !.status = status, !.tradeId = id]
      BY <1>m, <1>s, SubscribeMoves
    <3> HIDE DEF e
    <3> QED BY <3>1 DEF e
  <2>4. exec'[ticking'].status = status /\ exec'[ticking'].tradeId = id
    BY <1>m, <2>3, ExecTyped
  <2>5. NotStarted'
    <3>1. \A e \in Executors : e # ticking' => exec'[e].status = "analyzing"
      BY <1>m, <2>3, ExecutorAssumption DEF Tracked, NotStarted
    <3>2. ticking' # None /\ UNCHANGED <<strategy, server>>
      BY <1>m, <2>3 DEF serviceVars
    <3> QED BY <1>m, <3>1, <3>2 DEF NotStarted
  <2>6. Waits' /\ Holds'
    BY <1>s, <2>4 DEF Waits, Holds
  <2>7. Executes' /\ Starts' /\ Monitors'
    BY <2>1, <2>2 DEF Executes, Starts, Monitors, At
  <2>8. Closes'
    BY <1>c, <1>m DEF Tracked, Closes, Emptied, serviceVars
  <2> QED BY <1>s, <2>5, <2>6, <2>7, <2>8 DEF Tracked
<1>1. CASE ReconcileFlat(t)
  <2>1. size = 0 /\ CloseTrades(OpenTrades) /\ UNCHANGED size /\ Subscribe(t, "analyzing", None)
    BY <1>1, <1>m DEF ReconcileFlat, Tracked, Starts
  <2>2. Book' /\ OpenTrades' = {}
    BY <1>t, <2>1, CloseBook DEF Tracked
  <2> QED BY <1>s, <2>1, <2>2
<1>2. CASE ReconcileTracked(t)
  <2>1. UNCHANGED <<size, trades>> /\ OpenTrades # {} /\ Subscribe(t, "position_open", Latest(OpenTrades))
    BY <1>2, <1>m DEF ReconcileTracked, Tracked, Starts, ledgerVars
  <2>2. PICK id \in OpenTrades : OpenTrades = {id}
    BY <2>1 DEF Tracked, Book
  <2>3. Latest(OpenTrades) = id /\ id \in Nat
    BY <1>t, <2>2, LatestOnly
  <2>4. Book' /\ OpenTrades' = {id} /\ id # None
    BY <2>1, <2>2, <2>3, SameBook, LedgerAssumption DEF Tracked
  <2>5. Subscribe(t, "position_open", id) /\ UNCHANGED size
    BY <2>1, <2>3
  <2> QED BY <1>s, <2>4, <2>5
<1>3. CASE ReconcileOrphan(t)
  <2>1. /\ task'[t].pc = "adopt" /\ \A u \in Tasks : u # t => task'[u] = task[u]
        /\ UNCHANGED <<size, trades, exec, ticking>> /\ size > 0 /\ OpenTrades = {}
    BY <1>3, <1>m, GotoOnward DEF ReconcileOrphan, Tracked, Starts, ledgerVars, Onward
  <2>2. Book' /\ OpenTrades' = {}
    BY <2>1, SameBook DEF Tracked
  <2>3. Executing' = {} /\ Initializing' = {t} /\ Monitoring' = {}
    BY <1>m, <2>1 DEF Executing, Initializing, Monitoring, ExecutePc, InitPc, MonitorPc
  <2>4. NotStarted' /\ Waits' /\ Holds' /\ Closes'
    BY <1>m, <1>c, <2>1, <2>3 DEF Tracked, NotStarted, Waits, Holds, Closes, Emptied, serviceVars
  <2>5. Executes' /\ Monitors'
    BY <2>3 DEF Executes, Monitors, Executing, Monitoring, ExecutePc, MonitorPc, At
  <2>6. Starts'
    BY <1>m, <2>1, <2>2, <2>3 DEF Tracked, Starts, At, serviceVars
  <2> QED BY <2>2, <2>4, <2>5, <2>6 DEF Tracked
<1>4. CASE Adopt(t)
  <2>1. PICK sl \in FirstOrNone(Stops), tp \in FirstOrNone(OpenOrders \ Stops) : RecordTrade(sl, tp)
    BY <1>4 DEF Adopt
  <2>2. sl \in OrderId \cup {None} /\ tp \in OrderId \cup {None}
    BY <1>t, LenProperties DEF FirstOrNone, Stops, OpenOrders, LedgerTypeOK, OrderId
  <2>3. OpenTrades = {} /\ UNCHANGED size /\ Subscribe(t, "position_open", Len(trades'))
    BY <1>4, <1>m DEF Adopt, Tracked, Starts
  <2>4. Book' /\ OpenTrades' = {Len(trades')} /\ Len(trades') # None
    BY <1>t, <2>1, <2>2, <2>3, RecordBook DEF Tracked
  <2> QED BY <1>s, <2>3, <2>4
<1>5. CASE InitFail(t)
  BY <1>5, <1>t DEF InitFail, Fault, LedgerTypeOK
<1> QED BY <1>1, <1>2, <1>3, <1>4, <1>5 DEF Initialize

LEMMA AdjustTracked ==
  ASSUME TypeInv, Tracked, NEW t \in Tasks, AdjustStops(t), UNCHANGED serviceVars
  PROVE  Tracked'
<1>1. /\ UNCHANGED <<exec, ticking, size>> /\ task[t].pc \in MonitorPc
      /\ task'[t].pc \in {"place", "cancel", "update", "check"} /\ \A u \in Tasks : u # t => task'[u] = task[u]
  BY AdjustMoves DEF Onward
<1>2. TasksGo
  BY <1>1 DEF TasksGo, MonitorPc
<1>3. Book' /\ OpenTrades' = OpenTrades
  <2>1. CASE UpdateIds(t)
    BY <2>1, UpdateBook DEF UpdateIds, TypeInv, Tracked
  <2>2. CASE ~UpdateIds(t)
    BY <2>2, SameBook DEF AdjustStops, AdjustSkip, AdjustDecide, PlaceBreakeven, CancelOld, AdjustFail, ledgerVars, Tracked
  <2> QED BY <2>1, <2>2
<1> QED BY <1>1, <1>2, <1>3, TrackedQuiet DEF serviceVars

LEMMA TickTracked ==
  ASSUME TypeInv, ActivationInv, OneExecutor, Tracked, NEW t \in Tasks, Tick(t), UNCHANGED serviceVars,
         TickSignal(t) => Executing = {}
  PROVE  Tracked'
<1>0. /\ UNCHANGED <<size, trades, ticking>> /\ At(t, "idle") /\ ticking # None /\ ticking \in Executors
      /\ DOMAIN task = Tasks
  BY TaskTyped DEF Tick, TickSignal, TickMonitor, ledgerVars, TypeInv, ExecutorInv
<1>b. Book' /\ OpenTrades' = OpenTrades
  BY <1>0, SameBook DEF Tracked
<1>1. CASE TickSignal(t)
  <2>1. /\ exec[ticking].status = "analyzing" /\ ~exec[ticking].cooling /\ Executing = {} /\ UNCHANGED exec
        /\ task'[t].pc = "verify" /\ \A u \in Tasks : u # t => task'[u] = task[u]
    BY <1>0, <1>1 DEF TickSignal, NoTask
  <2>2. size = 0 /\ OpenTrades = {} /\ ~Emptied
    BY <1>0, <2>1 DEF Tracked, Waits, Closes
  <2>3. Executing' = {t} /\ Initializing' = Initializing
    BY <1>0, <2>1 DEF Executing, Initializing, ExecutePc, InitPc, At
  <2>4. NotStarted' /\ Waits' /\ Holds' /\ Closes'
    BY <1>0, <1>b, <2>1, <2>2, <2>3 DEF Tracked, NotStarted, Waits, Holds, Closes, Emptied, serviceVars
  <2>5. Executes' /\ Monitors'
    BY <1>0, <1>b, <2>1, <2>2 DEF Tracked, Executes, Monitors, At
  <2>6. Starts'
    BY <1>0, <1>b, <2>1, <2>3 DEF Tracked, Starts, At, Initializing, InitPc, serviceVars
  <2> QED BY <1>b, <2>4, <2>5, <2>6 DEF Tracked
<1>2. CASE TickMonitor(t)
  <2>1. exec[ticking].tradeId # None
    BY <1>0, <1>2 DEF TickMonitor, Tracked, Holds
  <2>2. UNCHANGED exec /\ task'[t].pc \in {"adjust", "check"} /\ \A u \in Tasks : u # t => task'[u] = task[u]
    BY <1>0, <1>2, <2>1 DEF TickMonitor, NoTask
  <2>3. TasksGo
    BY <1>0, <2>2 DEF TasksGo, MonitorPc, At
  <2> QED BY <1>0, <1>b, <2>2, <2>3, TrackedQuiet DEF serviceVars
<1> QED BY <1>1, <1>2 DEF Tick

(* closePosition: once the position is closed at market, nothing enters    *)
(* until its trade is closed too.                                          *)
LEMMA CloseTracked ==
  ASSUME TypeInv, ActivationInv, OneExecutor, Tracked, ClosePosition, faults = 0, faults' = 0
  PROVE  Tracked'
<1>t. LedgerTypeOK /\ UNCHANGED <<task, ticking, server>> /\ OpenTrades \subseteq Nat
      /\ Executing' = Executing /\ Initializing' = Initializing /\ (Entering' <=> Entering) /\ (Opening' <=> Opening)
  BY CloseMoves, LenProperties DEF TypeInv, LedgerTypeOK, OpenTrades, Executing, Initializing, Entering, Opening
<1>f. ~CloseFail
  BY <1>t DEF CloseFail, Fault, LedgerTypeOK
<1>u. close.pc # "idle" => server = "up"
  BY DEF Tracked, Closes, ActivationInv, DownIsIdle, TypeInv, ServiceInv
<1>d. close \in [pc: {"idle", "cancel_all", "close", "find", "cleanup", "cancel", "finish",
                     "resume"},
                seen: SUBSET OrderId, trade: TradeId \cup {None}]
  BY DEF TypeInv, ServiceInv
(* The close goes on, and leaves the executor alone.                       *)
<1>k. ASSUME UNCHANGED exec, strategy' = strategy, Book', size' \in {0, size}, OpenTrades' \subseteq OpenTrades,
             OpenTrades' = OpenTrades \/ (OpenTrades' = {} /\ Emptied), Closes'
      PROVE  Tracked'
  <2>1. NotStarted' /\ Waits' /\ Holds'
    BY <1>t, <1>k DEF Tracked, NotStarted, Waits, Holds, Closes, LedgerTypeOK
  <2>2. Executes' /\ Monitors'
    BY <1>t, <1>k DEF Tracked, Executes, Monitors, Closes, At, LedgerTypeOK
  <2>3. Starts'
    BY <1>t, <1>k DEF Tracked, Starts, Closes, At
  <2> QED BY <1>k, <2>1, <2>2, <2>3 DEF Tracked
<1>g. ASSUME NEW pc, CloseGoto(pc) PROVE close'.pc = pc /\ close'.trade = close.trade
  BY <1>d, <1>g DEF CloseGoto
<1>1. CASE CloseRequest \/ CloseCancelAll
  <2>1. UNCHANGED <<exec, strategy, size, trades>> /\ close'.pc \in {"cancel_all", "close"} /\ server = "up"
    BY <1>1, <1>g, <1>u DEF CloseRequest, CloseCancelAll, ledgerVars, executorVars
  <2>2. Book' /\ OpenTrades' = OpenTrades
    BY <2>1, SameBook DEF Tracked
  <2>3. Closes'
    BY <1>t, <2>1 DEF Closes, Emptied
  <2> QED BY <1>k, <2>1, <2>2, <2>3
<1>2. CASE CloseMarket
  <2>1. /\ close.pc = "close" /\ size > 0 /\ Resize(0) /\ close'.pc = "find" /\ UNCHANGED <<exec, strategy>>
        /\ server = "up"
    BY <1>2, <1>g, <1>u DEF CloseMarket, executorVars
  <2>2. Book' /\ OpenTrades' = OpenTrades /\ size' = 0
    BY <1>t, <2>1, ResizeBook DEF Tracked, Resize
  <2>3. ~Entering /\ Initializing = {} /\ size # 0
    BY <1>t, <2>1 DEF Tracked, Executes, Starts, Entering, LedgerTypeOK
  <2>4. strategy = "active"
    BY <2>1, <2>3 DEF Tracked, NotStarted, OneExecutor, NeverStopped, TypeInv, ServiceInv
  <2>5. ticking # None /\ ~(exec[ticking].status = "analyzing" /\ Executing = {})
    BY <2>1, <2>3, <2>4 DEF Tracked, NotStarted, Waits
  <2>6. Closes'
    BY <1>t, <2>1, <2>2, <2>3, <2>5 DEF Closes, Emptied
  <2> QED BY <1>k, <2>1, <2>2, <2>6
<1>3. CASE CloseNothing \/ (CloseFind /\ OpenTrades = {})
  <2>1. UNCHANGED <<exec, strategy, size, trades>> /\ close'.pc = "idle"
    BY <1>3 DEF CloseNothing, CloseFind, NoClose, ledgerVars, executorVars
  <2>2. Book' /\ OpenTrades' = OpenTrades
    BY <2>1, SameBook DEF Tracked
  <2>3. Closes'
    BY <2>1 DEF Closes, Emptied
  <2> QED BY <1>k, <2>1, <2>2, <2>3
<1>4. CASE CloseFind /\ OpenTrades # {}
  <2>1. /\ UNCHANGED <<exec, strategy, size, trades>> /\ close.pc = "find" /\ server = "up"
        /\ close'.pc = "cleanup" /\ close'.trade = Latest(OpenTrades)
    BY <1>4, <1>u DEF CloseFind, ledgerVars, executorVars
  <2>2. PICK id \in OpenTrades : OpenTrades = {id}
    BY <1>4 DEF Tracked, Book
  <2>3. Latest(OpenTrades) = id
    BY <1>t, <2>2, LatestOnly
  <2>4. Book' /\ OpenTrades' = OpenTrades
    BY <2>1, SameBook DEF Tracked
  <2>5. ~Opening
    BY <1>4 DEF Tracked, Executes, Opening
  <2>6. Closes'
    BY <1>t, <2>1, <2>2, <2>3, <2>4, <2>5 DEF Tracked, Closes, Emptied
  <2> QED BY <1>k, <2>1, <2>4, <2>6
<1>5. CASE CloseSeeOrders \/ CloseCancel
  <2>1. /\ UNCHANGED <<exec, strategy, size, trades>> /\ close.pc \in {"cleanup", "cancel"} /\ server = "up"
        /\ close'.pc \in {"cancel", "finish"} /\ close'.trade = close.trade
    BY <1>5, <1>d, <1>g, <1>u DEF CloseSeeOrders, CloseCancel, ledgerVars, executorVars
  <2>2. Book' /\ OpenTrades' = OpenTrades
    BY <2>1, SameBook DEF Tracked
  <2>3. Closes'
    BY <1>t, <2>1, <2>2 DEF Tracked, Closes, Emptied
  <2> QED BY <1>k, <2>1, <2>2, <2>3
<1>6. CASE CloseFinish
  <2>1. /\ UNCHANGED <<exec, strategy, size>> /\ CloseTrades({close.trade}) /\ close.pc = "finish" /\ server = "up"
        /\ close'.pc = "resume"
    BY <1>6, <1>g, <1>u DEF CloseFinish, executorVars
  <2>2. OpenTrades \subseteq {close.trade} /\ size = 0 /\ ~Opening
    BY <2>1 DEF Tracked, Closes, Emptied
  <2>3. Book' /\ OpenTrades' = {}
    BY <1>t, <2>1, <2>2, CloseBook DEF Tracked
  <2>4. Closes' /\ Emptied
    BY <1>t, <2>1, <2>2, <2>3 DEF Tracked, Closes, Emptied
  <2> QED BY <1>k, <2>1, <2>2, <2>3, <2>4
(* Every executor resumes: there is no position and no open trade.         *)
<1>7. CASE CloseResume
  <2>1. /\ close.pc = "resume" /\ ForceResume /\ close'.pc = "idle" /\ UNCHANGED <<size, trades>> /\ strategy' = strategy
    BY <1>7 DEF CloseResume, NoClose, ledgerVars, Reactivated, OneExecutor, NeverStopped
  <2>2. size = 0 /\ OpenTrades = {} /\ Initializing = {}
    BY <2>1 DEF Tracked, Closes, Emptied
  <2>3. Book' /\ OpenTrades' = {}
    BY <2>1, <2>2, SameBook DEF Tracked
  <2>4. \A x \in Executors : exec'[x].status = "analyzing"
    BY <2>1 DEF ForceResume
  <2>5. ticking' # None => exec'[ticking'].status = "analyzing"
    BY <1>t, <2>4 DEF TypeInv, ExecutorInv
  <2>6. NotStarted' /\ Waits' /\ Holds'
    BY <1>t, <2>1, <2>2, <2>3, <2>4, <2>5 DEF Tracked, NotStarted, Waits, Holds
  <2>7. Executes' /\ Monitors' /\ Starts' /\ Closes'
    BY <1>t, <2>1, <2>2, <2>3 DEF Tracked, Executes, Monitors, Starts, Closes, Emptied, At
  <2> QED BY <2>3, <2>6, <2>7 DEF Tracked
<1> QED BY <1>1, <1>2, <1>3, <1>4, <1>5, <1>6, <1>7, <1>f DEF ClosePosition

(* A strategy starts, the server starts again, or dies.                    *)
LEMMA BeginTracked ==
  ASSUME TypeInv, ActivationInv, OneExecutor, Tracked, Book', UNCHANGED <<size, ticking, close>>,
         NEW t \in Tasks, NEW e \in Executors, ticking = None, \A u \in Tasks : At(u, "idle"),
         task'[t].pc = "init", task'[t].open = OpenTrades', \A u \in Tasks : u # t => task'[u] = task[u],
         exec'[e] = NewExecutor, \A x \in Executors : x # e => exec'[x] = exec[x],
         strategy' = "active",
         \/ server' = "starting" /\ close.pc = "idle"
         \/ server' = "up" /\ size = 0 /\ OpenTrades' = {}
  PROVE  Tracked'
<1>1. ~Emptied /\ Executing' = {} /\ Initializing' = {t} /\ Monitoring' = {}
  BY DEF Tracked, Closes, Executing, Initializing, Monitoring, ExecutePc, InitPc, MonitorPc, At
<1>2. \A x \in Executors : exec'[x].status = "analyzing"
  BY ExecutorAssumption DEF Tracked, NotStarted, NewExecutor
<1>3. NotStarted' /\ Waits' /\ Holds'
  BY <1>1, <1>2 DEF NotStarted, Waits, Holds
<1>4. Executes' /\ Monitors' /\ Starts'
  BY <1>1 DEF Executes, Monitors, Starts, Executing, Monitoring, ExecutePc, MonitorPc, At
<1>5. Closes'
  BY <1>1 DEF Closes, Emptied
<1> QED BY <1>3, <1>4, <1>5 DEF Tracked

LEMMA LifeTracked ==
  ASSUME TypeInv, ActivationInv, OneExecutor, Tracked, faults = 0, faults' = 0,
         \/ \E t \in Tasks, e \in Executors : StartStrategy(t, e) \/ Restart(t, e)
         \/ Crash \/ Listen
  PROVE  Tracked'
<1>t. LedgerTypeOK /\ DOMAIN exec = Executors /\ DOMAIN task = Tasks
  BY DEF TypeInv, ExecutorInv
<1>1. ASSUME NEW t \in Tasks, NEW e \in Executors, StartStrategy(t, e) PROVE Tracked'
  <2>1. /\ UNCHANGED <<size, trades, ticking, close>> /\ strategy = "none" /\ strategy' = "active" /\ server' = "up"
        /\ task'[t].pc = "init" /\ task'[t].open = OpenTrades /\ \A u \in Tasks : u # t => task'[u] = task[u]
        /\ exec'[e] = NewExecutor /\ \A x \in Executors : x # e => exec'[x] = exec[x]
    BY <1>1, <1>t DEF StartStrategy, Begin, NoTask, ledgerVars
  <2>2. ticking = None /\ size = 0 /\ OpenTrades = {} /\ \A u \in Tasks : At(u, "idle")
    BY <2>1 DEF OneExecutor, NeverStopped, Tracked, NotStarted
  <2>3. Book' /\ OpenTrades' = OpenTrades
    BY <2>1, SameBook DEF Tracked
  <2> QED BY <2>1, <2>2, <2>3, BeginTracked
<1>2. ASSUME NEW t \in Tasks, NEW e \in Executors, Restart(t, e) PROVE Tracked'
  <2>0. server = "down" /\ server' = "starting" /\ UNCHANGED <<size, ticking, close>>
    BY <1>2 DEF Restart
  <2>1. ticking = None /\ close.pc = "idle" /\ \A u \in Tasks : At(u, "idle")
    BY <2>0 DEF ActivationInv, DownIsIdle
  <2>2. /\ CloseTrades(Ghosts) /\ strategy' = strategy
        /\ IF strategy = "active"
             THEN /\ exec' = [exec EXCEPT ![e] = NewExecutor]
                  /\ task' = [task EXCEPT ![t] = [NoTask EXCEPT !.pc = "init", !.e = e, !.open = OpenTrades \ Ghosts]]
             ELSE UNCHANGED <<exec, task>>
    <3>1. PICK closed \in SUBSET Ghosts, cancelled \in SUBSET OpenOrders :
             /\ IF closed = Ghosts /\ cancelled = (IF Ghosts = {} THEN {} ELSE OpenOrders)
                  THEN UNCHANGED faults
                  ELSE Ghosts # {} /\ Fault
             /\ CloseTrades(closed)
             /\ strategy' = IF closed = {} THEN strategy ELSE Reactivated
             /\ IF strategy' = "active"
                  THEN /\ exec' = [exec EXCEPT ![e] = NewExecutor]
                       /\ task' = [task EXCEPT ![t] = [NoTask EXCEPT !.pc = "init", !.e = e,
                                                        !.open = OpenTrades \ closed]]
                  ELSE UNCHANGED <<exec, task>>
      BY <1>2 DEF Restart
    <3>2. closed = Ghosts
      BY <1>t, <3>1 DEF Fault, LedgerTypeOK
    <3>3. strategy' = strategy
      BY <3>1 DEF Reactivated, OneExecutor, NeverStopped
    <3> QED BY <3>1, <3>2, <3>3
  <2>3. Book' /\ OpenTrades' = OpenTrades \ Ghosts
    BY <1>t, <2>0, <2>2, CloseBook DEF Tracked
  <2>4. CASE strategy = "active"
    <3>1. /\ exec'[e] = NewExecutor /\ \A x \in Executors : x # e => exec'[x] = exec[x]
          /\ task'[t].pc = "init" /\ task'[t].open = OpenTrades \ Ghosts /\ \A u \in Tasks : u # t => task'[u] = task[u]
      BY <1>t, <2>2, <2>4 DEF NoTask
    <3> QED BY <2>0, <2>1, <2>2, <2>3, <2>4, <3>1, BeginTracked
  <2>5. CASE strategy # "active"
    <3>1. UNCHANGED <<exec, task, strategy>> /\ strategy = "none"
      BY <2>2, <2>5 DEF OneExecutor, NeverStopped, TypeInv, ServiceInv
    <3>2. Executing' = {} /\ Initializing' = {}
      BY <2>1, <3>1, KindsDiffer DEF Executing, Initializing, At
    <3>3. NotStarted' /\ Waits' /\ Holds' /\ Closes'
      BY <2>0, <2>1, <2>3, <3>1 DEF Tracked, NotStarted, Waits, Holds, Closes, Emptied
    <3>4. Executes' /\ Monitors' /\ Starts'
      BY <2>1, <3>1, <3>2 DEF Executes, Monitors, Starts, At
    <3> QED BY <2>3, <3>3, <3>4 DEF Tracked
  <2> QED BY <2>4, <2>5
<1>3. CASE Crash
  <2>1. /\ UNCHANGED <<size, trades, strategy>> /\ ticking' = None /\ server' = "down" /\ close'.pc = "idle"
        /\ \A u \in Tasks : task'[u].pc = "idle"
        /\ \A x \in Executors : exec'[x].status = "analyzing"
    BY <1>3 DEF Crash, NoTask, NoClose, NewExecutor, ledgerVars
  <2>2. Book' /\ OpenTrades' = OpenTrades
    BY <2>1, SameBook DEF Tracked
  <2>3. Initializing' = {}
    BY <2>1, KindsDiffer DEF Initializing
  <2>4. NotStarted' /\ Waits' /\ Holds' /\ Closes'
    BY <2>1, <2>2 DEF Tracked, NotStarted, Waits, Holds, Closes, Emptied
  <2>5. Executes' /\ Monitors' /\ Starts'
    BY <2>1, <2>3 DEF Executes, Monitors, Starts, At
  <2> QED BY <2>2, <2>4, <2>5 DEF Tracked
<1>4. CASE Listen
  <2>1. /\ UNCHANGED <<size, trades, exec, ticking, task, strategy, close>> /\ server = "starting" /\ server' = "up"
        /\ Initializing = {}
    BY <1>4 DEF Listen, ledgerVars, executorVars, Initializing
  <2>2. Book' /\ OpenTrades' = OpenTrades /\ Executing' = Executing /\ Initializing' = {}
    BY <2>1, SameBook DEF Tracked, Executing, Initializing
  <2>3. NotStarted' /\ Waits' /\ Holds' /\ Closes'
    BY <2>1, <2>2 DEF Tracked, NotStarted, Waits, Holds, Closes, Emptied
  <2>4. Executes' /\ Monitors' /\ Starts'
    BY <2>1, <2>2 DEF Tracked, Executes, Monitors, Starts, At
  <2> QED BY <2>2, <2>3, <2>4 DEF Tracked
<1> QED BY <1>1, <1>2, <1>3, <1>4

LEMMA FaultsGrow ==
  ASSUME TypeInv, [Next]_vars, faults' = 0
  PROVE  faults = 0
<1>0. faults \in Nat
  BY DEF TypeInv, LedgerTypeOK
<1>1. CASE UNCHANGED faults \/ Fault
  BY <1>0, <1>1 DEF Fault
<1>2. CASE Market
  BY <1>1, <1>2 DEF Market, Fill
<1>3. CASE Ticking
  <2>1. ASSUME NEW t \in Tasks, TaskStep(t) PROVE faults = 0
    <3>1. CASE Execute(t)
      BY <1>1, <3>1 DEF Execute, Verify, Refuse, PlaceEntry, PlaceStop, PlaceTarget, Record, Opened, ExecuteFail,
                        ReduceOnlyRefused, ledgerVars
    <3>2. CASE AdjustStops(t)
      BY <1>1, <3>2 DEF AdjustStops, AdjustSkip, AdjustDecide, PlaceBreakeven, CancelOld, UpdateIds, AdjustFail, ledgerVars
    <3>3. CASE Check(t) \/ Initialize(t)
      BY <1>1, <3>3 DEF Check, CheckPosition, CloseHistory, Closed, CheckFail, Initialize, ReconcileFlat, ReconcileTracked,
                        ReconcileOrphan, Adopt, InitFail, ledgerVars
    <3> QED BY <2>1, <3>1, <3>2, <3>3 DEF TaskStep
  <2> QED BY <1>1, <1>3, <2>1 DEF Ticking, ExecutorNext, TickAnalyze, Tick, TickSignal, TickMonitor, ledgerVars
<1>4. CASE Reconciling
  BY <1>1, <1>4 DEF Reconciling, ReconciliationNext, CheckStep, StartCheck, Positions, CloseOrphan,
         VerifyOrders, ClosePastStop, Repair, ReplaceStop, SaveStop, ReplaceTarget, SaveTarget,
         ReverseOrphan, RunCheckFail, VerifyFail, ReplaceFail, ledgerVars
<1>5. CASE ClosePosition
  BY <1>1, <1>5 DEF ClosePosition, CloseRequest, CloseCancelAll, CloseMarket, CloseNothing, CloseFind, CloseSeeOrders,
                CloseCancel, CloseFinish, CloseResume, CloseFail, ledgerVars
<1>6. ASSUME NEW t \in Tasks, NEW e \in Executors, StartStrategy(t, e) \/ Restart(t, e) PROVE faults = 0
  BY <1>1, <1>6 DEF StartStrategy, Restart, ledgerVars
<1> QED BY <1>1, <1>2, <1>3, <1>4, <1>5, <1>6
     DEF Next, Cooling, CooldownEnds, StopStrategy, Crash, Listen, RestartOffline, ledgerVars, vars

LEMMA TrackInvStep ==
  ASSUME TypeInv, EntryInv, ActivationInv, OneExecutor, TrackInv, late' = {}, MaxStops = 0, Checks = {}, [Next]_vars
  PROVE  TrackInv'
<1> SUFFICES ASSUME faults' = 0 PROVE Tracked'
  BY DEF TrackInv
<1>f. faults = 0 /\ Tracked /\ LedgerTypeOK
  BY FaultsGrow DEF TrackInv, TypeInv
<1>q. ASSUME Book', OpenTrades' = OpenTrades, size' \in {size, 0},
             UNCHANGED <<task, exec, ticking, close, server, strategy>>
      PROVE  Tracked'
  BY <1>f, <1>q, TrackedQuiet DEF TasksGo
<1>1. CASE Market
  <2>1. PICK o \in OpenOrders : Fill(o)
    BY <1>1 DEF Market
  <2>2. Book' /\ OpenTrades' = OpenTrades /\ size' \in {size, 0}
    <3>1. CASE size > 0
      <4>1. Resize(0)
        <5>1. size - 1 = 0
          BY <1>f, <3>1 DEF EntryInv, Single, LedgerTypeOK
        <5> QED BY <2>1, <3>1, <5>1 DEF Fill
      <4> QED BY <1>f, <4>1, ResizeBook DEF Tracked, Resize
    <3>2. CASE ~(size > 0)
      BY <1>f, <2>1, <3>2, SameBook DEF Fill, Tracked
    <3> QED BY <3>1, <3>2
  <2> QED BY <1>1, <1>q, <2>2 DEF Market, executorVars, serviceVars
<1>2. CASE Ticking
  <2>0. UNCHANGED serviceVars
    BY <1>2 DEF Ticking
  <2>1. CASE TickAnalyze
    <3>1. UNCHANGED exec
      <4>1. exec[ticking].status = "analyzing" /\ exec' = [exec EXCEPT ![ticking].status = "analyzing"] /\ ticking \in Executors
        BY <2>1 DEF TickAnalyze, TypeInv, ExecutorInv
      <4>2. [exec[ticking] EXCEPT !.status = "analyzing"] = exec[ticking]
        BY <4>1 DEF TypeInv, ExecutorInv, ExecutorOn, Executor
      <4> QED BY <4>1, <4>2 DEF TypeInv, ExecutorInv
    <3> QED BY <1>f, <1>q, <2>0, <2>1, <3>1, SameBook DEF TickAnalyze, Tracked, ledgerVars, serviceVars
  <2>2. ASSUME NEW t \in Tasks, Tick(t) \/ TaskStep(t) PROVE Tracked'
    BY <1>2, <1>f, <2>0, <2>2, AloneUnlessLate, TickTracked, ExecuteTracked, AdjustTracked, CheckTracked, InitializeTracked DEF TaskStep
  <2> QED BY <1>2, <2>1, <2>2 DEF Ticking, ExecutorNext
<1>3. CASE Cooling
  <2>1. /\ UNCHANGED <<size, trades, ticking, task, close, server, strategy>> /\ close.pc = "idle"
        /\ exec' = [exec EXCEPT ![ticking].cooling = FALSE]
    BY <1>3 DEF Cooling, CooldownEnds, InFlight, ledgerVars, serviceVars
  <2>2. Book' /\ OpenTrades' = OpenTrades /\ Executing' = Executing /\ Initializing' = Initializing
    BY <1>f, <2>1, SameBook DEF Tracked, Executing, Initializing
  <2>3. \A x \in Executors : exec'[x].status = exec[x].status /\ exec'[x].tradeId = exec[x].tradeId
    <3>1. ASSUME NEW x \in Executors PROVE exec'[x].status = exec[x].status /\ exec'[x].tradeId = exec[x].tradeId
      <4>1. DOMAIN exec = Executors /\ DOMAIN exec[x] = {"status", "tradeId", "cooling"}
        BY ExecTyped DEF TypeInv, ExecutorInv
      <4> QED BY <2>1, <4>1
    <3> QED BY <3>1
  <2>4. ticking # None => ticking \in Executors
    BY DEF TypeInv, ExecutorInv
  <2>5. NotStarted' /\ Waits' /\ Holds'
    BY <1>f, <2>1, <2>2, <2>3, <2>4 DEF Tracked, NotStarted, Waits, Holds
  <2>6. Executes' /\ Starts' /\ Monitors' /\ Closes'
    BY <1>f, <2>1, <2>2 DEF Tracked, Executes, Starts, Monitors, Closes, Emptied, At
  <2> QED BY <2>2, <2>5, <2>6 DEF Tracked
<1>4. ~Reconciling /\ ~StopStrategy
  BY DEF Reconciling, ReconciliationNext, StopStrategy, TypeInv, ServiceInv
<1>o. ~RestartOffline
  BY <1>f DEF RestartOffline, Fault
<1>5. CASE ClosePosition
  BY <1>f, <1>5, CloseTracked
<1>6. CASE (\E t \in Tasks, e \in Executors : StartStrategy(t, e) \/ Restart(t, e)) \/ Crash \/ Listen
  BY <1>f, <1>6, LifeTracked
<1>7. CASE UNCHANGED vars
  BY <1>f, <1>7, <1>q, SameBook DEF vars, ledgerVars, executorVars, serviceVars, Tracked
<1> QED BY <1>1, <1>2, <1>3, <1>4, <1>o, <1>5, <1>6, <1>7 DEF Next

LEMMA TrackInvInit == Init => TrackInv
<1> SUFFICES ASSUME Init PROVE Tracked
  BY DEF TrackInv
<1>1. /\ size = 0 /\ OpenTrades = {} /\ DOMAIN trades = {} /\ ticking = None /\ close.pc = "idle"
      /\ strategy = "none" /\ \A t \in Tasks : task[t].pc = "idle"
      /\ \A e \in Executors : exec[e].status = "analyzing"
  BY DEF Init, LedgerInit, ExecutorInit, NoTask, NoClose, NewExecutor, OpenTrades
<1>2. Initializing = {}
  BY <1>1, KindsDiffer DEF Initializing
<1>3. Book /\ NotStarted /\ Waits /\ Holds
  BY <1>1 DEF Book, FlatMarks, NotStarted, Waits, Holds
<1>4. Executes /\ Starts /\ Monitors
  BY <1>1, <1>2 DEF Executes, Starts, Monitors, At
<1>5. server = "up"
  BY DEF Init
<1> QED BY <1>1, <1>3, <1>4, <1>5 DEF Tracked, Closes, Emptied

LEMMA TrackInvSays ==
  ASSUME TrackInv
  PROVE  CurrentTradeMatches
  BY ExecutorAssumption DEF TrackInv, Tracked, Book, NotStarted, Holds, CurrentTradeMatches

(* "SMART RESUME": as long as no request failed, what an executor takes    *)
(* for its open trade is the record of the position held now, after a      *)
(* crash between any two steps and next to closePosition.                  *)
THEOREM CurrentIsHeld ==
  ASSUME ~Slow, MaxStops = 0, Checks = {}
  PROVE  Spec => []CurrentTradeMatches
<1> DEFINE Inv == EntryInv /\ ActivationInv /\ OneExecutor /\ TrackInv
<1>4. Spec => [](late = {})
  BY NeverLate
<1>1. Init => Inv
  BY EntryInvInit, ActivationInvInit, OneExecutorInit, TrackInvInit
<1>2. TypeInv /\ Inv /\ (late = {})' /\ [Next]_vars => Inv'
  BY EntryInvStep, ActivationInvStep, OneExecutorStep, TrackInvStep
<1>3. TypeInv /\ Inv => CurrentTradeMatches
  BY TrackInvSays
<1> QED
  BY <1>1, <1>2, <1>3, <1>4, TypeInvAlways, PTL DEF Spec

-----------------------------------------------------------------------------
(* Which activations there are next to one that goes on.                   *)
LEMMA ExecutesAlone ==
  ASSUME TypeInv, EntryInv, ActivationInv, OneExecutor, NEW t \in Tasks, Execute(t)
  PROVE  /\ t \in Executing /\ Executing = {t} /\ Monitoring = {} /\ Initializing = {} /\ task[t].pc # "idle"
         /\ ticking = task[t].e /\ ticking \in Executors /\ ticking # None
         /\ exec[ticking].status = "analyzing" /\ strategy # "none"
<1>1. task[t].pc \in ExecutePc
  BY ExecuteMoves
<1>2. t \in Executing /\ Monitoring = {} /\ Initializing = {}
  BY <1>1, NoMix DEF Executing
<1>3. ticking = task[t].e /\ ticking \in Executors /\ ticking # None /\ task[t].pc # "idle"
  BY <1>1, ItsTicking, KindsDiffer
<1> QED BY <1>2, <1>3 DEF ActivationInv, ExecutesAnalyzing, EntryInv, OneExecution, OneExecutor, NeverStopped, At

LEMMA ChecksAlone ==
  ASSUME TypeInv, ActivationInv, OneExecutor, NEW t \in Tasks, Check(t) \/ AdjustStops(t)
  PROVE  /\ t \in Monitoring /\ Executing = {} /\ Initializing = {} /\ UNCHANGED size
         /\ ticking = task[t].e /\ ticking \in Executors /\ ticking # None
<1>1. task[t].pc \in MonitorPc /\ UNCHANGED size
  BY CheckMoves, AdjustMoves DEF MonitorPc
<1> QED BY <1>1, NoMix, ItsTicking DEF Monitoring

LEMMA InitializesAlone ==
  ASSUME TypeInv, ActivationInv, OneExecutor, NEW t \in Tasks, Initialize(t)
  PROVE  /\ t \in Initializing /\ ticking = None /\ Executing = {} /\ Monitoring = {} /\ Initializing = {t}
         /\ task[t].e \in Executors /\ task[t].e # None /\ task[t].pc # "idle" /\ strategy # "none"
         /\ UNCHANGED size
<1>1. t \in Initializing /\ UNCHANGED size
  BY InitializeMoves DEF Initializing
<1> QED BY <1>1, NoMix, TaskTyped, KindsDiffer, ExecutorAssumption DEF Initializing, OneExecutor, NeverStopped, At

-----------------------------------------------------------------------------
(* The record of the position, next to the reconciliation, as long as no   *)
(* request fails and no strategy is stopped.  First the places of an       *)
(* activation that tell of a flat position.                                *)
Runs ==
  /\ strategy = "none" => size = 0
  /\ strategy = "active" /\ server # "down" => ticking # None \/ Initializing # {}

EmptyAt == \A t \in Tasks : task[t].pc \in {"verify", "entry", "derive", "closed"} => size = 0

WaitsEmpty == ticking # None /\ exec[ticking].status = "analyzing" /\ Executing = {} => size = 0

HoldsSome ==
  /\ ticking # None /\ exec[ticking].status = "position_open" => exec[ticking].tradeId # None
  /\ \A t \in Tasks : At(t, "opened") => task[t].trade # None

StartsKnowing ==
  \A t \in Initializing :
    /\ server = "starting" \/ size = 0
    /\ At(t, "init") /\ size > 0 => task[t].open = OpenTrades
    /\ At(t, "adopt") /\ size > 0 => OpenTrades = {}

EmptiedWaits ==
  /\ Emptied =>
       /\ size = 0 /\ ~Entering /\ Initializing = {}
       /\ ticking # None /\ (exec[ticking].status = "analyzing" /\ Executing = {} => exec[ticking].cooling)
  /\ server = "starting" => close.pc = "idle"

Sized == Runs /\ EmptyAt /\ WaitsEmpty /\ HoldsSome /\ StartsKnowing /\ EmptiedWaits

LEMMA SizedQuiet ==
  ASSUME LedgerTypeOK, Sized, size' \in {size, 0}, TasksGo, UNCHANGED <<exec, ticking, close, server, strategy>>,
         size' = 0 \/ Initializing = {} \/ OpenTrades' = OpenTrades
  PROVE  Sized'
<1>1. Executing' = Executing /\ Initializing' = Initializing
  BY DEF TasksGo, Executing, Initializing, ExecutePc, MonitorPc, InitPc
<1>2. \A u \in Tasks : task'[u] = task[u] \/ task'[u].pc \notin {"derive", "closed"} \cup ExecutePc \cup InitPc
  BY DEF TasksGo, ExecutePc, MonitorPc, InitPc
<1>3. Runs' /\ WaitsEmpty'
  BY <1>1 DEF Sized, Runs, WaitsEmpty
<1>4. EmptyAt' /\ HoldsSome'
  BY <1>2 DEF Sized, EmptyAt, HoldsSome, At, ExecutePc
<1>5. StartsKnowing'
  BY <1>1, <1>2 DEF Sized, StartsKnowing, Initializing, InitPc, At, LedgerTypeOK
<1>6. EmptiedWaits'
  <2>1. Entering' => Entering
    BY <1>2 DEF Entering, ExecutePc
  <2> QED BY <1>1, <2>1 DEF Sized, EmptiedWaits, Emptied
<1> QED BY <1>3, <1>4, <1>5, <1>6 DEF Sized

LEMMA CheckSized ==
  ASSUME TypeInv, ActivationInv, OneExecutor, Sized, NEW t \in Tasks, Check(t), UNCHANGED serviceVars,
         faults = 0, faults' = 0
  PROVE  Sized'
<1>t. LedgerTypeOK /\ DOMAIN exec = Executors
  BY TaskTyped DEF TypeInv
<1>m. /\ t \in Monitoring /\ Executing = {} /\ Initializing = {} /\ UNCHANGED size
      /\ ticking = task[t].e /\ ticking \in Executors /\ ticking # None
  BY ChecksAlone
<1>1. CASE CheckPosition(t) /\ size > 0
  <2>1. End(t) /\ UNCHANGED <<exec, ticking>>
    BY <1>1 DEF CheckPosition
  <2>2. TasksGo
    BY <1>m, <2>1, EndEnded DEF TasksGo, Ended, Monitoring
  <2> QED BY <1>t, <1>m, <2>1, <2>2, SizedQuiet DEF serviceVars
(* The position is gone: to closeTradeHistory, or back to analyzing.       *)
<1>g. ASSUME size = 0, \A u \in Tasks : u # t => task'[u] = task[u], UNCHANGED ticking,
             task'[t].pc \in {"derive", "closed", "idle"},
             UNCHANGED exec \/ (exec'[ticking].status = "analyzing" /\ exec'[ticking].cooling)
      PROVE  Sized'
  <2>1. Executing' = {} /\ Initializing' = {}
    BY <1>g, <1>m DEF Executing, Initializing, ExecutePc, InitPc
  <2>2. Runs' /\ EmptyAt' /\ WaitsEmpty' /\ StartsKnowing'
    BY <1>g, <1>m, <2>1 DEF Runs, EmptyAt, WaitsEmpty, StartsKnowing, serviceVars
  <2>3. HoldsSome'
    BY <1>g, <2>1 DEF Sized, HoldsSome, Executing, ExecutePc, At
  <2>4. EmptiedWaits'
    <3>1. ~Entering'
      BY <2>1 DEF Entering, Executing, ExecutePc
    <3> QED BY <1>g, <1>m, <2>1, <3>1 DEF Sized, EmptiedWaits, Emptied, serviceVars
  <2> QED BY <2>2, <2>3, <2>4 DEF Sized
<1>r. ASSUME NEW id, Resume(t, id), size = 0, UNCHANGED ticking
      PROVE  Sized'
  <2>1. Ended(t) /\ exec'[ticking].status = "analyzing" /\ exec'[ticking].cooling /\ task'[t].pc = "idle"
    BY <1>m, <1>r, ResumeMoves, EndedIdle, KindsDiffer DEF Monitoring
  <2> QED BY <1>g, <1>r, <2>1 DEF Ended
<1>2. CASE CheckPosition(t) /\ ~(size > 0)
  <2>1. size = 0 /\ UNCHANGED ticking /\ ((Goto(t, "derive") /\ UNCHANGED exec) \/ Resume(t, None))
    BY <1>2 DEF CheckPosition
  <2> QED BY <1>g, <1>r, <2>1, GotoOnward DEF Onward
<1>3. CASE CloseHistory(t)
  <2>1. Goto(t, "closed") /\ UNCHANGED <<exec, ticking>> /\ size = 0
    BY <1>3 DEF CloseHistory, Sized, EmptyAt, At
  <2> QED BY <1>g, <2>1, GotoOnward DEF Onward
<1>4. CASE Closed(t)
  BY <1>4, <1>r DEF Closed, Sized, EmptyAt, At
<1>5. CASE CheckFail(t)
  BY <1>5, <1>t DEF CheckFail, Fault, LedgerTypeOK
<1> QED BY <1>1, <1>2, <1>3, <1>4, <1>5 DEF Check

LEMMA ExecuteSized ==
  ASSUME TypeInv, EntryInv, ActivationInv, OneExecutor, Sized, NEW t \in Tasks, Execute(t), UNCHANGED serviceVars,
         faults = 0, faults' = 0
  PROVE  Sized'
<1>t. LedgerTypeOK /\ DOMAIN task = Tasks /\ DOMAIN task[t] = {"pc", "e", "trade", "sl", "tp", "old", "open"}
  BY TaskTyped DEF TypeInv
<1>m. /\ t \in Executing /\ Executing = {t} /\ Monitoring = {} /\ Initializing = {} /\ task[t].pc # "idle"
      /\ ticking = task[t].e /\ ticking \in Executors /\ ticking # None
      /\ exec[ticking].status = "analyzing" /\ strategy # "none"
  BY ExecutesAlone
<1>n. At(t, "verify") \/ At(t, "entry") => ~Emptied /\ size = 0
  BY DEF Sized, EmptyAt, EmptiedWaits, Entering, At
<1>g. ASSUME NEW pc \in ExecutePc, task'[t].pc = pc, \A u \in Tasks : u # t => task'[u] = task[u],
             UNCHANGED <<exec, ticking>>, size' = size \/ ~Emptied,
             pc \in {"verify", "entry"} => size' = 0 /\ ~Emptied, pc = "opened" => task'[t].trade # None
      PROVE  Sized'
  <2>1. Executing' = {t} /\ Initializing' = {}
    BY <1>g, <1>m, KindsDiffer DEF Executing, Initializing
  <2>2. Runs' /\ WaitsEmpty' /\ StartsKnowing'
    BY <1>g, <1>m, <2>1 DEF Runs, WaitsEmpty, StartsKnowing, serviceVars
  <2>3. EmptyAt'
    BY <1>g, <1>m DEF EmptyAt, Executing, Monitoring, ExecutePc, MonitorPc
  <2>4. HoldsSome'
    BY <1>g, <1>m DEF HoldsSome, Executing, ExecutePc, At
  <2>5. EmptiedWaits'
    <3>1. Entering' => ~Emptied
      BY <1>g, <1>m DEF Entering, Executing, ExecutePc
    <3> QED BY <1>g, <1>m, <2>1, <3>1 DEF Sized, EmptiedWaits, Emptied, serviceVars
  <2> QED BY <2>2, <2>3, <2>4, <2>5 DEF Sized
(* Back to analyzing with nothing opened, or to the open position.         *)
<1>r. ASSUME \A u \in Tasks : task'[u].pc = "idle" \/ (u # t /\ task'[u] = task[u]), UNCHANGED <<size, ticking>>,
             \/ size = 0 /\ exec'[ticking].status = "analyzing" /\ exec'[ticking].cooling
             \/ exec'[ticking].status = "position_open" /\ exec'[ticking].tradeId # None
      PROVE  Sized'
  <2>1. Executing' = {} /\ Initializing' = {}
    BY <1>r, <1>m, KindsDiffer DEF Executing, Initializing
  <2>2. Runs' /\ WaitsEmpty' /\ StartsKnowing'
    BY <1>r, <1>m, <2>1 DEF Runs, WaitsEmpty, StartsKnowing, serviceVars
  <2>3. EmptyAt'
    BY <1>r, <1>m DEF EmptyAt, Executing, Monitoring, ExecutePc, MonitorPc
  <2>4. HoldsSome'
    BY <1>r, <1>m, <2>1 DEF HoldsSome, Executing, ExecutePc, At
  <2>5. EmptiedWaits'
    <3>1. ~Entering'
      BY <2>1 DEF Entering, Executing, ExecutePc
    <3> QED BY <1>r, <1>m, <2>1, <3>1 DEF Sized, EmptiedWaits, Emptied, serviceVars
  <2> QED BY <2>2, <2>3, <2>4, <2>5 DEF Sized
<1>u. ASSUME GiveUp(t), size = 0, UNCHANGED <<size, ticking>> PROVE Sized'
  <2>1. /\ \A u \in Tasks : task'[u].pc = "idle" \/ (u # t /\ task'[u] = task[u])
        /\ exec'[ticking].status = "analyzing" /\ exec'[ticking].cooling
    BY <1>m, <1>u, ResumeMoves, EndedIdle DEF Ended
  <2> QED BY <1>r, <1>u, <2>1
<1>1. CASE Verify(t)
  BY <1>1, <1>g, <1>n, GotoOnward DEF Verify, Onward, ExecutePc, ledgerVars
<1>2. CASE PlaceEntry(t)
  <2>1. At(t, "entry") /\ Goto(t, "sl") /\ UNCHANGED <<exec, ticking>>
    BY <1>2 DEF PlaceEntry
  <2> QED BY <1>g, <1>n, <2>1, GotoOnward DEF Onward, ExecutePc
<1>3. CASE PlaceStop(t) \/ PlaceTarget(t)
  <2>1. /\ UNCHANGED <<size, exec, ticking>> /\ task'[t].pc \in {"tp", "record"}
        /\ \A u \in Tasks : u # t => task'[u] = task[u]
    BY <1>3, <1>t DEF PlaceStop, PlaceTarget
  <2> QED BY <1>g, <2>1 DEF ExecutePc
<1>4. CASE Record(t)
  <2>1. /\ UNCHANGED <<size, exec, ticking>> /\ task'[t].pc = "opened" /\ task'[t].trade = Len(trades')
        /\ \A u \in Tasks : u # t => task'[u] = task[u] /\ RecordTrade(task[t].sl, task[t].tp)
    BY <1>4, <1>t DEF Record
  <2>2. task[t].sl \in OrderId \cup {None} /\ task[t].tp \in OrderId \cup {None} /\ RecordTrade(task[t].sl, task[t].tp)
    BY <1>4 DEF Record, TypeInv, ExecutorInv, TaskOn, TaskRecord
  <2>3. Len(trades') # None
    BY <1>t, <2>2, RecordTradeAdds, LedgerAssumption DEF TradeId
  <2> QED BY <1>g, <2>1, <2>3 DEF ExecutePc
<1>5. CASE Opened(t)
  <2>1. \A u \in Tasks : task'[u].pc = "idle" \/ (u # t /\ task'[u] = task[u])
    BY <1>5, OpenedMoves, EndedIdle DEF Ended
  <2>2. exec'[ticking] = [status |-> "position_open", tradeId |-> task[t].trade, cooling |-> TRUE]
    BY <1>m, <1>5, OpenedMoves
  <2>3. task[t].trade # None /\ UNCHANGED <<size, ticking>>
    BY <1>5 DEF Opened, Sized, HoldsSome, ledgerVars
  <2> QED BY <1>r, <2>1, <2>2, <2>3
<1>6. CASE Refuse(t)
  BY <1>6, <1>n, <1>t DEF Refuse, LedgerTypeOK
<1>7. CASE ReduceOnlyRefused(t)
  BY <1>7, <1>u DEF ReduceOnlyRefused, ledgerVars
<1>8. CASE ExecuteFail(t)
  BY <1>8, <1>t DEF ExecuteFail, Fault, LedgerTypeOK
<1> QED BY <1>1, <1>2, <1>3, <1>4, <1>5, <1>6, <1>7, <1>8 DEF Execute

LEMMA InitializeSized ==
  ASSUME TypeInv, ActivationInv, OneExecutor, Sized, NEW t \in Tasks, Initialize(t), UNCHANGED serviceVars,
         faults = 0, faults' = 0
  PROVE  Sized'
<1>t. LedgerTypeOK /\ Ids \subseteq TradeId /\ None \notin TradeId
  BY IdsAreTradeIds, LedgerAssumption DEF TypeInv, TradeId
<1>m. /\ t \in Initializing /\ ticking = None /\ Executing = {} /\ Monitoring = {} /\ Initializing = {t}
      /\ task[t].e \in Executors /\ task[t].e # None /\ task[t].pc # "idle" /\ strategy # "none"
      /\ UNCHANGED size
  BY InitializesAlone
<1>c. ~Emptied
  BY <1>m DEF Sized, EmptiedWaits
<1>s. ASSUME NEW status \in {"analyzing", "position_open"}, NEW id, Subscribe(t, status, id),
             status = "analyzing" => size = 0, status = "position_open" => id # None
      PROVE  Sized'
  <2>1. \A u \in Tasks : task'[u].pc = "idle"
    <3>1. \A u \in Tasks : u # t => task[u].pc = "idle"
      BY <1>m DEF OneExecutor, StartsAlone, Initializing, At
    <3>2. Ended(t)
      BY <1>m, <1>s, SubscribeMoves
    <3> QED BY <3>1, <3>2, EndedIdle DEF Ended
  <2>2. Executing' = {} /\ Initializing' = {}
    BY <2>1, KindsDiffer DEF Executing, Initializing
  <2>3. ticking' # None /\ exec'[ticking'].status = status /\ exec'[ticking'].tradeId = id
    <3>1. ticking' = task[t].e /\ exec'[task[t].e] = [exec[task[t].e] EXCEPT !.status = status, !.tradeId = id]
      BY <1>m, <1>s, SubscribeMoves
    <3> QED BY <1>m, <3>1, ExecTyped
  <2>4. Runs' /\ WaitsEmpty' /\ StartsKnowing'
    BY <1>s, <1>m, <2>2, <2>3 DEF Runs, WaitsEmpty, StartsKnowing, serviceVars
  <2>5. EmptyAt' /\ HoldsSome'
    BY <1>s, <2>1, <2>3 DEF EmptyAt, HoldsSome, At
  <2>6. EmptiedWaits'
    BY <1>c DEF Sized, EmptiedWaits, Emptied, serviceVars
  <2> QED BY <2>4, <2>5, <2>6 DEF Sized
<1>1. CASE ReconcileFlat(t)
  BY <1>1, <1>s DEF ReconcileFlat
<1>2. CASE ReconcileTracked(t)
  <2>1. task[t].open # {} /\ Subscribe(t, "position_open", Latest(task[t].open))
    BY <1>2 DEF ReconcileTracked
  <2>2. task[t].open \subseteq Ids
    BY TaskTyped
  <2>3. Latest(task[t].open) \in task[t].open
    BY <1>t, <2>1, <2>2, IdsAreTradeIds, LatestIsMember
  <2> QED BY <1>s, <1>t, <2>1, <2>2, <2>3
<1>3. CASE ReconcileOrphan(t)
  <2>1. /\ task'[t].pc = "adopt" /\ \A u \in Tasks : u # t => task'[u] = task[u]
        /\ UNCHANGED <<trades, exec, ticking>> /\ size > 0 /\ OpenTrades = {}
    BY <1>3, <1>m, GotoOnward DEF ReconcileOrphan, Sized, StartsKnowing, ledgerVars, Onward
  <2>2. Executing' = {} /\ Initializing' = {t} /\ Monitoring' = {} /\ OpenTrades' = {}
    BY <1>m, <2>1 DEF Executing, Initializing, Monitoring, ExecutePc, InitPc, MonitorPc, OpenTrades
  <2>3. Runs' /\ WaitsEmpty' /\ EmptiedWaits'
    BY <1>m, <1>c, <2>1, <2>2 DEF Sized, Runs, WaitsEmpty, EmptiedWaits, Emptied, serviceVars
  <2>4. EmptyAt' /\ HoldsSome'
    BY <1>m, <2>1, <2>2 DEF EmptyAt, HoldsSome, Executing, Monitoring, ExecutePc, MonitorPc, At
  <2>5. StartsKnowing'
    BY <1>m, <2>1, <2>2 DEF Sized, StartsKnowing, At, serviceVars
  <2> QED BY <2>3, <2>4, <2>5 DEF Sized
<1>4. CASE Adopt(t)
  <2>1. PICK sl \in FirstOrNone(Stops), tp \in FirstOrNone(OpenOrders \ Stops) : RecordTrade(sl, tp)
    BY <1>4 DEF Adopt
  <2>2. sl \in OrderId \cup {None} /\ tp \in OrderId \cup {None}
    BY <1>t, LenProperties DEF FirstOrNone, Stops, OpenOrders, LedgerTypeOK, OrderId
  <2>3. Len(trades') # None
    BY <1>t, <2>1, <2>2, RecordTradeAdds
  <2> QED BY <1>4, <1>s, <2>3 DEF Adopt
<1>5. CASE InitFail(t)
  BY <1>5, <1>t DEF InitFail, Fault, LedgerTypeOK
<1> QED BY <1>1, <1>2, <1>3, <1>4, <1>5 DEF Initialize

LEMMA AdjustSized ==
  ASSUME TypeInv, ActivationInv, OneExecutor, Sized, NEW t \in Tasks, AdjustStops(t), UNCHANGED serviceVars
  PROVE  Sized'
<1>1. /\ UNCHANGED <<exec, ticking, size>> /\ task[t].pc \in MonitorPc
      /\ task'[t].pc \in {"place", "cancel", "update", "check"} /\ \A u \in Tasks : u # t => task'[u] = task[u]
  BY AdjustMoves DEF Onward
<1>2. TasksGo
  BY <1>1 DEF TasksGo, MonitorPc
<1> QED BY <1>1, <1>2, ChecksAlone, SizedQuiet DEF serviceVars, TypeInv

LEMMA TickSized ==
  ASSUME TypeInv, ActivationInv, OneExecutor, Sized, NEW t \in Tasks, Tick(t), UNCHANGED serviceVars,
         TickSignal(t) => Executing = {}
  PROVE  Sized'
<1>0. /\ UNCHANGED <<size, trades, ticking>> /\ At(t, "idle") /\ ticking # None /\ ticking \in Executors
      /\ OpenTrades' = OpenTrades /\ LedgerTypeOK
  BY TickMoves DEF ledgerVars, OpenTrades, TypeInv
<1>1. CASE TickSignal(t) /\ TickBegins(t, "verify")
  <2>1. /\ exec[ticking].status = "analyzing" /\ ~exec[ticking].cooling /\ Executing = {} /\ UNCHANGED exec
        /\ task'[t].pc = "verify" /\ \A u \in Tasks : u # t => task'[u] = task[u]
    BY <1>1 DEF TickSignal, TickBegins
  <2>2. size = 0 /\ ~Emptied
    BY <1>0, <2>1 DEF Sized, WaitsEmpty, EmptiedWaits
  <2>3. Executing' = {t} /\ Initializing' = Initializing
    BY <1>0, <2>1 DEF Executing, Initializing, ExecutePc, InitPc, At
  <2>4. Runs' /\ WaitsEmpty' /\ EmptiedWaits'
    BY <1>0, <2>1, <2>2, <2>3 DEF Sized, Runs, WaitsEmpty, EmptiedWaits, Emptied, serviceVars
  <2>5. EmptyAt' /\ HoldsSome'
    BY <1>0, <2>1, <2>2 DEF Sized, EmptyAt, HoldsSome, At
  <2>6. StartsKnowing'
    BY <1>0, <2>2 DEF StartsKnowing
  <2> QED BY <2>4, <2>5, <2>6 DEF Sized
<1>2. CASE TickMonitor(t)
  <2>1. exec[ticking].tradeId # None
    BY <1>0, <1>2 DEF TickMonitor, Sized, HoldsSome
  <2>2. TickBegins(t, "adjust") \/ TickBegins(t, "check")
    BY <1>0, <1>2, <2>1, TickMoves DEF TickSignal, TickMonitor
  <2>3. TasksGo /\ UNCHANGED exec
    BY <1>0, <2>2 DEF TickBegins, TasksGo, MonitorPc, At
  <2> QED BY <1>0, <2>3, SizedQuiet DEF serviceVars
<1> QED BY <1>1, <1>2, TickMoves DEF Tick

LEMMA CloseSized ==
  ASSUME TypeInv, ActivationInv, OneExecutor, Sized, ClosePosition, faults = 0, faults' = 0
  PROVE  Sized'
<1>t. LedgerTypeOK /\ UNCHANGED <<task, ticking, server>>
      /\ Executing' = Executing /\ Initializing' = Initializing /\ (Entering' <=> Entering)
  BY CloseMoves DEF TypeInv, Executing, Initializing, Entering
<1>f. ~CloseFail
  BY <1>t DEF CloseFail, Fault, LedgerTypeOK
<1>u. server = "up"
  BY CloseMoves DEF Sized, EmptiedWaits, ActivationInv, DownIsIdle, TypeInv, ServiceInv
<1>d. close \in [pc: {"idle", "cancel_all", "close", "find", "cleanup", "cancel", "finish",
                     "resume"},
                seen: SUBSET OrderId, trade: TradeId \cup {None}]
  BY DEF TypeInv, ServiceInv
<1>g. ASSUME NEW pc, CloseGoto(pc) PROVE close'.pc = pc
  BY <1>d, <1>g DEF CloseGoto
<1>i. size > 0 => Initializing = {}
  BY <1>t, <1>u DEF Sized, StartsKnowing, LedgerTypeOK
(* The close goes on, and leaves the executor alone.                       *)
<1>k. ASSUME UNCHANGED exec, strategy' = strategy, size' \in {size, 0}, EmptiedWaits'
      PROVE  Sized'
  <2>1. Runs' /\ WaitsEmpty'
    BY <1>t, <1>k DEF Sized, Runs, WaitsEmpty
  <2>2. EmptyAt' /\ HoldsSome'
    BY <1>t, <1>k DEF Sized, EmptyAt, HoldsSome, At
  <2>3. StartsKnowing'
    BY <1>t, <1>k, <1>i DEF Sized, StartsKnowing, LedgerTypeOK
  <2> QED BY <1>k, <2>1, <2>2, <2>3 DEF Sized
<1>1. CASE CloseRequest \/ CloseCancelAll
  <2>1. UNCHANGED <<exec, strategy, size>> /\ close'.pc \in {"cancel_all", "close"}
    BY <1>1, <1>g DEF CloseRequest, CloseCancelAll, ledgerVars, executorVars
  <2>2. EmptiedWaits'
    BY <1>t, <1>u, <2>1 DEF EmptiedWaits, Emptied
  <2> QED BY <1>k, <2>1, <2>2
<1>2. CASE CloseMarket
  <2>1. size > 0 /\ size' = 0 /\ UNCHANGED <<exec, strategy>>
    BY <1>2 DEF CloseMarket, executorVars, Resize
  <2>2. ~Entering /\ Initializing = {} /\ size # 0
    BY <1>i, <1>t, <2>1 DEF Sized, EmptyAt, Entering, LedgerTypeOK
  <2>3. strategy = "active"
    BY <2>2 DEF Sized, Runs, OneExecutor, NeverStopped, TypeInv, ServiceInv
  <2>4. ticking # None /\ ~(exec[ticking].status = "analyzing" /\ Executing = {})
    BY <1>u, <2>2, <2>3 DEF Sized, Runs, WaitsEmpty
  <2>5. EmptiedWaits'
    BY <1>t, <1>u, <2>1, <2>2, <2>4 DEF EmptiedWaits
  <2> QED BY <1>k, <2>1, <2>5
<1>3. CASE CloseNothing \/ (CloseFind /\ OpenTrades = {})
  <2>1. UNCHANGED <<exec, strategy, size>> /\ close'.pc = "idle"
    BY <1>3 DEF CloseNothing, CloseFind, NoClose, ledgerVars, executorVars
  <2>2. EmptiedWaits'
    BY <2>1 DEF EmptiedWaits, Emptied
  <2> QED BY <1>k, <2>1, <2>2
<1>4. CASE (CloseFind /\ OpenTrades # {}) \/ CloseSeeOrders \/ CloseCancel \/ CloseFinish
  <2>1. UNCHANGED <<exec, strategy, size>> /\ Emptied
    BY <1>4 DEF CloseFind, CloseSeeOrders, CloseCancel, CloseFinish, Emptied, ledgerVars, executorVars
  <2>2. EmptiedWaits'
    BY <1>t, <1>u, <2>1 DEF Sized, EmptiedWaits
  <2> QED BY <1>k, <2>1, <2>2
(* Every executor resumes: there is no position.                           *)
<1>5. CASE CloseResume
  <2>1. close.pc = "resume" /\ ForceResume /\ close'.pc = "idle" /\ UNCHANGED size /\ strategy' = strategy
    BY <1>5 DEF CloseResume, NoClose, ledgerVars, Reactivated, OneExecutor, NeverStopped
  <2>2. size = 0 /\ \A x \in Executors : exec'[x].status = "analyzing"
    BY <2>1 DEF ForceResume, Sized, EmptiedWaits, Emptied
  <2>3. ticking' # None => exec'[ticking'].status = "analyzing"
    BY <1>t, <2>2 DEF TypeInv, ExecutorInv
  <2>4. Runs' /\ EmptyAt' /\ WaitsEmpty' /\ StartsKnowing' /\ EmptiedWaits'
    BY <1>t, <2>1, <2>2 DEF Sized, Runs, EmptyAt, WaitsEmpty, StartsKnowing, EmptiedWaits, Emptied
  <2>5. HoldsSome'
    BY <1>t, <2>3 DEF Sized, HoldsSome, At
  <2> QED BY <2>4, <2>5 DEF Sized
<1> QED BY <1>1, <1>2, <1>3, <1>4, <1>5, <1>f DEF ClosePosition

LEMMA BeginSized ==
  ASSUME Sized, UNCHANGED <<size, ticking, close>>,
         NEW t \in Tasks, NEW e \in Executors, ticking = None, \A u \in Tasks : At(u, "idle"),
         task'[t].pc = "init", task'[t].open = OpenTrades', \A u \in Tasks : u # t => task'[u] = task[u],
         strategy' = "active",
         \/ server' = "starting" /\ close.pc = "idle"
         \/ server' = "up" /\ size = 0
  PROVE  Sized'
<1>1. ~Emptied /\ Executing' = {} /\ Initializing' = {t} /\ Monitoring' = {}
  BY DEF Sized, EmptiedWaits, Executing, Initializing, Monitoring, ExecutePc, InitPc, MonitorPc, At
<1>2. Runs' /\ WaitsEmpty' /\ StartsKnowing'
  BY <1>1 DEF Runs, WaitsEmpty, StartsKnowing, At
<1>3. EmptyAt' /\ HoldsSome'
  BY <1>1 DEF EmptyAt, HoldsSome, Executing, Monitoring, ExecutePc, MonitorPc, At
<1>4. EmptiedWaits'
  BY <1>1 DEF EmptiedWaits, Emptied
<1> QED BY <1>2, <1>3, <1>4 DEF Sized

LEMMA RestartDoes ==
  ASSUME TypeInv, OneExecutor, NEW t \in Tasks, NEW e \in Executors, Restart(t, e), faults = 0, faults' = 0
  PROVE  /\ server = "down" /\ server' = "starting" /\ UNCHANGED <<size, ticking, close, check, strategy>>
         /\ CloseTrades(Ghosts) /\ OpenTrades' = OpenTrades \ Ghosts
         /\ IF strategy = "active"
              THEN /\ exec'[e] = NewExecutor /\ \A x \in Executors : x # e => exec'[x] = exec[x]
                   /\ task'[t].pc = "init" /\ task'[t].open = OpenTrades \ Ghosts
                   /\ \A u \in Tasks : u # t => task'[u] = task[u]
              ELSE UNCHANGED <<exec, task>>
<1>t. LedgerTypeOK /\ DOMAIN exec = Executors /\ DOMAIN task = Tasks
  BY DEF TypeInv, ExecutorInv
<1>1. PICK closed \in SUBSET Ghosts, cancelled \in SUBSET OpenOrders :
         /\ IF closed = Ghosts /\ cancelled = (IF Ghosts = {} THEN {} ELSE OpenOrders)
              THEN UNCHANGED faults
              ELSE Ghosts # {} /\ Fault
         /\ CloseTrades(closed)
         /\ strategy' = IF closed = {} THEN strategy ELSE Reactivated
         /\ IF strategy' = "active"
              THEN /\ exec' = [exec EXCEPT ![e] = NewExecutor]
                   /\ task' = [task EXCEPT ![t] = [NoTask EXCEPT !.pc = "init", !.e = e,
                                                    !.open = OpenTrades \ closed]]
              ELSE UNCHANGED <<exec, task>>
  BY DEF Restart
<1>2. closed = Ghosts
  BY <1>t, <1>1 DEF Fault, LedgerTypeOK
<1>3. strategy' = strategy
  BY <1>1 DEF Reactivated, OneExecutor, NeverStopped
<1>4. CloseTrades(Ghosts) /\ OpenTrades' = OpenTrades \ Ghosts
  BY <1>t, <1>1, <1>2, CloseTradesDoes DEF OpenTrades
<1>5. server = "down" /\ server' = "starting" /\ UNCHANGED <<size, ticking, close, check>>
  BY DEF Restart
<1>6. IF strategy = "active"
        THEN /\ exec' = [exec EXCEPT ![e] = NewExecutor]
             /\ task' = [task EXCEPT ![t] = [NoTask EXCEPT !.pc = "init", !.e = e, !.open = OpenTrades \ Ghosts]]
        ELSE UNCHANGED <<exec, task>>
  BY <1>1, <1>2, <1>3
<1>7. strategy = "active" =>
        /\ exec'[e] = NewExecutor /\ \A x \in Executors : x # e => exec'[x] = exec[x]
        /\ task'[t].pc = "init" /\ task'[t].open = OpenTrades \ Ghosts /\ \A u \in Tasks : u # t => task'[u] = task[u]
  BY <1>t, <1>6 DEF NoTask
<1> QED BY <1>3, <1>4, <1>5, <1>6, <1>7

LEMMA LifeSized ==
  ASSUME TypeInv, ActivationInv, OneExecutor, Sized, faults = 0, faults' = 0,
         \/ \E t \in Tasks, e \in Executors : StartStrategy(t, e) \/ Restart(t, e)
         \/ Crash \/ Listen
  PROVE  Sized'
<1>t. LedgerTypeOK /\ DOMAIN task = Tasks
  BY DEF TypeInv, ExecutorInv
<1>1. ASSUME NEW t \in Tasks, NEW e \in Executors, StartStrategy(t, e) PROVE Sized'
  <2>1. /\ UNCHANGED <<size, trades, ticking, close>> /\ strategy = "none" /\ strategy' = "active" /\ server' = "up"
        /\ task'[t].pc = "init" /\ task'[t].open = OpenTrades /\ \A u \in Tasks : u # t => task'[u] = task[u]
    BY <1>1, <1>t DEF StartStrategy, Begin, NoTask, ledgerVars
  <2>2. ticking = None /\ size = 0 /\ OpenTrades' = OpenTrades /\ \A u \in Tasks : At(u, "idle")
    BY <2>1 DEF OneExecutor, NeverStopped, Sized, Runs, OpenTrades
  <2> QED BY <2>1, <2>2, BeginSized
<1>2. ASSUME NEW t \in Tasks, NEW e \in Executors, Restart(t, e) PROVE Sized'
  <2>1. ticking = None /\ close.pc = "idle" /\ \A u \in Tasks : At(u, "idle")
    BY <1>2 DEF Restart, ActivationInv, DownIsIdle
  <2>2. server' = "starting" /\ UNCHANGED <<size, ticking, close, strategy>> /\ OpenTrades' = OpenTrades \ Ghosts
    BY <1>2, RestartDoes
  <2>3. CASE strategy = "active"
    BY <1>2, <2>1, <2>2, <2>3, RestartDoes, BeginSized
  <2>4. CASE strategy # "active"
    <3>1. UNCHANGED task /\ strategy = "none"
      BY <1>2, <2>4, RestartDoes DEF OneExecutor, NeverStopped, TypeInv, ServiceInv
    <3>2. Initializing' = {}
      BY <2>1, <3>1, KindsDiffer DEF Initializing, At
    <3> QED BY <2>1, <2>2, <3>1, <3>2
            DEF Sized, Runs, EmptyAt, WaitsEmpty, HoldsSome, StartsKnowing, EmptiedWaits, Emptied, At
  <2> QED BY <2>3, <2>4
<1>3. CASE Crash
  <2>1. /\ UNCHANGED <<size, strategy>> /\ ticking' = None /\ server' = "down" /\ close'.pc = "idle"
        /\ \A u \in Tasks : task'[u].pc = "idle"
    BY <1>3 DEF Crash, NoTask, NoClose, ledgerVars
  <2>2. Initializing' = {}
    BY <2>1, KindsDiffer DEF Initializing
  <2> QED BY <2>1, <2>2 DEF Sized, Runs, EmptyAt, WaitsEmpty, HoldsSome, StartsKnowing, EmptiedWaits, Emptied, At
<1>4. CASE Listen
  <2>1. /\ UNCHANGED <<size, exec, ticking, task, strategy, close>> /\ server = "starting" /\ server' = "up"
        /\ Initializing = {} /\ Initializing' = {} /\ Executing' = Executing
    BY <1>4 DEF Listen, ledgerVars, executorVars, Initializing, Executing
  <2>2. Runs' /\ EmptyAt' /\ WaitsEmpty' /\ HoldsSome' /\ StartsKnowing'
    BY <2>1 DEF Sized, Runs, EmptyAt, WaitsEmpty, HoldsSome, StartsKnowing, At
  <2>3. EmptiedWaits'
    BY <2>1 DEF Sized, EmptiedWaits, Emptied
  <2> QED BY <2>2, <2>3 DEF Sized
<1> QED BY <1>1, <1>2, <1>3, <1>4

LEMMA FillFlat ==
  ASSUME LedgerTypeOK, Single, NEW o, Fill(o)
  PROVE  size' = 0 /\ OpenTrades' = OpenTrades
<1>1. CASE size > 0
  <2>1. size - 1 = 0
    BY <1>1 DEF Single, LedgerTypeOK
  <2>2. Resize(0)
    BY <1>1, <2>1 DEF Fill
  <2> QED BY <2>2, ResizeDoes DEF OpenTrades
<1>2. CASE ~(size > 0)
  BY <1>2 DEF Fill, OpenTrades, LedgerTypeOK
<1> QED BY <1>1, <1>2

LEMMA AnalyzeChanges ==
  ASSUME TypeInv, TickAnalyze
  PROVE  UNCHANGED <<ledgerVars, executorVars>>
<1>1. exec[ticking].status = "analyzing" /\ exec' = [exec EXCEPT ![ticking].status = "analyzing"] /\ ticking \in Executors
  BY DEF TickAnalyze, TypeInv, ExecutorInv
<1>2. [exec[ticking] EXCEPT !.status = "analyzing"] = exec[ticking]
  BY <1>1 DEF TypeInv, ExecutorInv, ExecutorOn, Executor
<1> QED BY <1>1, <1>2 DEF TickAnalyze, TypeInv, ExecutorInv, executorVars

LEMMA SizedStep ==
  ASSUME TypeInv, EntryInv, ActivationInv, OneExecutor, Sized, late' = {}, MaxStops = 0, faults = 0, faults' = 0,
         [Next]_vars
  PROVE  Sized'
<1>t. LedgerTypeOK /\ size \in Nat
  BY DEF TypeInv, LedgerTypeOK
<1>q. ASSUME size' \in {size, 0}, size' = 0 \/ Initializing = {} \/ OpenTrades' = OpenTrades,
             UNCHANGED <<task, exec, ticking, close, server, strategy>>
      PROVE  Sized'
  BY <1>t, <1>q, SizedQuiet DEF TasksGo
<1>1. CASE Market
  BY <1>1, <1>q, <1>t, FillFlat DEF Market, EntryInv, executorVars, serviceVars
<1>2. CASE Ticking
  <2>0. UNCHANGED serviceVars
    BY <1>2 DEF Ticking
  <2>1. CASE TickAnalyze
    BY <1>q, <2>0, <2>1, AnalyzeChanges DEF OpenTrades, ledgerVars, executorVars, serviceVars
  <2>2. ASSUME NEW t \in Tasks, Tick(t) \/ TaskStep(t) PROVE Sized'
    BY <1>2, <2>0, <2>2, AloneUnlessLate, TickSized, ExecuteSized, AdjustSized, CheckSized, InitializeSized DEF TaskStep
  <2> QED BY <1>2, <2>1, <2>2 DEF Ticking, ExecutorNext
<1>3. CASE Cooling
  <2>1. /\ UNCHANGED <<size, trades, ticking, task, close, server, strategy>> /\ close.pc = "idle"
        /\ exec' = [exec EXCEPT ![ticking].cooling = FALSE]
    BY <1>3 DEF Cooling, CooldownEnds, InFlight, ledgerVars, serviceVars
  <2>2. OpenTrades' = OpenTrades /\ Executing' = Executing /\ Initializing' = Initializing
    BY <2>1 DEF Executing, Initializing, OpenTrades
  <2>3. \A x \in Executors : exec'[x].status = exec[x].status /\ exec'[x].tradeId = exec[x].tradeId
    <3>1. ASSUME NEW x \in Executors PROVE exec'[x].status = exec[x].status /\ exec'[x].tradeId = exec[x].tradeId
      <4>1. DOMAIN exec = Executors /\ DOMAIN exec[x] = {"status", "tradeId", "cooling"}
        BY ExecTyped DEF TypeInv, ExecutorInv
      <4> QED BY <2>1, <4>1
    <3> QED BY <3>1
  <2>4. ticking # None => ticking \in Executors
    BY DEF TypeInv, ExecutorInv
  <2>5. Runs' /\ EmptyAt' /\ WaitsEmpty' /\ HoldsSome'
    BY <2>1, <2>2, <2>3, <2>4 DEF Sized, Runs, EmptyAt, WaitsEmpty, HoldsSome, At
  <2>6. StartsKnowing' /\ EmptiedWaits'
    BY <2>1, <2>2 DEF Sized, StartsKnowing, EmptiedWaits, Emptied, At
  <2> QED BY <2>5, <2>6 DEF Sized
<1>4. ~StopStrategy /\ ~RestartOffline
  BY <1>t DEF StopStrategy, TypeInv, ServiceInv, RestartOffline, Fault
(* The reconciliation starts when initialize has returned.                 *)
<1>5. CASE Reconciling
  <2>1. server = "up" /\ UNCHANGED <<size, executorVars, serviceVars>>
    BY <1>5, <1>t, ReconcilingStands DEF Reconciling
  <2>2. size = 0 \/ Initializing = {}
    BY <2>1 DEF Sized, StartsKnowing
  <2> QED BY <1>q, <2>1, <2>2 DEF executorVars, serviceVars
<1>6. CASE ClosePosition
  BY <1>6, CloseSized
<1>7. CASE (\E t \in Tasks, e \in Executors : StartStrategy(t, e) \/ Restart(t, e)) \/ Crash \/ Listen
  BY <1>7, LifeSized
<1>8. CASE UNCHANGED vars
  BY <1>8, <1>q DEF vars, ledgerVars, executorVars, serviceVars, OpenTrades
<1> QED BY <1>1, <1>2, <1>3, <1>4, <1>5, <1>6, <1>7, <1>8 DEF Next

(* Checks that have seen no position, and those that have seen one and are *)
(* to record it if they find no open trade in the end.                     *)
Lagging == {c \in Checks : ~check[c].active /\ check[c].pc \in {"trades", "reverse"}}
Watching == {c \in Checks : check[c].active /\ check[c].pc \notin {"idle", "positions"}}

ChecksServe ==
  /\ server # "up" => \A c \in Checks : check[c].pc = "idle"
  /\ \A c \in Checks : check[c].pc \notin {"idle", "positions", "trades", "reverse"} => check[c].active

(* What a check does to itself: it begins, reads the positions, ends, or   *)
(* goes on with the same answer and no new trade.                          *)
CheckOnward(c) ==
  /\ check[c].pc \notin {"idle", "positions", "reverse"} /\ check'[c].pc \notin {"idle", "positions"}
  /\ check'[c].active = check[c].active /\ check'[c].todo \subseteq check[c].todo

LEMMA CheckTyped ==
  ASSUME TypeInv, NEW c \in Checks
  PROVE  /\ DOMAIN check = Checks /\ check[c].todo \subseteq Ids /\ check[c].active \in BOOLEAN /\ check[c].pc \in CheckPc
         /\ DOMAIN check[c] = {"pc", "todo", "snap", "active", "missing", "placed"}
  BY DEF TypeInv, CheckInv, CheckOn, CheckRecord

LEMMA CheckMovesOn ==
  ASSUME TypeInv, NEW c \in Checks, check[c].pc \notin {"idle", "positions", "reverse"},
         \/ NextTrade(c)
         \/ \E pc \in CheckPc \ {"idle", "positions"} : CheckGoto(c, pc)
         \/ \E missing : check' = [check EXCEPT ![c].pc = "price", ![c].missing = missing]
         \/ \E pc \in {"save_sl", "save_tp"} : \E id : check' = [check EXCEPT ![c].pc = pc, ![c].placed = id]
  PROVE  CheckOnward(c) /\ \A d \in Checks : d # c => check'[d] = check[d]
<1>t. DOMAIN check = Checks /\ DOMAIN check[c] = {"pc", "todo", "snap", "active", "missing", "placed"}
  BY CheckTyped
<1>1. CASE NextTrade(c)
  BY <1>1, <1>t DEF NextTrade, CheckOnward
<1>2. ASSUME NEW pc \in CheckPc \ {"idle", "positions"}, CheckGoto(c, pc)
      PROVE  CheckOnward(c) /\ \A d \in Checks : d # c => check'[d] = check[d]
  BY <1>2, <1>t DEF CheckGoto, CheckOnward
<1>3. ASSUME NEW missing, check' = [check EXCEPT ![c].pc = "price", ![c].missing = missing]
      PROVE  CheckOnward(c) /\ \A d \in Checks : d # c => check'[d] = check[d]
  BY <1>3, <1>t DEF CheckOnward
<1>4. ASSUME NEW pc \in {"save_sl", "save_tp"}, NEW id, check' = [check EXCEPT ![c].pc = pc, ![c].placed = id]
      PROVE  CheckOnward(c) /\ \A d \in Checks : d # c => check'[d] = check[d]
  BY <1>4, <1>t DEF CheckOnward
<1> QED BY <1>1, <1>2, <1>3, <1>4

LEMMA NextTradePc ==
  ASSUME TypeInv, NEW c \in Checks, NextTrade(c)
  PROVE  check'[c].pc \in {"trades", "reverse"}
  BY CheckTyped DEF NextTrade

LEMMA ReconcilingMoves ==
  ASSUME TypeInv, NEW c \in Checks, StartCheck(c) \/ CheckStep(c), faults = 0, faults' = 0
  PROVE  /\ \A d \in Checks : d # c => check'[d] = check[d]
         /\ \/ StartCheck(c) /\ CheckAt(c, "idle") /\ check'[c].pc = "positions"
            \/ /\ Positions(c) /\ CheckAt(c, "positions") /\ check'[c].pc = "trades"
               /\ check'[c].active = (size > 0) /\ check'[c].todo = check[c].todo
            \/ ReverseOrphan(c) /\ CheckAt(c, "reverse") /\ check'[c].pc = "idle"
            \/ CloseOrphan(c) /\ check'[c].pc \in {"trades", "reverse"} /\ CheckOnward(c)
            \/ /\ check[c].pc = "trades" => check[c].active
               /\ CheckOnward(c) /\ ~CloseOrphan(c) /\ ~ReverseOrphan(c)
<1>t. /\ DOMAIN check = Checks /\ DOMAIN check[c] = {"pc", "todo", "snap", "active", "missing", "placed"}
      /\ LedgerTypeOK
  BY CheckTyped DEF TypeInv
<1>1. CASE StartCheck(c)
  BY <1>1, <1>t DEF StartCheck, NoCheck
<1>2. CASE Positions(c)
  BY <1>2, <1>t DEF Positions, CheckAt
<1>3. CASE ReverseOrphan(c)
  BY <1>3, <1>t DEF ReverseOrphan, EndCheck, NoCheck
<1>4. CASE CloseOrphan(c)
  BY <1>4, CheckMovesOn, NextTradePc DEF CloseOrphan, CheckAt
<1>5. ASSUME VerifyOrders(c) \/ ClosePastStop(c) \/ Repair(c) \/ ReplaceStop(c) \/ SaveStop(c) \/ ReplaceTarget(c) \/ SaveTarget(c)
             \/ ReplaceFail(c)
      PROVE  /\ check[c].pc = "trades" => check[c].active
             /\ check[c].pc \notin {"idle", "positions", "reverse"}
             /\ CheckOnward(c) /\ \A d \in Checks : d # c => check'[d] = check[d]
  <2>0. {"place_sl", "place_tp"} \subseteq CheckPc \ {"idle", "positions"}
    BY DEF CheckPc
  <2>1. check[c].pc \notin {"idle", "positions", "reverse"} /\ (check[c].pc = "trades" => check[c].active)
    BY <1>5 DEF VerifyOrders, ClosePastStop, Repair, ReplaceStop, SaveStop, ReplaceTarget, SaveTarget, ReplaceFail, CheckAt
  <2>2. CASE VerifyOrders(c) \/ ClosePastStop(c) \/ SaveTarget(c)
    BY <2>1, <2>2, CheckMovesOn DEF VerifyOrders, ClosePastStop, SaveTarget
  <2>3. CASE Repair(c)
    <3>1. CheckGoto(c, "place_sl") \/ CheckGoto(c, "place_tp")
      BY <2>3 DEF Repair
    <3> QED BY <2>0, <2>1, <3>1, CheckMovesOn
  <2>4. CASE ReplaceStop(c) \/ ReplaceTarget(c)
    BY <2>1, <2>4, CheckMovesOn DEF ReplaceStop, ReplaceTarget
  <2>5. CASE SaveStop(c) \/ ReplaceFail(c)
    <3>1. CheckGoto(c, "place_tp") \/ NextTrade(c)
      BY <2>5 DEF SaveStop, ReplaceFail, AfterStop
    <3> QED BY <2>0, <2>1, <3>1, CheckMovesOn
  <2> QED BY <1>5, <2>1, <2>2, <2>3, <2>4, <2>5
<1>6. ~RunCheckFail(c) /\ ~VerifyFail(c)
  BY <1>t DEF RunCheckFail, VerifyFail, Fault, LedgerTypeOK
<1>7. CASE VerifyOrders(c) \/ ClosePastStop(c) \/ Repair(c) \/ ReplaceStop(c) \/ SaveStop(c) \/ ReplaceTarget(c) \/ SaveTarget(c)
           \/ ReplaceFail(c)
  <2>1. ~CloseOrphan(c) /\ ~ReverseOrphan(c)
    BY <1>5, <1>7 DEF CloseOrphan, ReverseOrphan, CheckAt
  <2> QED BY <1>5, <1>7, <2>1
<1> QED BY <1>1, <1>2, <1>3, <1>4, <1>6, <1>7 DEF CheckStep

LEMMA ChecksServeStep ==
  ASSUME TypeInv, ActivationInv, ChecksServe, faults = 0, faults' = 0, [Next]_vars
  PROVE  ChecksServe'
<1>1. CASE Reconciling
  <2>1. PICK c \in Checks : StartCheck(c) \/ CheckStep(c)
    BY <1>1 DEF Reconciling, ReconciliationNext
  <2>2. server' = "up"
    BY <1>1 DEF Reconciling, serviceVars
  <2>3. check'[c].pc \in {"idle", "positions", "trades", "reverse"} \/ check'[c].active
    BY <2>1, ReconcilingMoves DEF ChecksServe, CheckOnward
  <2> QED BY <2>1, <2>2, <2>3, ReconcilingMoves DEF ChecksServe
<1>2. CASE UNCHANGED check /\ (server' = "up" \/ server # "up" \/ server' = server)
  BY <1>2 DEF ChecksServe
<1>3. CASE Crash
  BY <1>3 DEF Crash, NoCheck, ChecksServe
<1> QED BY <1>1, <1>2, <1>3, CloseMoves
     DEF Next, Market, Ticking, Cooling, StartStrategy, Restart, RestartOffline, StopStrategy, Listen, serviceVars, vars

(* What the reconciliation relies on while the position is open and stays  *)
(* so: a stop rests, so that no check closes the record for want of one;   *)
(* the record is not among those a check that saw no position is to close; *)
(* and without a record somebody is about to make one.                     *)
Bought == \E t \in Tasks : At(t, "sl")
Placing == \E t \in Tasks : task[t].pc \in {"sl", "tp", "record"}

StopsRest == Lagging # {} => Leaving \/ Bought \/ Stops # {}
Apart == Lagging # {} => Leaving \/ Placing \/ \E id \in OpenTrades : \A c \in Lagging : id \notin check[c].todo
Recorded == Leaving \/ Placing \/ OpenTrades # {} \/ server = "down" \/ Initializing # {} \/ Watching # {}
Kept == StopsRest /\ Apart /\ Recorded

LEMMA StandStops == ASSUME OrdersStand PROVE Stops \subseteq Stops'
  BY DEF OrdersStand, Stops

(* What a check does to the records.                                       *)
LEMMA ReconcilingTrades ==
  ASSUME TypeInv, NEW c \in Checks, StartCheck(c) \/ CheckStep(c)
  PROVE  \/ OpenTrades' = OpenTrades /\ ~ReverseOrphan(c)
         \/ /\ CloseOrphan(c) /\ c \in Lagging
            /\ \E id \in check[c].todo : OpenTrades' = OpenTrades \ {id}
         \/ ClosePastStop(c) /\ (size = 0 \/ Stops = {}) /\ CheckAt(c, "price")
         \/ /\ ReverseOrphan(c) /\ OpenTrades \subseteq OpenTrades'
            /\ check[c].active => OpenTrades' # {}
<1>t. LedgerTypeOK
  BY DEF TypeInv
<1>1. CASE CloseOrphan(c)
  <2>1. check[c] \in CheckOn(Ids)
    BY DEF TypeInv, CheckInv
  <2>2. check[c].todo \subseteq 1 .. Len(trades) /\ Len(trades) \in Nat /\ check[c].todo # {}
    BY <1>1, <1>t, <2>1, IdsAreTradeIds DEF CheckOn, CloseOrphan, CheckAt
  <2>3. Current(c) \in check[c].todo
    BY <2>2, LatestIsMember DEF Current
  <2>4. OpenTrades' = OpenTrades \ {Current(c)}
    BY <1>1, <1>t, CloseTradesDoes DEF CloseOrphan, OpenTrades
  <2> QED BY <1>1, <2>3, <2>4 DEF CloseOrphan, Lagging, CheckAt
<1>2. CASE ClosePastStop(c)
  BY <1>2 DEF ClosePastStop
<1>3. CASE ReverseOrphan(c)
  <2>1. CASE check[c].active /\ OpenTrades = {}
    <3>1. RecordTrade(None, None)
      BY <1>3, <2>1 DEF ReverseOrphan
    <3>2. Len(trades') \in DOMAIN trades' /\ trades'[Len(trades')].status = "open"
      BY <1>t, <3>1, RecordTradeDoes
    <3> QED BY <1>3, <2>1, <3>2 DEF OpenTrades
  <2>2. CASE ~(check[c].active /\ OpenTrades = {})
    BY <1>3, <2>2 DEF ReverseOrphan, OpenTrades
  <2> QED BY <2>1, <2>2
<1>4. CASE SaveStop(c) \/ SaveTarget(c)
  <2>1. PICK i, sl, tp : UpdateOrderIds(i, sl, tp)
    BY <1>4 DEF SaveStop, SaveTarget
  <2>2. OpenTrades' = OpenTrades
    BY <1>t, <2>1, UpdateOrderIdsDoes DEF OpenTrades
  <2> QED BY <1>4, <2>2 DEF SaveStop, SaveTarget, ReverseOrphan, CheckAt
<1>5. CASE StartCheck(c) \/ Positions(c) \/ VerifyOrders(c) \/ Repair(c) \/ ReplaceStop(c) \/ ReplaceTarget(c) \/ VerifyFail(c)
           \/ ReplaceFail(c) \/ RunCheckFail(c)
  <2>1. UNCHANGED trades
    BY <1>5 DEF StartCheck, Positions, VerifyOrders, Repair, ReplaceStop, ReplaceTarget, VerifyFail, ReplaceFail, RunCheckFail,
                ledgerVars
  <2> QED BY <1>3, <2>1 DEF OpenTrades
<1> QED BY <1>1, <1>2, <1>3, <1>4, <1>5 DEF CheckStep

LEMMA ReconcilingKept ==
  ASSUME TypeInv, ChecksServe, Kept, Reconciling, faults = 0, faults' = 0
  PROVE  Kept'
<1>1. PICK c \in Checks : StartCheck(c) \/ CheckStep(c)
  BY DEF Reconciling, ReconciliationNext
<1>2. /\ Leaving' = Leaving /\ Placing' = Placing /\ Bought' = Bought /\ Initializing' = Initializing
      /\ server' = server /\ Stops \subseteq Stops'
  BY ReconcilingStands, StandStops
     DEF Reconciling, executorVars, serviceVars, Leaving, Placing, Bought, Initializing, At, TypeInv
<1>3. CASE Leaving
  BY <1>2, <1>3 DEF Kept, StopsRest, Apart, Recorded
<1>4. CASE ~Leaving
  <2>0. size > 0
    BY <1>4 DEF Leaving, TypeInv, LedgerTypeOK
  <2>1. \A d \in Lagging' : d \in Lagging /\ check'[d].todo \subseteq check[d].todo
    <3>1. ASSUME NEW d \in Checks, d \in Lagging', d # c PROVE d \in Lagging /\ check'[d].todo \subseteq check[d].todo
      BY <1>1, <3>1, ReconcilingMoves DEF Lagging
    <3>2. ASSUME c \in Lagging' PROVE c \in Lagging /\ check'[c].todo \subseteq check[c].todo
      BY <1>1, <2>0, <3>2, ReconcilingMoves DEF Lagging, CheckOnward, ChecksServe, CheckAt, CloseOrphan
    <3> QED BY <3>1, <3>2 DEF Lagging
  <2>2. StopsRest'
    BY <1>2, <2>1 DEF Kept, StopsRest
  <2>3. Watching \subseteq Watching' \/ (ReverseOrphan(c) /\ Watching \ {c} \subseteq Watching')
    BY <1>1, ReconcilingMoves DEF Watching, CheckOnward, CheckAt
  <2>4. CASE OpenTrades \subseteq OpenTrades'
    <3>1. Apart'
      BY <1>2, <2>1, <2>4 DEF Kept, Apart
    <3>2. Recorded'
      <4>1. CASE ReverseOrphan(c) /\ c \in Watching
        <5>1. check[c].active /\ ~CloseOrphan(c) /\ ~ClosePastStop(c)
          BY <4>1 DEF Watching, ReverseOrphan, CloseOrphan, ClosePastStop, CheckAt
        <5>2. OpenTrades' # {}
          BY <1>1, <4>1, <5>1, ReconcilingTrades
        <5> QED BY <5>2 DEF Recorded
      <4>2. CASE Watching \subseteq Watching'
        BY <1>2, <2>4, <4>2 DEF Kept, Recorded
      <4> QED BY <2>3, <4>1, <4>2
    <3> QED BY <2>2, <3>1, <3>2 DEF Kept
  (* An orphan of a check that saw no position is not the record of now.   *)
  <2>5. ASSUME CloseOrphan(c), c \in Lagging, NEW id \in check[c].todo, OpenTrades' = OpenTrades \ {id}
        PROVE  Kept'
    <3>1. Placing \/ \E i \in OpenTrades' : \A d \in Lagging : i \notin check[d].todo
      BY <1>4, <2>5 DEF Kept, Apart
    <3>2. Apart' /\ Recorded'
      BY <1>2, <2>1, <3>1 DEF Apart, Recorded
    <3> QED BY <2>2, <3>2 DEF Kept
  (* Nor does a check find a stop missing while another lags.              *)
  <2>6. CASE ClosePastStop(c) /\ (size = 0 \/ Stops = {}) /\ CheckAt(c, "price")
    <3>1. c \in Watching'
      <4>1. check[c].active /\ ~ReverseOrphan(c) /\ ~StartCheck(c) /\ ~Positions(c) /\ ~CloseOrphan(c)
        BY <2>6 DEF ChecksServe, CheckAt, ReverseOrphan, StartCheck, Positions, CloseOrphan
      <4> QED BY <1>1, <4>1, ReconcilingMoves DEF CheckOnward, Watching
    <3>2. Lagging # {} => Placing
      BY <1>4, <2>6 DEF Kept, StopsRest, Bought, Placing, At, Leaving
    <3>3. Apart' /\ Recorded'
      BY <1>2, <2>1, <3>1, <3>2 DEF Apart, Recorded
    <3> QED BY <2>2, <3>3 DEF Kept
  <2> QED BY <1>1, <2>4, <2>5, <2>6, ReconcilingTrades
<1> QED BY <1>3, <1>4

(* The steps of the others.                                                *)
LEMMA OthersKept ==
  ASSUME Kept, UNCHANGED check, Leaving => Leaving' \/ Bought', OpenTrades \subseteq OpenTrades',
         Placing => Placing' \/ Leaving', Bought => Bought' \/ Leaving' \/ Stops' # {},
         Stops # {} => Stops' # {} \/ Leaving',
         server = "down" => server' = "down", Initializing # {} => Initializing' # {}
  PROVE  Kept'
<1>1. Lagging' = Lagging /\ Watching' = Watching /\ (Bought' => Placing') /\ (Bought => Placing)
  BY DEF Lagging, Watching, Bought, Placing, At
<1>2. StopsRest'
  BY <1>1 DEF Kept, StopsRest
<1>3. Apart'
  BY <1>1 DEF Kept, Apart
<1>4. Recorded'
  BY <1>1 DEF Kept, Recorded
<1> QED BY <1>2, <1>3, <1>4 DEF Kept

LEMMA LeavingKept == ASSUME Leaving' PROVE Kept'
  BY DEF Kept, StopsRest, Apart, Recorded

(* A close that lifted the orders goes on to close the position.           *)
LEMMA CloseGoesOn ==
  ASSUME TypeInv, Sized, ClosePosition, faults = 0, faults' = 0
  PROVE  /\ Leaving => Leaving'
         /\ close.pc # "idle" /\ ~CloseCancelAll => Leaving'
         /\ UNCHANGED <<orders, trades>> \/ Leaving'
<1>t. LedgerTypeOK /\ ~CloseFail
  BY DEF TypeInv, CloseFail, Fault, LedgerTypeOK
<1>1. CASE CloseRequest
  BY <1>1 DEF CloseRequest, Leaving, ledgerVars
<1>2. CASE CloseCancelAll
  <2>1. close'.pc = "close"
    BY <1>2 DEF CloseCancelAll, CloseGoto, TypeInv, ServiceInv
  <2> QED BY <1>2, <2>1 DEF Leaving
<1>3. CASE CloseMarket \/ CloseNothing
  BY <1>3 DEF CloseMarket, CloseNothing, Resize, Leaving, ledgerVars
<1>4. CASE CloseFind \/ CloseSeeOrders \/ CloseCancel \/ CloseFinish \/ CloseResume
  <2>1. UNCHANGED size /\ Emptied
    BY <1>4 DEF CloseFind, CloseSeeOrders, CloseCancel, CloseFinish, CloseResume, Emptied, ledgerVars
  <2> QED BY <2>1 DEF Sized, EmptiedWaits, Leaving
<1> QED BY <1>t, <1>1, <1>2, <1>3, <1>4 DEF ClosePosition, CloseRequest

LEMMA CloseOrdersAge ==
  ASSUME TypeInv, Sized, ClosePosition, faults = 0, faults' = 0
  PROVE  OrdersAge
<1>1. CASE UNCHANGED orders
  BY <1>1, SameOrdersStand, StandAge
<1>2. CASE (CloseCancelAll \/ CloseCancel) /\ ~UNCHANGED orders
  <2>1. Leaving'
    BY <1>2, CloseGoesOn
  <2>2. PICK ids : Cancel(ids)
    BY <1>2 DEF CloseCancelAll, CloseCancel
  <2> QED BY <2>1, <2>2 DEF Cancel, OrdersAge
<1>3. CASE ~(CloseCancelAll \/ CloseCancel) /\ ~UNCHANGED orders
  BY <1>3, CloseGoesOn
     DEF ClosePosition, CloseRequest, CloseMarket, CloseNothing, CloseFind, CloseSeeOrders, CloseFinish, CloseResume, CloseFail,
         Fault, TypeInv, LedgerTypeOK, ledgerVars
<1> QED BY <1>1, <1>2, <1>3

LEMMA ExecuteKept ==
  ASSUME TypeInv, EntryInv, ActivationInv, OneExecutor, Sized, Kept, OrdersAge, NEW t \in Tasks, Execute(t),
         UNCHANGED <<check, serviceVars>>, faults = 0, faults' = 0
  PROVE  Kept'
<1>t. LedgerTypeOK /\ DOMAIN task = Tasks /\ DOMAIN task[t] = {"pc", "e", "trade", "sl", "tp", "old", "open"}
  BY TaskTyped DEF TypeInv
<1>m. /\ t \in Executing /\ Executing = {t} /\ Monitoring = {} /\ Initializing = {} /\ task[t].pc # "idle"
      /\ ticking = task[t].e /\ ticking \in Executors /\ ticking # None
      /\ exec[ticking].status = "analyzing" /\ strategy # "none"
  BY ExecutesAlone
<1>o. Placing => task[t].pc \in {"sl", "tp", "record"}
  BY <1>m DEF Placing, Executing, ExecutePc
<1>b. Bought => At(t, "sl")
  BY <1>m DEF Bought, Executing, ExecutePc, At
<1>l. UNCHANGED size => (Leaving => Leaving')
  BY DEF Leaving, serviceVars
<1>s. server' = server /\ (Stops # {} => Stops' # {} \/ Leaving')
  BY DEF serviceVars, OrdersAge
(* The trade is opened and not recorded yet.                               *)
<1>p. ASSUME NEW pc \in {"sl", "tp", "record"}, task'[t].pc = pc, UNCHANGED trades, pc = "sl" \/ UNCHANGED size,
             pc \in {"sl", "record"} \/ Stops' # {}, pc = "record" => ~At(t, "sl")
      PROVE  Kept'
  <2>1. Placing' /\ OpenTrades' = OpenTrades /\ (pc = "sl" => Bought')
    BY <1>p DEF Placing, Bought, At, OpenTrades
  <2> QED BY <1>p, <1>b, <1>l, <1>m, <1>s, <2>1, OthersKept
<1>1. CASE Verify(t)
  BY <1>1, LeavingKept DEF Verify, Sized, EmptyAt, Leaving, ledgerVars, At
<1>2. CASE PlaceEntry(t)
  <2>1. task'[t].pc = "sl"
    BY <1>2, GotoOnward DEF PlaceEntry, Onward
  <2>2. Bought' /\ Placing' /\ OpenTrades' = OpenTrades
    BY <1>2, <1>t, <2>1, ResizeDoes DEF PlaceEntry, Buy, Bought, Placing, At, OpenTrades
  <2> QED BY <1>m, <1>s, <2>2, OthersKept
<1>3. CASE PlaceStop(t)
  <2>1. task'[t].pc = "tp" /\ UNCHANGED <<size, trades>>
    BY <1>3, <1>t DEF PlaceStop
  <2>2. Len(orders') \in Stops'
    BY <1>3, <1>t, PlaceDoes DEF PlaceStop, OrderKind, Stops
  <2> QED BY <1>p, <2>1, <2>2
<1>4. CASE PlaceTarget(t)
  <2>1. task'[t].pc = "record" /\ UNCHANGED <<size, trades>> /\ ~At(t, "sl")
    BY <1>4, <1>t DEF PlaceTarget, At
  <2> QED BY <1>p, <2>1
<1>5. CASE Record(t)
  <2>1. /\ task[t].sl \in OrderId \cup {None} /\ task[t].tp \in OrderId \cup {None} /\ RecordTrade(task[t].sl, task[t].tp)
        /\ UNCHANGED <<size, orders>> /\ At(t, "record")
    BY <1>5 DEF Record, TypeInv, ExecutorInv, TaskOn, TaskRecord
  <2> DEFINE new == Len(trades')
  <2>2. new \in DOMAIN trades' /\ trades'[new].status = "open" /\ new \notin DOMAIN trades
    BY <1>t, <2>1, RecordTradeDoes
  <2> HIDE DEF new
  <2>3. new \in OpenTrades' /\ \A c \in Lagging : new \notin check[c].todo
    BY <2>2, CheckTyped DEF OpenTrades, Lagging, Ids
  <2>4. Lagging' = Lagging /\ Stops' = Stops /\ Leaving' = Leaving
    BY <2>1 DEF Lagging, Stops, Leaving, serviceVars
  <2>5. Apart' /\ Recorded' /\ StopsRest'
    BY <1>b, <2>1, <2>3, <2>4 DEF Apart, Recorded, StopsRest, Kept, At
  <2> QED BY <2>5 DEF Kept
<1>6. CASE Opened(t)
  <2>1. UNCHANGED <<size, trades>> /\ At(t, "opened")
    BY <1>6 DEF Opened, ledgerVars
  <2>2. ~Placing /\ ~Bought /\ OpenTrades' = OpenTrades
    BY <1>o, <1>b, <2>1 DEF At, OpenTrades
  <2> QED BY <1>l, <1>m, <1>s, <2>1, <2>2, OthersKept
<1>7. CASE Refuse(t)
  BY <1>7, <1>t DEF Refuse, Sized, EmptyAt, LedgerTypeOK, At
<1>8. CASE ReduceOnlyRefused(t)
  BY <1>8, LeavingKept DEF ReduceOnlyRefused, Leaving, ledgerVars
<1>9. CASE ExecuteFail(t)
  BY <1>9, <1>t DEF ExecuteFail, Fault, LedgerTypeOK
<1> QED BY <1>1, <1>2, <1>3, <1>4, <1>5, <1>6, <1>7, <1>8, <1>9 DEF Execute

LEMMA MonitorKept ==
  ASSUME TypeInv, ActivationInv, OneExecutor, Sized, Kept, OrdersAge, NEW t \in Tasks, AdjustStops(t) \/ Check(t),
         UNCHANGED <<check, serviceVars>>, faults = 0, faults' = 0
  PROVE  Kept'
<1>m. /\ t \in Monitoring /\ Executing = {} /\ Initializing = {} /\ UNCHANGED size
      /\ ticking = task[t].e /\ ticking \in Executors /\ ticking # None
  BY ChecksAlone
<1>o. ~Placing /\ ~Bought
  BY <1>m DEF Placing, Bought, Executing, ExecutePc, At
<1>l. (Leaving => Leaving') /\ server' = server /\ (Stops # {} => Stops' # {} \/ Leaving')
  BY <1>m DEF Leaving, serviceVars, OrdersAge
<1>1. CASE CloseHistory(t)
  BY <1>1, LeavingKept DEF CloseHistory, Sized, EmptyAt, Leaving, At
<1>2. CASE ~CloseHistory(t)
  <2>1. OpenTrades' = OpenTrades
    <3>1. CASE UpdateIds(t)
      BY <3>1, UpdateOrderIdsDoes DEF UpdateIds, OpenTrades, TypeInv
    <3>2. CASE ~UpdateIds(t)
      BY <1>2, <3>2 DEF AdjustStops, AdjustSkip, AdjustDecide, PlaceBreakeven, CancelOld, AdjustFail, Check, CheckPosition, Closed,
                        CheckFail, OpenTrades, ledgerVars
    <3> QED BY <3>1, <3>2
  <2> QED BY <1>l, <1>m, <1>o, <2>1, OthersKept
<1> QED BY <1>1, <1>2

(* The service initializes before the reconciliation starts.               *)
LEMMA InitializeKept ==
  ASSUME TypeInv, ActivationInv, OneExecutor, Sized, ChecksServe, NEW t \in Tasks, Initialize(t),
         UNCHANGED <<check, serviceVars>>, faults = 0, faults' = 0
  PROVE  Kept'
<1>t. LedgerTypeOK
  BY DEF TypeInv
<1>m. t \in Initializing /\ Initializing = {t} /\ UNCHANGED size
  BY InitializesAlone
<1>1. CASE size = 0
  BY <1>1, <1>m, LeavingKept DEF Leaving
<1>2. CASE size > 0
  <2>1. Lagging' = {}
    <3>1. server = "starting"
      BY <1>2, <1>m, <1>t DEF Sized, StartsKnowing, LedgerTypeOK
    <3> QED BY <3>1 DEF ChecksServe, Lagging
  <2>2. OpenTrades' # {} \/ Initializing' # {}
    <3>1. CASE ReconcileTracked(t)
      BY <1>2, <1>m, <3>1 DEF ReconcileTracked, Sized, StartsKnowing, OpenTrades, ledgerVars
    <3>2. CASE ReconcileOrphan(t)
      <4>1. task'[t].pc = "adopt"
        BY <3>2, GotoOnward DEF ReconcileOrphan, Onward
      <4> QED BY <4>1 DEF Initializing, InitPc
    <3>3. CASE Adopt(t)
      <4>1. PICK sl \in FirstOrNone(Stops), tp \in FirstOrNone(OpenOrders \ Stops) : RecordTrade(sl, tp)
        BY <3>3 DEF Adopt
      <4>2. sl \in OrderId \cup {None} /\ tp \in OrderId \cup {None}
        BY <1>t, LenProperties DEF FirstOrNone, Stops, OpenOrders, LedgerTypeOK, OrderId
      <4> QED BY <1>t, <4>1, <4>2, RecordTradeDoes DEF OpenTrades
    <3>4. ~ReconcileFlat(t) /\ ~InitFail(t)
      BY <1>2, <1>t DEF ReconcileFlat, InitFail, Fault, LedgerTypeOK
    <3> QED BY <3>1, <3>2, <3>3, <3>4 DEF Initialize
  <2> QED BY <2>1, <2>2 DEF Kept, StopsRest, Apart, Recorded
<1> QED BY <1>1, <1>2, <1>t DEF LedgerTypeOK

LEMMA LifeKept ==
  ASSUME TypeInv, ActivationInv, OneExecutor, Sized, ChecksServe, Kept, OrdersAge, faults = 0, faults' = 0,
         \/ \E t \in Tasks, e \in Executors : StartStrategy(t, e) \/ Restart(t, e)
         \/ Crash \/ Listen
  PROVE  Kept'
<1>t. LedgerTypeOK
  BY DEF TypeInv
<1>1. ASSUME NEW t \in Tasks, NEW e \in Executors, StartStrategy(t, e) PROVE Kept'
  BY <1>1, LeavingKept DEF StartStrategy, Sized, Runs, Leaving, ledgerVars
<1>2. ASSUME NEW t \in Tasks, NEW e \in Executors, Restart(t, e) PROVE Kept'
  <2>1. Lagging' = {}
    BY <1>2, RestartDoes DEF ChecksServe, Lagging
  <2>2. Leaving' \/ Initializing' # {}
    <3>1. CASE strategy = "active"
      BY <1>2, <3>1, RestartDoes DEF Initializing, InitPc
    <3>2. CASE strategy # "active"
      BY <1>2, <3>2, RestartDoes DEF OneExecutor, NeverStopped, TypeInv, ServiceInv, Sized, Runs, Leaving
    <3> QED BY <3>1, <3>2
  <2> QED BY <2>1, <2>2 DEF Kept, StopsRest, Apart, Recorded
<1>3. CASE Crash
  <2>1. Lagging' = {} /\ server' = "down"
    BY <1>3 DEF Crash, Lagging, NoCheck
  <2> QED BY <2>1 DEF Kept, StopsRest, Apart, Recorded
<1>4. CASE Listen
  <2>1. /\ UNCHANGED <<size, trades, task, close, check>> /\ server = "starting" /\ Initializing = {}
    BY <1>4 DEF Listen, ledgerVars, executorVars, Initializing
  <2>2. OpenTrades' = OpenTrades /\ Leaving' = Leaving /\ Placing' = Placing /\ Bought' = Bought
    BY <2>1 DEF OpenTrades, Leaving, Placing, Bought, At
  <2> QED BY <2>1, <2>2, OthersKept DEF OrdersAge
<1> QED BY <1>1, <1>2, <1>3, <1>4

LEMMA KeptStep ==
  ASSUME TypeInv, EntryInv, ActivationInv, OneExecutor, Sized, ChecksServe, Kept, OrdersAge, MaxStops = 0,
         faults = 0, faults' = 0, [Next]_vars
  PROVE  Kept'
<1>k. ASSUME UNCHANGED <<check, task, server>>, OpenTrades' = OpenTrades, Leaving => Leaving'
      PROVE  Kept'
  <2>1. Placing' = Placing /\ Bought' = Bought /\ Initializing' = Initializing
    BY <1>k DEF Placing, Bought, Initializing, At
  <2> QED BY <1>k, <2>1, OthersKept DEF OrdersAge
<1>1. CASE Market
  BY <1>1, FillFlat, LeavingKept DEF Market, EntryInv, TypeInv, Leaving
<1>2. CASE Ticking
  <2>0. UNCHANGED <<check, serviceVars>>
    BY <1>2 DEF Ticking
  <2>1. CASE TickAnalyze
    BY <1>k, <2>0, <2>1 DEF TickAnalyze, OpenTrades, Leaving, ledgerVars, serviceVars
  <2>2. ASSUME NEW t \in Tasks, Tick(t) PROVE Kept'
    <3>1. UNCHANGED ledgerVars /\ At(t, "idle") /\ \A u \in Tasks : u # t => task'[u] = task[u]
      BY <2>2, TickMoves DEF TickBegins
    <3>2. (Placing => Placing') /\ (Bought => Bought') /\ Initializing \subseteq Initializing'
      BY <3>1 DEF Placing, Bought, Initializing, InitPc, At
    <3>3. OpenTrades' = OpenTrades /\ Leaving' = Leaving /\ Stops' = Stops /\ server' = server /\ UNCHANGED check
      BY <2>0, <3>1 DEF OpenTrades, Leaving, Stops, ledgerVars, serviceVars
    <3> QED BY <3>2, <3>3, OthersKept
  <2>3. ASSUME NEW t \in Tasks, TaskStep(t) PROVE Kept'
    BY <2>0, <2>3, ExecuteKept, MonitorKept, InitializeKept DEF TaskStep
  <2> QED BY <1>2, <2>1, <2>2, <2>3 DEF Ticking, ExecutorNext
<1>3. CASE Cooling
  BY <1>3, <1>k DEF Cooling, CooldownEnds, OpenTrades, Leaving, ledgerVars, serviceVars
<1>4. ~StopStrategy /\ ~RestartOffline
  BY DEF StopStrategy, TypeInv, ServiceInv, RestartOffline, Fault
<1>5. CASE Reconciling
  BY <1>5, ReconcilingKept
<1>6. CASE ClosePosition
  <2>1. CASE Leaving'
    BY <2>1, LeavingKept
  <2>2. CASE UNCHANGED <<orders, trades>> /\ ~Leaving'
    BY <1>6, <1>k, <2>2, CloseGoesOn, CloseMoves DEF OpenTrades
  <2> QED BY <1>6, <2>1, <2>2, CloseGoesOn
<1>7. CASE (\E t \in Tasks, e \in Executors : StartStrategy(t, e) \/ Restart(t, e)) \/ Crash \/ Listen
  BY <1>7, LifeKept
<1>8. CASE UNCHANGED vars
  BY <1>8, <1>k DEF vars, ledgerVars, executorVars, serviceVars, OpenTrades, Leaving
<1> QED BY <1>1, <1>2, <1>3, <1>4, <1>5, <1>6, <1>7, <1>8 DEF Next

KeepsTrade == faults = 0 => Sized /\ ChecksServe /\ BreakevenRests /\ Kept

LEMMA KeepsTradeStep ==
  ASSUME TypeInv, EntryInv, ActivationInv, OneExecutor, KeepsTrade, late' = {}, MaxStops = 0, [Next]_vars
  PROVE  KeepsTrade'
<1> SUFFICES ASSUME faults' = 0 PROVE (Sized /\ ChecksServe /\ BreakevenRests /\ Kept)'
  BY DEF KeepsTrade
<1>1. faults = 0 /\ Sized /\ ChecksServe /\ BreakevenRests /\ Kept
  BY FaultsGrow DEF KeepsTrade
<1>2. OrdersAge
  BY <1>1, CloseOrdersAge, OrdersAgeStep
<1>3. Crash \/ (Monitoring # {} /\ Leaving => Leaving')
  <2>1. UNCHANGED close \/ ClosePosition \/ Crash
    BY DEF Next, Market, Ticking, Cooling, Reconciling, StartStrategy, Restart, RestartOffline, StopStrategy, Listen,
           serviceVars, vars
  <2> QED BY <1>1, <2>1, StaysFlat, CloseGoesOn DEF Leaving
<1> QED BY <1>1, <1>2, <1>3, SizedStep, ChecksServeStep, BreakevenRestsStep, KeptStep

LEMMA KeepsTradeInit == Init => KeepsTrade
<1> SUFFICES ASSUME Init PROVE Sized /\ ChecksServe /\ BreakevenRests /\ Kept
  BY DEF KeepsTrade
<1>1. /\ size = 0 /\ ticking = None /\ close.pc = "idle" /\ \A c \in Checks : check[c].pc = "idle"
      /\ strategy = "none" /\ \A t \in Tasks : task[t].pc = "idle" /\ server = "up"
  BY DEF Init, LedgerInit, ExecutorInit, ReconciliationInit, NoTask, NoClose, NoCheck
<1>2. Initializing = {} /\ Lagging = {} /\ Leaving
  BY <1>1, KindsDiffer DEF Initializing, Lagging, Leaving
<1>3. Runs /\ EmptyAt /\ WaitsEmpty /\ HoldsSome /\ StartsKnowing /\ EmptiedWaits
  BY <1>1, <1>2 DEF Runs, EmptyAt, WaitsEmpty, HoldsSome, StartsKnowing, EmptiedWaits, Emptied, At
<1>4. ChecksServe /\ BreakevenRests /\ Kept
  BY <1>1, <1>2 DEF ChecksServe, BreakevenRests, Kept, StopsRest, Apart, Recorded, At
<1> QED BY <1>3, <1>4 DEF Sized

LEMMA KeepsTradeSays ==
  ASSUME TypeInv, KeepsTrade
  PROVE  PositionTracked
<1> SUFFICES ASSUME Quiet, faults = 0, size > 0 PROVE OpenTrades # {}
  BY DEF PositionTracked
<1>1. Recorded /\ size # 0
  BY DEF KeepsTrade, Kept
<1>2. ~Leaving /\ ~Placing /\ Initializing = {} /\ Watching = {} /\ server # "down"
  BY <1>1, KindsDiffer DEF Quiet, Leaving, Placing, Initializing, Watching, At, CheckAt
<1> QED BY <1>1, <1>2 DEF Recorded

(* As long as no request failed, a position nobody is working on has an    *)
(* open trade: executeTrade and createTradeFromPosition record what they   *)
(* find, and no close, restart or check closes the record of a position    *)
(* still held, but one that will record it again ("Check for reverse       *)
(* orphans"), for any number of checks in flight.                          *)
THEOREM PositionHasTrade ==
  ASSUME ~Slow, MaxStops = 0
  PROVE  Spec => []PositionTracked
<1> DEFINE Inv == EntryInv /\ ActivationInv /\ OneExecutor /\ KeepsTrade
<1>4. Spec => [](late = {})
  BY NeverLate
<1>1. Init => Inv
  BY EntryInvInit, ActivationInvInit, OneExecutorInit, KeepsTradeInit
<1>2. TypeInv /\ Inv /\ (late = {})' /\ [Next]_vars => Inv'
  BY EntryInvStep, ActivationInvStep, OneExecutorStep, KeepsTradeStep
<1>3. TypeInv /\ Inv => PositionTracked
  BY KeepsTradeSays
<1> QED
  BY <1>1, <1>2, <1>3, <1>4, TypeInvAlways, PTL DEF Spec

===============================================================================
