------------------------ MODULE TradeLifecycle_proofs ------------------------
(***************************************************************************)
(* Proofs about TradeLifecycle, for any numbers of executors, activations  *)
(* and checks, and whatever the bounds.                                    *)
(***************************************************************************)
EXTENDS TradeLifecycle, SequenceTheorems, WellFoundedInduction, TLAPS

-----------------------------------------------------------------------------
(* What the operations on the ledger preserve *)

(* ORDER BY entryTime DESC LIMIT 1 finds one of the trades asked for, when *)
(* there is one.                                                           *)
LEMMA LatestIsMember ==
  ASSUME NEW n \in Nat, NEW ids \in SUBSET (1 .. n), ids # {}
  PROVE  Latest(ids) \in ids
<1> DEFINE Bounds == {m \in Nat : \A id \in ids : id <= m}
<1>1. Bounds \subseteq Nat /\ n \in Bounds
  OBVIOUS
<1> HIDE DEF Bounds
<1>2. PICK m \in Bounds : \A k \in Bounds : m <= k
  <2>1. PICK m \in Bounds : \A k \in Bounds : <<k, m>> \notin OpToRel(<, Nat)
    BY <1>1, NatLessThanWellFounded, WFMin
  <2>2. \A k \in Bounds : ~(k < m)
    BY <1>1, <2>1 DEF OpToRel
  <2> QED
    BY <1>1, <2>2
<1>3. m \in ids
  <2>1. SUFFICES ASSUME m \notin ids PROVE FALSE
    OBVIOUS
  <2>2. \A id \in ids : id < m /\ id \in Nat /\ id >= 1
    BY <1>2, <2>1 DEF Bounds
  <2>3. m \in Nat /\ m - 1 \in Nat
    <3>1. PICK id \in ids : TRUE
      OBVIOUS
    <3> QED
      BY <1>1, <2>2, <3>1
  <2>4. m - 1 \in Bounds
    BY <2>2, <2>3 DEF Bounds
  <2> QED
    BY <1>2, <2>3, <2>4
<1> QED
  BY <1>3 DEF Latest, Bounds

(* A change of the position's size keeps the records. *)
LEMMA ResizeKeeps ==
  ASSUME LedgerTypeOK, NEW n \in Nat, Resize(n)
  PROVE  size' \in Nat /\ trades' \in Seq(Trade) /\ Len(trades') = Len(trades)
<1>1. \A id \in 1 .. Len(trades) : [trades[id] EXCEPT !.flat = @ \/ n = 0] \in Trade
  <2>1. \A r \in Trade : [r EXCEPT !.flat = @ \/ n = 0] \in Trade
    BY DEF Trade
  <2> QED
    BY <2>1, ElementOfSeq DEF LedgerTypeOK
<1>2. trades' = [id \in 1 .. Len(trades) |-> [trades[id] EXCEPT !.flat = @ \/ n = 0]]
  BY DEF Resize, LedgerTypeOK
<1> QED
  BY <1>1, <1>2, LenProperties DEF Resize, LedgerTypeOK

LEMMA CloseTradesKeeps ==
  ASSUME LedgerTypeOK, NEW ids, CloseTrades(ids)
  PROVE  trades' \in Seq(Trade) /\ Len(trades') = Len(trades)
<1> DEFINE Row(id) == IF id \in ids THEN [trades[id] EXCEPT !.status = "closed"] ELSE trades[id]
<1>1. \A id \in 1 .. Len(trades) : Row(id) \in Trade
  <2>1. \A r \in Trade : [r EXCEPT !.status = "closed"] \in Trade
    BY DEF Trade
  <2> QED
    BY <2>1, ElementOfSeq DEF LedgerTypeOK
<1>2. trades' = [id \in 1 .. Len(trades) |-> Row(id)]
  BY DEF CloseTrades, LedgerTypeOK
<1> HIDE DEF Row
<1> QED
  BY <1>1, <1>2, LenProperties DEF LedgerTypeOK

LEMMA UpdateOrderIdsKeeps ==
  ASSUME LedgerTypeOK, NEW id, NEW sl \in OrderId \cup {None}, NEW tp \in OrderId \cup {None},
         UpdateOrderIds(id, sl, tp)
  PROVE  trades' \in Seq(Trade) /\ Len(trades') = Len(trades)
<1>1. CASE id \in 1 .. Len(trades)
  <2> DEFINE row == [trades[id] EXCEPT !.sl = IF sl = None THEN @ ELSE sl,
                                       !.tp = IF tp = None THEN @ ELSE tp]
  <2>1. row \in Trade
    <3>1. \A r \in Trade : [r EXCEPT !.sl = IF sl = None THEN @ ELSE sl,
                                    !.tp = IF tp = None THEN @ ELSE tp] \in Trade
      BY DEF Trade
    <3>2. trades[id] \in Trade
      BY <1>1, ElementOfSeq DEF LedgerTypeOK
    <3> QED
      BY <3>1, <3>2
  <2>2. trades' = [trades EXCEPT ![id] = row]
    BY <1>1 DEF UpdateOrderIds, LedgerTypeOK, Trade
  <2> HIDE DEF row
  <2> QED
    BY <1>1, <2>1, <2>2, ExceptSeq DEF LedgerTypeOK
<1>2. CASE id \notin 1 .. Len(trades)
  BY <1>2, LenProperties DEF UpdateOrderIds, LedgerTypeOK
<1> QED
  BY <1>1, <1>2

LEMMA RecordTradeAdds ==
  ASSUME LedgerTypeOK, NEW sl \in OrderId \cup {None}, NEW tp \in OrderId \cup {None},
         RecordTrade(sl, tp)
  PROVE  /\ trades' \in Seq(Trade)
         /\ Len(trades') = Len(trades) + 1
         /\ Len(trades') \in TradeId
<1>1. [status |-> "open", sl |-> sl, tp |-> tp, flat |-> size = 0] \in Trade
  BY DEF Trade
<1> QED
  BY <1>1, AppendProperties DEF RecordTrade, LedgerTypeOK, TradeId

LEMMA PlaceAdds ==
  ASSUME LedgerTypeOK, NEW kind \in OrderKind, Place(kind)
  PROVE  orders' \in Seq(OrderKind) /\ Len(orders') \in OrderId
BY AppendProperties DEF Place, LedgerTypeOK, OrderId

LEMMA CancelKeeps ==
  ASSUME LedgerTypeOK, NEW ids, Cancel(ids)
  PROVE  orders' \in Seq(OrderKind)
<1> DEFINE Kind(o) == IF o \in ids THEN "gone" ELSE orders[o]
<1>1. \A o \in 1 .. Len(orders) : Kind(o) \in OrderKind
  BY DEF LedgerTypeOK, OrderKind
<1>2. orders' = [o \in 1 .. Len(orders) |-> Kind(o)]
  BY DEF Cancel, LedgerTypeOK
<1> HIDE DEF Kind
<1> QED
  BY <1>1, <1>2, IsASeq DEF LedgerTypeOK

-----------------------------------------------------------------------------
(* Type correctness needs to know more than types: an id found in an       *)
(* executor, an activation or a check is that of a record, and a check     *)
(* that compares trades has one to compare.                                *)

Ids == DOMAIN trades

ExecutorOn(ids) == {r \in Executor : r.tradeId \in ids \cup {None}}

TaskRecord == [pc: TaskPc, e: Executors \cup {None}, trade: TradeId \cup {None},
               sl: OrderId \cup {None}, tp: OrderId \cup {None}, old: OrderId \cup {None},
               open: SUBSET TradeId]

TaskOn(ids) ==
  {r \in TaskRecord : /\ r.pc # "idle" => r.e \in Executors
                      /\ r.trade \in ids \cup {None}
                      /\ r.open \subseteq ids}

CheckRecord == [pc: CheckPc, todo: SUBSET TradeId, snap: Seq(Trade), active: BOOLEAN,
                missing: SUBSET {"sl", "tp"}, placed: OrderId \cup {None}]

CheckOn(ids) ==
  {r \in CheckRecord : /\ r.todo \subseteq DOMAIN r.snap
                       /\ DOMAIN r.snap \subseteq ids
                       /\ r.pc \notin {"idle", "reverse"} => r.todo # {}}

ExecutorInv ==
  /\ exec \in [Executors -> ExecutorOn(Ids)]
  /\ ticking \in Executors \cup {None}
  /\ task \in [Tasks -> TaskOn(Ids)]

CheckInv == check \in [Checks -> CheckOn(Ids)]

ServiceInv ==
  /\ server \in {"down", "starting", "up"}
  /\ sweeping \in BOOLEAN
  /\ strategy \in {"none", "active", "stopped"}
  /\ close \in [pc: {"idle", "cancel_all", "close", "find", "cleanup", "cancel", "finish",
                     "resume"},
                seen: SUBSET OrderId, trade: TradeId \cup {None}]
  /\ used \in [restarts: Nat, stops: Nat, closes: Nat]

TypeInv == LedgerTypeOK /\ ExecutorInv /\ CheckInv /\ ServiceInv

LateInv == late \subseteq {"candle", "cooldown"}

(* What every step does to the ledger: its types, and no record is lost.   *)
LedgerKept == LedgerTypeOK' /\ Ids \subseteq Ids'

LEMMA TypeInvImpliesTypeOK == TypeInv /\ LateInv => TypeOK
BY DEF TypeInv, LateInv, TypeOK, ExecutorInv, CheckInv, ServiceInv, ExecutorTypeOK, ReconciliationTypeOK,
       ExecutorOn, TaskOn, CheckOn, TaskRecord, CheckRecord

LEMMA IdsAreTradeIds ==
  ASSUME LedgerTypeOK
  PROVE  Ids = 1 .. Len(trades) /\ Len(trades) \in Nat /\ Ids \subseteq TradeId
BY LenProperties DEF LedgerTypeOK, Ids, TradeId

(* Steps that leave a part of the state alone keep what is said of it.     *)
LEMMA ExecutorsKept ==
  ASSUME ExecutorInv, LedgerKept, UNCHANGED executorVars
  PROVE  ExecutorInv'
BY DEF ExecutorInv, LedgerKept, executorVars, ExecutorOn, TaskOn

LEMMA ExecKept ==
  ASSUME ExecutorInv, LedgerKept, UNCHANGED exec
  PROVE  exec' \in [Executors -> ExecutorOn(Ids')]
BY DEF ExecutorInv, LedgerKept, ExecutorOn

LEMMA TasksKept ==
  ASSUME ExecutorInv, LedgerKept, UNCHANGED task
  PROVE  task' \in [Tasks -> TaskOn(Ids')]
BY DEF ExecutorInv, LedgerKept, TaskOn

LEMMA ChecksKept ==
  ASSUME CheckInv, LedgerKept, UNCHANGED check
  PROVE  CheckInv'
BY DEF CheckInv, LedgerKept, CheckOn

(* One executor, one activation or one check changes. *)
LEMMA ExecChanges ==
  ASSUME ExecutorInv, LedgerKept, NEW e, NEW r \in ExecutorOn(Ids'),
         exec' = [exec EXCEPT ![e] = r]
  PROVE  exec' \in [Executors -> ExecutorOn(Ids')]
BY DEF ExecutorInv, LedgerKept, ExecutorOn

LEMMA TaskChanges ==
  ASSUME ExecutorInv, LedgerKept, NEW t \in Tasks, NEW r \in TaskOn(Ids'),
         task' = [task EXCEPT ![t] = r]
  PROVE  task' \in [Tasks -> TaskOn(Ids')]
BY DEF ExecutorInv, LedgerKept, TaskOn

LEMMA CheckChanges ==
  ASSUME CheckInv, LedgerKept, NEW c \in Checks, NEW r \in CheckOn(Ids'),
         check' = [check EXCEPT ![c] = r]
  PROVE  CheckInv'
BY DEF CheckInv, LedgerKept, CheckOn

LEMMA NoTaskFits == \A ids : NoTask \in TaskOn(ids)
BY DEF NoTask, TaskOn, TaskRecord, TaskPc

LEMMA EndKeeps ==
  ASSUME ExecutorInv, LedgerKept, NEW t \in Tasks, End(t)
  PROVE  task' \in [Tasks -> TaskOn(Ids')]
BY NoTaskFits, TaskChanges DEF End

LEMMA GotoKeeps ==
  ASSUME ExecutorInv, LedgerKept, NEW t \in Tasks, ~At(t, "idle"), NEW pc \in TaskPc, Goto(t, pc)
  PROVE  task' \in [Tasks -> TaskOn(Ids')]
<1>1. task' = [task EXCEPT ![t] = [task[t] EXCEPT !.pc = pc]]
  BY DEF Goto
<1>2. task[t] \in TaskOn(Ids)
  BY DEF ExecutorInv
<1>3. [task[t] EXCEPT !.pc = pc] \in TaskOn(Ids')
  BY <1>2 DEF TaskOn, TaskRecord, LedgerKept, At
<1> QED
  BY <1>1, <1>3, TaskChanges

LEMMA ResumeKeeps ==
  ASSUME ExecutorInv, LedgerKept, NEW t \in Tasks, NEW id \in Ids' \cup {None}, Resume(t, id),
         LedgerTypeOK'
  PROVE  /\ exec' \in [Executors -> ExecutorOn(Ids')]
         /\ task' \in [Tasks -> TaskOn(Ids')]
<1>1. Ids' \subseteq TradeId
  BY IdsAreTradeIds, LenProperties DEF LedgerTypeOK, Ids, TradeId
<1>2. [status |-> "analyzing", tradeId |-> id, cooling |-> TRUE] \in ExecutorOn(Ids')
  BY <1>1 DEF ExecutorOn, Executor
<1> QED
  BY <1>2, ExecChanges, EndKeeps DEF Resume

-----------------------------------------------------------------------------
LEMMA LedgerStep ==
  ASSUME LedgerTypeOK, size' \in Nat, entries' \in Nat, faults' \in Nat,
         orders' \in Seq(OrderKind), trades' \in Seq(Trade), Len(trades) <= Len(trades')
  PROVE  LedgerKept
BY LenProperties DEF LedgerTypeOK, LedgerKept, Ids

LEMMA LedgerUnchanged ==
  ASSUME LedgerTypeOK, UNCHANGED ledgerVars
  PROVE  LedgerKept
BY DEF LedgerTypeOK, LedgerKept, Ids, ledgerVars

LEMMA FaultStep ==
  ASSUME LedgerTypeOK, faults' = faults \/ Fault
  PROVE  faults' \in Nat
BY DEF Fault, LedgerTypeOK

LEMMA BuyStep ==
  ASSUME LedgerTypeOK, Buy
  PROVE  size' \in Nat /\ entries' \in Nat /\ trades' \in Seq(Trade) /\ Len(trades') = Len(trades)
<1>1. Resize(size + 1) /\ size + 1 \in Nat
  BY DEF Buy, LedgerTypeOK
<1> QED
  BY <1>1, ResizeKeeps DEF Buy, LedgerTypeOK

(* executeTrade *)
LEMMA ExecuteKeeps ==
  ASSUME LedgerTypeOK, ExecutorInv, NEW t \in Tasks, Execute(t)
  PROVE  LedgerKept /\ ExecutorInv'
<1> USE DEF ExecutorInv
<1>t. task[t] \in TaskOn(Ids)
  OBVIOUS
<1>g. ASSUME LedgerKept, GiveUp(t), ~At(t, "idle"), UNCHANGED ticking
      PROVE  ExecutorInv'
  <2>1. task[t].e \in Executors
    BY <1>g, <1>t DEF TaskOn, At
  <2>2. exec[task[t].e] \in ExecutorOn(Ids)
    BY <2>1
  <2> DEFINE r == [exec[task[t].e] EXCEPT !.status = "analyzing", !.cooling = TRUE]
  <2>3. r \in ExecutorOn(Ids')
    BY <1>g, <2>2 DEF ExecutorOn, Executor, LedgerKept
  <2>4. exec' = [exec EXCEPT ![task[t].e] = r]
    BY <1>g, <2>1, <2>2 DEF GiveUp, ExecutorOn, Executor
  <2> HIDE DEF r
  <2> QED
    BY <1>g, <2>3, <2>4, ExecChanges, EndKeeps DEF GiveUp
<1>1. CASE Verify(t)
  <2>1. LedgerKept
    BY <1>1, LedgerUnchanged DEF Verify
  <2> QED
    BY <1>1, <2>1, GotoKeeps, ExecKept DEF Verify, At, TaskPc, ExecutePc
<1>2. CASE Refuse(t)
  <2>1. LedgerKept
    BY <1>2, LedgerUnchanged DEF Refuse
  <2> QED
    BY <1>2, <1>g, <2>1 DEF Refuse, At
<1>3. CASE PlaceEntry(t)
  <2>1. LedgerKept
    BY <1>3, BuyStep, LedgerStep, LenProperties DEF PlaceEntry, LedgerTypeOK
  <2> QED
    BY <1>3, <2>1, GotoKeeps, ExecKept DEF PlaceEntry, At, TaskPc, ExecutePc
<1>4. CASE PlaceStop(t)
  <2>1. orders' \in Seq(OrderKind) /\ Len(orders') \in OrderId
    BY <1>4, PlaceAdds DEF PlaceStop, OrderKind
  <2>2. LedgerKept
    BY <1>4, <2>1, LedgerStep, LenProperties DEF PlaceStop, LedgerTypeOK
  <2> DEFINE r == [task[t] EXCEPT !.pc = "tp", !.sl = Len(orders')]
  <2>3. r \in TaskOn(Ids')
    BY <1>4, <1>t, <2>1, <2>2 DEF PlaceStop, At, TaskOn, TaskRecord, LedgerKept, TaskPc, ExecutePc
  <2>4. task' = [task EXCEPT ![t] = r]
    BY <1>4, <1>t DEF PlaceStop, TaskOn, TaskRecord
  <2> HIDE DEF r
  <2> QED
    BY <1>4, <2>2, <2>3, <2>4, TaskChanges, ExecKept DEF PlaceStop
<1>5. CASE PlaceTarget(t)
  <2>1. orders' \in Seq(OrderKind) /\ Len(orders') \in OrderId
    BY <1>5, PlaceAdds DEF PlaceTarget, OrderKind
  <2>2. LedgerKept
    BY <1>5, <2>1, LedgerStep, LenProperties DEF PlaceTarget, LedgerTypeOK
  <2> DEFINE r == [task[t] EXCEPT !.pc = "record", !.tp = Len(orders')]
  <2>3. r \in TaskOn(Ids')
    BY <1>5, <1>t, <2>1, <2>2 DEF PlaceTarget, At, TaskOn, TaskRecord, LedgerKept, TaskPc, ExecutePc
  <2>4. task' = [task EXCEPT ![t] = r]
    BY <1>5, <1>t DEF PlaceTarget, TaskOn, TaskRecord
  <2> HIDE DEF r
  <2> QED
    BY <1>5, <2>2, <2>3, <2>4, TaskChanges, ExecKept DEF PlaceTarget
<1>6. CASE Record(t)
  <2>1. task[t].sl \in OrderId \cup {None} /\ task[t].tp \in OrderId \cup {None}
    BY <1>t DEF TaskOn, TaskRecord
  <2>2. /\ trades' \in Seq(Trade) /\ Len(trades') = Len(trades) + 1
        /\ Len(trades') \in TradeId
    BY <1>6, <2>1, RecordTradeAdds DEF Record
  <2>3. LedgerKept
    BY <1>6, <2>2, LedgerStep, LenProperties DEF Record, LedgerTypeOK
  <2>4. Len(trades') \in Ids'
    BY <2>2, LenProperties DEF Ids, TradeId
  <2> DEFINE r == [task[t] EXCEPT !.pc = "opened", !.trade = Len(trades')]
  <2>5. r \in TaskOn(Ids')
    BY <1>6, <1>t, <2>2, <2>3, <2>4 DEF Record, At, TaskOn, TaskRecord, LedgerKept, TaskPc, ExecutePc
  <2>6. task' = [task EXCEPT ![t] = r]
    BY <1>6, <1>t DEF Record, TaskOn, TaskRecord
  <2> HIDE DEF r
  <2> QED
    BY <1>6, <2>3, <2>5, <2>6, TaskChanges, ExecKept DEF Record
<1>7. CASE Opened(t)
  <2>1. LedgerKept
    BY <1>7, LedgerUnchanged DEF Opened
  <2>2. [status |-> "position_open", tradeId |-> task[t].trade, cooling |-> TRUE]
          \in ExecutorOn(Ids')
    BY <1>t, <2>1 DEF ExecutorOn, Executor, TaskOn, TaskRecord, LedgerKept
  <2> QED
    BY <1>7, <2>1, <2>2, ExecChanges, EndKeeps DEF Opened
<1>8. CASE ExecuteFail(t)
  <2>1. faults' \in Nat
    BY <1>8, FaultStep DEF ExecuteFail
  <2>2. LedgerKept
    <3>1. CASE UNCHANGED <<size, entries, orders, trades>>
      BY <2>1, <3>1, LedgerStep, LenProperties DEF LedgerTypeOK
    <3>2. CASE Buy /\ UNCHANGED orders
      BY <2>1, <3>2, BuyStep, LedgerStep, LenProperties DEF LedgerTypeOK
    <3>3. CASE Place("sl") /\ UNCHANGED <<size, entries, trades>>
      BY <2>1, <3>3, PlaceAdds, LedgerStep, LenProperties DEF LedgerTypeOK, OrderKind
    <3>4. CASE Place("tp") /\ UNCHANGED <<size, entries, trades>>
      BY <2>1, <3>4, PlaceAdds, LedgerStep, LenProperties DEF LedgerTypeOK, OrderKind
    <3> QED
      BY <1>8, <3>1, <3>2, <3>3, <3>4 DEF ExecuteFail
  <2> QED
    BY <1>8, <1>g, <2>2 DEF ExecuteFail, At
<1>9. CASE ReduceOnlyRefused(t)
  <2>1. LedgerKept
    BY <1>9, LedgerUnchanged DEF ReduceOnlyRefused
  <2> QED
    BY <1>9, <1>g, <2>1 DEF ReduceOnlyRefused, At
<1> QED
  BY <1>1, <1>2, <1>3, <1>4, <1>5, <1>6, <1>7, <1>8, <1>9 DEF Execute

(* maybeAdjustStops *)
LEMMA AdjustStopsKeeps ==
  ASSUME LedgerTypeOK, ExecutorInv, NEW t \in Tasks, AdjustStops(t)
  PROVE  LedgerKept /\ ExecutorInv'
<1> USE DEF ExecutorInv
<1>t. task[t] \in TaskOn(Ids)
  OBVIOUS
<1>o. OpenOrders \subseteq OrderId /\ Stops \subseteq OrderId
  BY LenProperties DEF LedgerTypeOK, OpenOrders, Stops, OrderId
<1>1. CASE AdjustSkip(t)
  <2>1. LedgerKept
    BY <1>1, LedgerUnchanged DEF AdjustSkip
  <2> QED
    BY <1>1, <2>1, GotoKeeps, ExecKept DEF AdjustSkip, At, TaskPc, MonitorPc
<1>2. CASE AdjustDecide(t)
  <2>1. LedgerKept
    BY <1>2, LedgerUnchanged DEF AdjustDecide
  <2>2. PICK old \in OrderId \cup {None} :
               task' = [task EXCEPT ![t].pc = "place", ![t].old = old]
    BY <1>2, <1>o DEF AdjustDecide
  <2> DEFINE r == [task[t] EXCEPT !.pc = "place", !.old = old]
  <2>3. r \in TaskOn(Ids')
    BY <1>2, <1>t, <2>1 DEF AdjustDecide, At, TaskOn, TaskRecord, LedgerKept, TaskPc, MonitorPc
  <2>4. task' = [task EXCEPT ![t] = r]
    BY <1>t, <2>2 DEF TaskOn, TaskRecord
  <2> HIDE DEF r
  <2> QED
    BY <1>2, <2>1, <2>3, <2>4, TaskChanges, ExecKept DEF AdjustDecide
<1>3. CASE PlaceBreakeven(t)
  <2>1. orders' \in Seq(OrderKind) /\ Len(orders') \in OrderId
    BY <1>3, PlaceAdds DEF PlaceBreakeven, OrderKind
  <2>2. LedgerKept
    BY <1>3, <2>1, LedgerStep, LenProperties DEF PlaceBreakeven, LedgerTypeOK
  <2> DEFINE r == [task[t] EXCEPT !.pc = IF task[t].old = None THEN "update" ELSE "cancel",
                                  !.sl = Len(orders')]
  <2>3. r \in TaskOn(Ids')
    BY <1>3, <1>t, <2>1, <2>2 DEF PlaceBreakeven, At, TaskOn, TaskRecord, LedgerKept, TaskPc, MonitorPc
  <2>4. task' = [task EXCEPT ![t] = r]
    BY <1>3, <1>t DEF PlaceBreakeven, TaskOn, TaskRecord
  <2> HIDE DEF r
  <2> QED
    BY <1>3, <2>2, <2>3, <2>4, TaskChanges, ExecKept DEF PlaceBreakeven
<1>4. CASE CancelOld(t)
  <2>1. faults' \in Nat /\ orders' \in Seq(OrderKind)
    BY <1>4, FaultStep, CancelKeeps DEF CancelOld, LedgerTypeOK
  <2>2. LedgerKept
    BY <1>4, <2>1, LedgerStep, LenProperties DEF CancelOld, LedgerTypeOK
  <2> QED
    BY <1>4, <2>2, GotoKeeps, ExecKept DEF CancelOld, At, TaskPc, MonitorPc
<1>5. CASE UpdateIds(t)
  <2>1. task[t].sl \in OrderId \cup {None} /\ task[t].tp \in OrderId \cup {None}
    BY <1>t DEF TaskOn, TaskRecord
  <2>2. trades' \in Seq(Trade) /\ Len(trades') = Len(trades)
    BY <1>5, <2>1, UpdateOrderIdsKeeps DEF UpdateIds
  <2>3. LedgerKept
    BY <1>5, <2>2, LedgerStep, LenProperties DEF UpdateIds, LedgerTypeOK
  <2> QED
    BY <1>5, <2>3, GotoKeeps, ExecKept DEF UpdateIds, At, TaskPc, MonitorPc
<1>6. CASE AdjustFail(t)
  <2>1. faults' \in Nat /\ orders' \in Seq(OrderKind)
    BY <1>6, FaultStep, PlaceAdds DEF AdjustFail, LedgerTypeOK, OrderKind
  <2>2. LedgerKept
    BY <1>6, <2>1, LedgerStep, LenProperties DEF AdjustFail, LedgerTypeOK
  <2> QED
    BY <1>6, <2>2, GotoKeeps, ExecKept DEF AdjustFail, At, TaskPc, MonitorPc
<1> QED
  BY <1>1, <1>2, <1>3, <1>4, <1>5, <1>6 DEF AdjustStops

(* checkPositionAndResume and closeTradeHistory *)
LEMMA CheckKeeps ==
  ASSUME LedgerTypeOK, ExecutorInv, NEW t \in Tasks, Check(t)
  PROVE  LedgerKept /\ ExecutorInv'
<1> USE DEF ExecutorInv
<1>t. task[t] \in TaskOn(Ids)
  OBVIOUS
<1>r. ASSUME LedgerKept, NEW id \in Ids' \cup {None}, Resume(t, id), UNCHANGED ticking
      PROVE  ExecutorInv'
  BY <1>r, ResumeKeeps DEF LedgerKept
<1>1. CASE CheckPosition(t)
  <2>1. LedgerKept
    BY <1>1, LedgerUnchanged DEF CheckPosition
  <2>2. CASE End(t) /\ UNCHANGED exec
    BY <1>1, <2>1, <2>2, EndKeeps, ExecKept DEF CheckPosition
  <2>3. CASE Goto(t, "derive") /\ UNCHANGED exec
    BY <1>1, <2>1, <2>3, GotoKeeps, ExecKept DEF CheckPosition, At, TaskPc, MonitorPc
  <2>4. CASE Resume(t, None)
    BY <1>1, <1>r, <2>1, <2>4 DEF CheckPosition
  <2> QED
    BY <1>1, <2>1, <2>2, <2>3, <2>4 DEF CheckPosition
<1>2. CASE CloseHistory(t)
  <2>1. trades' \in Seq(Trade) /\ Len(trades') = Len(trades)
    BY <1>2, CloseTradesKeeps DEF CloseHistory
  <2>2. LedgerKept
    BY <1>2, <2>1, LedgerStep, LenProperties DEF CloseHistory, LedgerTypeOK
  <2> QED
    BY <1>2, <2>2, GotoKeeps, ExecKept DEF CloseHistory, At, TaskPc, MonitorPc
<1>3. CASE Closed(t)
  <2>1. LedgerKept
    BY <1>3, LedgerUnchanged DEF Closed
  <2> QED
    BY <1>3, <1>r, <2>1 DEF Closed
<1>4. CASE CheckFail(t)
  <2>1. LedgerKept
    BY <1>4, FaultStep, LedgerStep, LenProperties DEF CheckFail, LedgerTypeOK
  <2>2. CASE At(t, "check") /\ End(t) /\ UNCHANGED exec
    BY <1>4, <2>1, <2>2, EndKeeps, ExecKept DEF CheckFail
  <2>3. CASE At(t, "derive") /\ Resume(t, CurrentTrade(t))
    <3>1. task[t].e \in Executors
      BY <1>t, <2>3 DEF At, TaskOn
    <3>2. CurrentTrade(t) \in Ids' \cup {None}
      BY <2>1, <3>1 DEF CurrentTrade, ExecutorOn, LedgerKept
    <3> QED
      BY <1>4, <1>r, <2>1, <2>3, <3>2 DEF CheckFail
  <2> QED
    BY <1>4, <2>1, <2>2, <2>3 DEF CheckFail
<1> QED
  BY <1>1, <1>2, <1>3, <1>4 DEF Check

(* initialize *)
LEMMA InitializeKeeps ==
  ASSUME LedgerTypeOK, ExecutorInv, NEW t \in Tasks, Initialize(t)
  PROVE  LedgerKept /\ ExecutorInv'
<1> USE DEF ExecutorInv
<1>t. task[t] \in TaskOn(Ids)
  OBVIOUS
<1>i. Ids = 1 .. Len(trades) /\ Len(trades) \in Nat /\ Ids \subseteq TradeId
  BY IdsAreTradeIds
<1>s. ASSUME LedgerKept, ~At(t, "idle"), NEW status \in {"analyzing", "position_open"},
             NEW id \in Ids' \cup {None}, Subscribe(t, status, id)
      PROVE  ExecutorInv'
  <2>1. task[t].e \in Executors
    BY <1>s, <1>t DEF TaskOn, At
  <2>2. exec[task[t].e] \in ExecutorOn(Ids)
    BY <2>1
  <2>3. Ids' \subseteq TradeId
    BY <1>s, LenProperties DEF LedgerKept, LedgerTypeOK, Ids, TradeId
  <2> DEFINE r == [exec[task[t].e] EXCEPT !.status = status, !.tradeId = id]
  <2>4. r \in ExecutorOn(Ids')
    BY <2>2, <2>3 DEF ExecutorOn, Executor
  <2>5. exec' = [exec EXCEPT ![task[t].e] = r]
    BY <1>s, <2>1, <2>2 DEF Subscribe, ExecutorOn, Executor
  <2> HIDE DEF r
  <2> QED
    BY <1>s, <2>1, <2>4, <2>5, ExecChanges, EndKeeps DEF Subscribe
<1>1. CASE ReconcileFlat(t)
  <2>1. trades' \in Seq(Trade) /\ Len(trades') = Len(trades)
    BY <1>1, CloseTradesKeeps DEF ReconcileFlat
  <2>2. LedgerKept
    BY <1>1, <2>1, LedgerStep, LenProperties DEF ReconcileFlat, LedgerTypeOK
  <2> QED
    BY <1>1, <1>s, <2>2 DEF ReconcileFlat, At
<1>2. CASE ReconcileTracked(t)
  <2>1. LedgerKept
    BY <1>2, LedgerUnchanged DEF ReconcileTracked
  <2>2. task[t].open \subseteq 1 .. Len(trades) /\ task[t].open # {}
    BY <1>2, <1>t, <1>i DEF ReconcileTracked, TaskOn
  <2>3. Latest(task[t].open) \in Ids'
    BY <1>i, <2>1, <2>2, LatestIsMember DEF LedgerKept
  <2> QED
    BY <1>2, <1>s, <2>1, <2>3 DEF ReconcileTracked, At
<1>3. CASE ReconcileOrphan(t)
  <2>1. LedgerKept
    BY <1>3, LedgerUnchanged DEF ReconcileOrphan
  <2> QED
    BY <1>3, <2>1, GotoKeeps, ExecKept DEF ReconcileOrphan, At, TaskPc, InitPc
<1>4. CASE Adopt(t)
  <2>0. FirstOrNone(Stops) \subseteq OrderId \cup {None} /\
        FirstOrNone(OpenOrders \ Stops) \subseteq OrderId \cup {None}
    BY LenProperties DEF FirstOrNone, OpenOrders, Stops, LedgerTypeOK, OrderId
  <2>1. PICK sl \in OrderId \cup {None}, tp \in OrderId \cup {None} : RecordTrade(sl, tp)
    <3>1. PICK sl \in FirstOrNone(Stops), tp \in FirstOrNone(OpenOrders \ Stops) :
                 RecordTrade(sl, tp)
      BY <1>4 DEF Adopt
    <3> QED
      BY <2>0, <3>1
  <2>2. /\ trades' \in Seq(Trade) /\ Len(trades') = Len(trades) + 1
        /\ Len(trades') \in TradeId
    BY <2>1, RecordTradeAdds
  <2>3. LedgerKept
    BY <1>4, <2>2, LedgerStep, LenProperties DEF Adopt, LedgerTypeOK
  <2>4. Len(trades') \in Ids'
    BY <2>2, LenProperties DEF Ids, TradeId
  <2> QED
    BY <1>4, <1>s, <2>3, <2>4 DEF Adopt, At
<1>5. CASE InitFail(t)
  <2>1. LedgerKept
    BY <1>5, FaultStep, LedgerStep, LenProperties DEF InitFail, LedgerTypeOK
  <2> QED
    BY <1>5, <1>s, <2>1 DEF InitFail, At
<1> QED
  BY <1>1, <1>2, <1>3, <1>4, <1>5 DEF Initialize

(* onTicker and the end of a cooldown *)
LEMMA TicksKeep ==
  ASSUME LedgerTypeOK, ExecutorInv,
         \/ TickAnalyze
         \/ CooldownEnds
         \/ \E t \in Tasks : TickSignal(t) \/ TickMonitor(t)
  PROVE  LedgerKept /\ ExecutorInv'
<1> USE DEF ExecutorInv
<1>1. LedgerKept
  BY LedgerUnchanged DEF TickAnalyze, CooldownEnds, TickSignal, TickMonitor
<1>i. Ids \subseteq TradeId
  BY IdsAreTradeIds
<1>2. CASE TickAnalyze
  <2> DEFINE r == [exec[ticking] EXCEPT !.status = "analyzing"]
  <2>1. r \in ExecutorOn(Ids')
    BY <1>1, <1>2 DEF TickAnalyze, ExecutorOn, Executor, LedgerKept
  <2>2. exec' = [exec EXCEPT ![ticking] = r]
    BY <1>2 DEF TickAnalyze, ExecutorOn, Executor
  <2> HIDE DEF r
  <2> QED
    BY <1>1, <1>2, <2>1, <2>2, ExecChanges, TasksKept DEF TickAnalyze
<1>3. CASE CooldownEnds
  <2> DEFINE r == [exec[ticking] EXCEPT !.cooling = FALSE]
  <2>1. r \in ExecutorOn(Ids')
    BY <1>1, <1>3 DEF CooldownEnds, ExecutorOn, Executor, LedgerKept
  <2>2. exec' = [exec EXCEPT ![ticking] = r]
    BY <1>3 DEF CooldownEnds, ExecutorOn, Executor
  <2> HIDE DEF r
  <2> QED
    BY <1>1, <1>3, <2>1, <2>2, ExecChanges, TasksKept DEF CooldownEnds
<1>4. ASSUME NEW t \in Tasks, TickSignal(t) PROVE ExecutorInv'
  <2>1. [NoTask EXCEPT !.pc = "verify", !.e = ticking] \in TaskOn(Ids')
    BY <1>4 DEF TickSignal, NoTask, TaskOn, TaskRecord, TaskPc, ExecutePc
  <2> QED
    BY <1>1, <1>4, <2>1, TaskChanges, ExecKept DEF TickSignal
<1>5. ASSUME NEW t \in Tasks, TickMonitor(t) PROVE ExecutorInv'
  <2>1. CASE exec[ticking].tradeId = None
    <3> DEFINE r == [exec[ticking] EXCEPT !.status = "analyzing"]
    <3>1. r \in ExecutorOn(Ids')
      BY <1>1, <1>5 DEF TickMonitor, ExecutorOn, Executor, LedgerKept
    <3>2. exec' = [exec EXCEPT ![ticking] = r]
      BY <1>5, <2>1 DEF TickMonitor, ExecutorOn, Executor
    <3> HIDE DEF r
    <3> QED
      BY <1>1, <1>5, <2>1, <3>1, <3>2, ExecChanges, TasksKept DEF TickMonitor
  <2>2. CASE exec[ticking].tradeId # None
    <3> DEFINE id == exec[ticking].tradeId
    <3>1. id \in Ids
      BY <1>5, <2>2 DEF TickMonitor, ExecutorOn
    <3>2. trades[id] \in Trade
      BY <3>1, LenProperties, ElementOfSeq DEF LedgerTypeOK, Ids
    <3>3. PICK pc \in {"adjust", "check"} :
             task' = [task EXCEPT ![t] =
                       [NoTask EXCEPT !.pc = pc, !.e = ticking, !.trade = id,
                                      !.tp = trades[id].tp]]
      BY <1>5, <2>2 DEF TickMonitor
    <3>4. [NoTask EXCEPT !.pc = pc, !.e = ticking, !.trade = id, !.tp = trades[id].tp]
             \in TaskOn(Ids')
      BY <1>1, <1>5, <1>i, <3>1, <3>2
         DEF TickMonitor, NoTask, TaskOn, TaskRecord, TaskPc, MonitorPc, Trade, LedgerKept
    <3>5. UNCHANGED exec /\ UNCHANGED ticking
      BY <1>5, <2>2 DEF TickMonitor
    <3> HIDE DEF id
    <3> QED
      BY <1>1, <3>3, <3>4, <3>5, TaskChanges, ExecKept
  <2> QED
    BY <2>1, <2>2
<1> QED
  BY <1>1, <1>2, <1>3, <1>4, <1>5

-----------------------------------------------------------------------------
(* The reconciliation service *)

LEMMA NoCheckFits == \A ids : NoCheck \in CheckOn(ids)
<1>1. <<>> \in Seq(Trade) /\ DOMAIN <<>> = {}
  BY EmptySeq, LenProperties
<1> QED
  BY <1>1 DEF NoCheck, CheckOn, CheckRecord, CheckPc

LEMMA EndCheckKeeps ==
  ASSUME CheckInv, LedgerKept, NEW c \in Checks, EndCheck(c)
  PROVE  CheckInv'
BY NoCheckFits, CheckChanges DEF EndCheck

LEMMA CheckGotoKeeps ==
  ASSUME CheckInv, LedgerKept, NEW c \in Checks, check[c].pc \notin {"idle", "reverse"},
         NEW pc \in CheckPc, CheckGoto(c, pc)
  PROVE  CheckInv'
<1>1. check[c] \in CheckOn(Ids)
  BY DEF CheckInv
<1>2. [check[c] EXCEPT !.pc = pc] \in CheckOn(Ids')
  BY <1>1 DEF CheckOn, CheckRecord, LedgerKept
<1>3. check' = [check EXCEPT ![c] = [check[c] EXCEPT !.pc = pc]]
  BY DEF CheckGoto
<1> QED
  BY <1>2, <1>3, CheckChanges

(* A check that compares trades has a current one, among those it read. *)
LEMMA CurrentIsRead ==
  ASSUME LedgerTypeOK, CheckInv, NEW c \in Checks, check[c].pc \notin {"idle", "reverse"}
  PROVE  Current(c) \in check[c].todo /\ Current(c) \in DOMAIN check[c].snap /\ Current(c) \in Ids
<1>1. check[c] \in CheckOn(Ids)
  BY DEF CheckInv
<1>2. check[c].todo # {} /\ check[c].todo \in SUBSET (1 .. Len(trades)) /\ Len(trades) \in Nat
  BY <1>1, IdsAreTradeIds DEF CheckOn
<1>3. Current(c) \in check[c].todo
  BY <1>2, LatestIsMember DEF Current
<1> QED
  BY <1>1, <1>3 DEF CheckOn

LEMMA NextTradeKeeps ==
  ASSUME CheckInv, LedgerKept, NEW c \in Checks, NextTrade(c)
  PROVE  CheckInv'
<1>1. check[c] \in CheckOn(Ids)
  BY DEF CheckInv
<1> DEFINE rest == check[c].todo \ {Current(c)}
           r == [check[c] EXCEPT !.pc = IF rest = {} THEN "reverse" ELSE "trades",
                                 !.todo = rest, !.missing = {}, !.placed = None]
<1>2. r \in CheckOn(Ids')
  BY <1>1 DEF CheckOn, CheckRecord, LedgerKept, CheckPc
<1>3. check' = [check EXCEPT ![c] = r]
  BY <1>1 DEF NextTrade, CheckOn, CheckRecord
<1> HIDE DEF r
<1> QED
  BY <1>2, <1>3, CheckChanges

LEMMA AfterStopKeeps ==
  ASSUME CheckInv, LedgerKept, NEW c \in Checks, check[c].pc \notin {"idle", "reverse"},
         AfterStop(c)
  PROVE  CheckInv'
BY CheckGotoKeeps, NextTradeKeeps DEF AfterStop, CheckPc

LEMMA ReconciliationKeeps ==
  ASSUME LedgerTypeOK, CheckInv, NEW c \in Checks, StartCheck(c) \/ CheckStep(c)
  PROVE  LedgerKept /\ CheckInv'
<1>c. check[c] \in CheckOn(Ids)
  BY DEF CheckInv
<1>i. Ids = 1 .. Len(trades) /\ Len(trades) \in Nat /\ Ids \subseteq TradeId
  BY IdsAreTradeIds
<1>1. CASE StartCheck(c)
  <2>1. LedgerKept
    BY <1>1, LedgerUnchanged DEF StartCheck
  <2>2. [NoCheck EXCEPT !.pc = "positions", !.todo = OpenTrades, !.snap = trades]
           \in CheckOn(Ids')
    BY <1>1, <1>i, <2>1
       DEF StartCheck, NoCheck, CheckOn, CheckRecord, CheckPc, LedgerKept, OpenTrades, Ids,
           LedgerTypeOK
  <2> QED
    BY <1>1, <2>1, <2>2, CheckChanges DEF StartCheck
<1>2. CASE Positions(c)
  <2>1. LedgerKept
    BY <1>2, LedgerUnchanged DEF Positions
  <2> DEFINE r == [check[c] EXCEPT !.pc = "trades", !.active = size > 0]
  <2>2. r \in CheckOn(Ids')
    <3>1. check[c].todo # {}
      BY <1>2, <1>c DEF Positions, CheckAt, CheckOn
    <3>2. \A b \in BOOLEAN : [check[c] EXCEPT !.pc = "trades", !.active = b] \in CheckOn(Ids')
      BY <1>c, <2>1, <3>1 DEF CheckOn, CheckRecord, CheckPc, LedgerKept
    <3>3. (size > 0) \in BOOLEAN
      OBVIOUS
    <3> QED
      BY <3>2, <3>3
  <2>3. check' = [check EXCEPT ![c] = r]
    BY <1>2, <1>c DEF Positions, CheckOn, CheckRecord
  <2> HIDE DEF r
  <2> QED
    BY <2>1, <2>2, <2>3, CheckChanges
<1>3. CASE CloseOrphan(c)
  <2>1. trades' \in Seq(Trade) /\ Len(trades') = Len(trades)
    BY <1>3, CloseTradesKeeps DEF CloseOrphan
  <2>2. LedgerKept
    BY <1>3, <2>1, LedgerStep, LenProperties DEF CloseOrphan, LedgerTypeOK
  <2> QED
    BY <1>3, <2>2, NextTradeKeeps DEF CloseOrphan
<1>4. CASE VerifyOrders(c)
  <2>1. LedgerKept
    BY <1>4, LedgerUnchanged DEF VerifyOrders
  <2> DEFINE r == [check[c] EXCEPT !.pc = "price", !.missing = Missing(c)]
  <2>2. r \in CheckOn(Ids')
    <3>1. check[c].todo # {}
      BY <1>4, <1>c DEF VerifyOrders, CheckAt, CheckOn
    <3>2. \A m \in SUBSET {"sl", "tp"} :
            [check[c] EXCEPT !.pc = "price", !.missing = m] \in CheckOn(Ids')
      BY <1>c, <2>1, <3>1 DEF CheckOn, CheckRecord, CheckPc, LedgerKept
    <3>3. Missing(c) \in SUBSET {"sl", "tp"}
      BY DEF Missing
    <3> QED
      BY <3>2, <3>3
  <2>3. NextTrade(c) \/ check' = [check EXCEPT ![c] = r]
    BY <1>4, <1>c DEF VerifyOrders, CheckOn, CheckRecord
  <2> HIDE DEF r
  <2> QED
    BY <2>1, <2>2, <2>3, CheckChanges, NextTradeKeeps
<1>5. CASE ClosePastStop(c)
  <2>1. trades' \in Seq(Trade) /\ Len(trades') = Len(trades)
    BY <1>5, CloseTradesKeeps DEF ClosePastStop
  <2>2. LedgerKept
    BY <1>5, <2>1, LedgerStep, LenProperties DEF ClosePastStop, LedgerTypeOK
  <2> QED
    BY <1>5, <2>2, NextTradeKeeps DEF ClosePastStop
<1>6. CASE Repair(c)
  <2>1. LedgerKept
    BY <1>6, LedgerUnchanged DEF Repair
  <2> QED
    BY <1>6, <2>1, CheckGotoKeeps DEF Repair, CheckAt, CheckPc
<1>7. CASE ReplaceStop(c)
  <2>1. orders' \in Seq(OrderKind) /\ Len(orders') \in OrderId
    BY <1>7, PlaceAdds DEF ReplaceStop, OrderKind
  <2>2. LedgerKept
    BY <1>7, <2>1, LedgerStep, LenProperties DEF ReplaceStop, LedgerTypeOK
  <2> DEFINE r == [check[c] EXCEPT !.pc = "save_sl", !.placed = Len(orders')]
  <2>3. r \in CheckOn(Ids')
    BY <1>7, <1>c, <2>1, <2>2
       DEF ReplaceStop, CheckAt, CheckOn, CheckRecord, CheckPc, LedgerKept
  <2>4. check' = [check EXCEPT ![c] = r]
    BY <1>7, <1>c DEF ReplaceStop, CheckOn, CheckRecord
  <2> HIDE DEF r
  <2> QED
    BY <2>2, <2>3, <2>4, CheckChanges
<1>s. ASSUME check[c].pc \notin {"idle", "reverse"}
      PROVE  /\ check[c].snap[Current(c)].sl \in OrderId \cup {None}
             /\ check[c].snap[Current(c)].tp \in OrderId \cup {None}
             /\ trades[Current(c)].sl \in OrderId \cup {None}
  <2>1. Current(c) \in DOMAIN check[c].snap /\ Current(c) \in Ids
    BY <1>s, CurrentIsRead
  <2>2. check[c].snap \in Seq(Trade) /\ trades \in Seq(Trade)
    BY <1>c DEF CheckOn, CheckRecord, LedgerTypeOK
  <2>3. check[c].snap[Current(c)] \in Trade /\ trades[Current(c)] \in Trade
    BY <2>1, <2>2, LenProperties, ElementOfSeq DEF Ids
  <2> QED
    BY <2>3 DEF Trade
<1>8. CASE SaveStop(c)
  <2>1. check[c].placed \in OrderId \cup {None} /\ check[c].pc \notin {"idle", "reverse"}
    BY <1>8, <1>c DEF SaveStop, CheckAt, CheckOn, CheckRecord
  <2>2. trades' \in Seq(Trade) /\ Len(trades') = Len(trades)
    BY <1>8, <1>s, <2>1, UpdateOrderIdsKeeps DEF SaveStop
  <2>3. LedgerKept
    BY <1>8, <2>2, LedgerStep, LenProperties DEF SaveStop, LedgerTypeOK
  <2> QED
    BY <1>8, <2>1, <2>3, AfterStopKeeps DEF SaveStop
<1>9. CASE ReplaceTarget(c)
  <2>1. orders' \in Seq(OrderKind) /\ Len(orders') \in OrderId
    BY <1>9, PlaceAdds DEF ReplaceTarget, OrderKind
  <2>2. LedgerKept
    BY <1>9, <2>1, LedgerStep, LenProperties DEF ReplaceTarget, LedgerTypeOK
  <2> DEFINE r == [check[c] EXCEPT !.pc = "save_tp", !.placed = Len(orders')]
  <2>3. r \in CheckOn(Ids')
    BY <1>9, <1>c, <2>1, <2>2
       DEF ReplaceTarget, CheckAt, CheckOn, CheckRecord, CheckPc, LedgerKept
  <2>4. check' = [check EXCEPT ![c] = r]
    BY <1>9, <1>c DEF ReplaceTarget, CheckOn, CheckRecord
  <2> HIDE DEF r
  <2> QED
    BY <2>2, <2>3, <2>4, CheckChanges
<1>10. CASE SaveTarget(c)
  <2>1. check[c].placed \in OrderId \cup {None} /\ check[c].pc \notin {"idle", "reverse"}
    BY <1>10, <1>c DEF SaveTarget, CheckAt, CheckOn, CheckRecord
  <2> DEFINE id == Current(c)
             sl == IF trades[id].sl = None THEN check[c].snap[id].sl ELSE trades[id].sl
  <2>2. sl \in OrderId \cup {None}
    BY <1>s, <2>1
  <2>3. UpdateOrderIds(id, sl, check[c].placed)
    BY <1>10 DEF SaveTarget
  <2> HIDE DEF sl
  <2>4. trades' \in Seq(Trade) /\ Len(trades') = Len(trades)
    BY <2>1, <2>2, <2>3, UpdateOrderIdsKeeps
  <2>5. LedgerKept
    BY <1>10, <2>4, LedgerStep, LenProperties DEF SaveTarget, LedgerTypeOK
  <2> QED
    BY <1>10, <2>5, NextTradeKeeps DEF SaveTarget
<1>11. CASE ReverseOrphan(c)
  <2>1. CASE RecordTrade(None, None)
    <3>1. trades' \in Seq(Trade) /\ Len(trades') = Len(trades) + 1
      BY <2>1, RecordTradeAdds
    <3>2. LedgerKept
      BY <1>11, <3>1, LedgerStep, LenProperties DEF ReverseOrphan, LedgerTypeOK
    <3> QED
      BY <1>11, <3>2, EndCheckKeeps DEF ReverseOrphan
  <2>2. CASE UNCHANGED trades
    <3>1. LedgerKept
      BY <1>11, <2>2, LedgerUnchanged DEF ReverseOrphan, ledgerVars
    <3> QED
      BY <1>11, <3>1, EndCheckKeeps DEF ReverseOrphan
  <2> QED
    BY <1>11, <2>1, <2>2 DEF ReverseOrphan
<1>12. CASE RunCheckFail(c)
  <2>1. LedgerKept
    BY <1>12, FaultStep, LedgerStep, LenProperties DEF RunCheckFail, LedgerTypeOK
  <2> QED
    BY <1>12, <2>1, EndCheckKeeps DEF RunCheckFail
<1>13. CASE VerifyFail(c)
  <2>1. LedgerKept
    BY <1>13, FaultStep, LedgerStep, LenProperties DEF VerifyFail, LedgerTypeOK
  <2> QED
    BY <1>13, <2>1, NextTradeKeeps DEF VerifyFail
<1>14. CASE ReplaceFail(c)
  <2>1. orders' \in Seq(OrderKind) /\ faults' \in Nat
    BY <1>14, PlaceAdds, FaultStep DEF ReplaceFail, LedgerTypeOK, OrderKind
  <2>2. LedgerKept
    BY <1>14, <2>1, LedgerStep, LenProperties DEF ReplaceFail, LedgerTypeOK
  <2> QED
    BY <1>14, <2>2, AfterStopKeeps, NextTradeKeeps DEF ReplaceFail, CheckAt
<1> QED
  BY <1>1, <1>2, <1>3, <1>4, <1>5, <1>6, <1>7, <1>8, <1>9, <1>10, <1>11, <1>12, <1>13, <1>14
     DEF CheckStep

-----------------------------------------------------------------------------
(* The services *)

LEMMA StartStrategyKeeps ==
  ASSUME TypeInv, NEW t \in Tasks, NEW e \in Executors, StartStrategy(t, e)
  PROVE  TypeInv'
<1> USE DEF TypeInv
<1>1. LedgerKept
  BY LedgerUnchanged DEF StartStrategy
<1>2. NewExecutor \in ExecutorOn(Ids')
  BY DEF NewExecutor, ExecutorOn, Executor
<1>3. [NoTask EXCEPT !.pc = "init", !.e = e, !.open = OpenTrades] \in TaskOn(Ids')
  BY <1>1, IdsAreTradeIds
     DEF NoTask, TaskOn, TaskRecord, TaskPc, InitPc, OpenTrades, Ids, LedgerKept
<1>4. ExecutorInv'
  BY <1>1, <1>2, <1>3, ExecChanges, TaskChanges DEF StartStrategy, Begin, ExecutorInv
<1>5. CheckInv'
  BY <1>1, ChecksKept DEF StartStrategy
<1>6. ServiceInv'
  BY DEF ServiceInv, StartStrategy
<1> QED
  BY <1>1, <1>4, <1>5, <1>6 DEF LedgerKept

LEMMA RestartKeeps ==
  ASSUME TypeInv, NEW t \in Tasks, NEW e \in Executors, Restart(t, e)
  PROVE  TypeInv'
<1> USE DEF TypeInv
<1>1. PICK closed \in SUBSET Ghosts, cancelled \in SUBSET OpenOrders :
        /\ IF closed = Ghosts /\ cancelled = (IF Ghosts = {} THEN {} ELSE OpenOrders)
             THEN UNCHANGED faults
             ELSE Ghosts # {} /\ Fault
        /\ CloseTrades(closed)
        /\ Cancel(cancelled)
        /\ strategy' = IF closed = {} THEN strategy ELSE Reactivated
        /\ IF strategy' = "active"
             THEN /\ exec' = [exec EXCEPT ![e] = NewExecutor]
                  /\ task' = [task EXCEPT ![t] = [NoTask EXCEPT !.pc = "init", !.e = e,
                                                   !.open = OpenTrades \ closed]]
             ELSE UNCHANGED <<exec, task>>
  BY DEF Restart
<1>2. trades' \in Seq(Trade) /\ Len(trades') = Len(trades)
  BY <1>1, CloseTradesKeeps
<1>3. orders' \in Seq(OrderKind) /\ faults' \in Nat
  BY <1>1, CancelKeeps, FaultStep
<1>4. LedgerKept
  BY <1>2, <1>3, LedgerStep, LenProperties DEF Restart, LedgerTypeOK
<1>5. NewExecutor \in ExecutorOn(Ids')
  BY DEF NewExecutor, ExecutorOn, Executor
<1>6. [NoTask EXCEPT !.pc = "init", !.e = e, !.open = OpenTrades \ closed] \in TaskOn(Ids')
  BY <1>4, IdsAreTradeIds
     DEF NoTask, TaskOn, TaskRecord, TaskPc, InitPc, OpenTrades, Ids, LedgerKept
<1>7. ExecutorInv'
  <2>1. UNCHANGED ticking
    BY DEF Restart
  <2>2. CASE strategy' = "active"
    BY <1>1, <1>4, <1>5, <1>6, <2>1, <2>2, ExecChanges, TaskChanges DEF ExecutorInv
  <2>3. CASE strategy' # "active"
    BY <1>1, <1>4, <2>1, <2>3, ExecutorsKept DEF executorVars
  <2> QED
    BY <2>2, <2>3
<1>8. CheckInv'
  BY <1>4, ChecksKept DEF Restart
<1>9. ServiceInv'
  BY <1>1 DEF ServiceInv, Restart, Reactivated
<1> QED
  BY <1>4, <1>7, <1>8, <1>9 DEF LedgerKept

LEMMA ClosePositionKeeps ==
  ASSUME TypeInv, ClosePosition
  PROVE  TypeInv'
<1> USE DEF TypeInv
<1>i. Ids = 1 .. Len(trades) /\ Len(trades) \in Nat /\ Ids \subseteq TradeId
  BY IdsAreTradeIds
<1>u. ASSUME UNCHANGED <<ledgerVars, executorVars, check>>
      PROVE  LedgerKept /\ ExecutorInv' /\ CheckInv'
  BY <1>u, LedgerUnchanged, ExecutorsKept, ChecksKept
<1>k. ASSUME LedgerKept, UNCHANGED <<executorVars, check>>
      PROVE  ExecutorInv' /\ CheckInv'
  BY <1>k, ExecutorsKept, ChecksKept
<1>f. ASSUME LedgerKept, ForceResume, UNCHANGED <<ticking, task, check>>
      PROVE  ExecutorInv' /\ CheckInv'
  <2>1. [status |-> "analyzing", tradeId |-> None, cooling |-> TRUE] \in ExecutorOn(Ids')
    BY DEF ExecutorOn, Executor
  <2> QED
    BY <1>f, <2>1, TasksKept, ChecksKept DEF ForceResume, ExecutorInv
<1>l. ASSUME LedgerKept, ExecutorInv', CheckInv', ServiceInv'
      PROVE  TypeInv'
  BY <1>l DEF LedgerKept
<1>1. CASE CloseRequest
  <2>1. ServiceInv'
    BY <1>1 DEF CloseRequest, CloseGoto, ServiceInv
  <2> QED
    BY <1>1, <1>u, <1>l, <2>1 DEF CloseRequest
<1>2. CASE CloseCancelAll
  <2>1. ServiceInv'
    BY <1>2 DEF CloseCancelAll, CloseGoto, ServiceInv
  <2>2. LedgerKept
    BY <1>2, CancelKeeps, LedgerStep, LenProperties DEF CloseCancelAll, LedgerTypeOK
  <2> QED
    BY <1>2, <1>k, <1>l, <2>1, <2>2 DEF CloseCancelAll
<1>3. CASE CloseMarket
  <2>1. ServiceInv'
    BY <1>3 DEF CloseMarket, CloseGoto, ServiceInv
  <2>2. LedgerKept
    BY <1>3, ResizeKeeps, LedgerStep, LenProperties DEF CloseMarket, LedgerTypeOK
  <2> QED
    BY <1>3, <1>k, <1>l, <2>1, <2>2 DEF CloseMarket
<1>4. CASE CloseNothing
  <2>1. ServiceInv'
    BY <1>4 DEF CloseNothing, NoClose, ServiceInv
  <2> QED
    BY <1>4, <1>u, <1>l, <2>1 DEF CloseNothing
<1>5. CASE CloseFind
  <2>1. OpenTrades # {} => Latest(OpenTrades) \in TradeId
    <3>1. OpenTrades \in SUBSET (1 .. Len(trades))
      BY <1>i DEF OpenTrades, Ids
    <3> QED
      BY <1>i, <3>1, LatestIsMember
  <2>2. ServiceInv'
    BY <1>5, <2>1 DEF CloseFind, NoClose, ServiceInv
  <2> QED
    BY <1>5, <1>u, <1>l, <2>2 DEF CloseFind
<1>6. CASE CloseSeeOrders
  <2>1. OpenOrders \subseteq OrderId
    BY LenProperties DEF LedgerTypeOK, OpenOrders, OrderId
  <2>2. ServiceInv'
    BY <1>6, <2>1 DEF CloseSeeOrders, ServiceInv
  <2> QED
    BY <1>6, <1>u, <1>l, <2>2 DEF CloseSeeOrders
<1>7. CASE CloseCancel
  <2>1. ServiceInv'
    BY <1>7 DEF CloseCancel, CloseGoto, ServiceInv
  <2>2. orders' \in Seq(OrderKind) /\ faults' \in Nat
    BY <1>7, CancelKeeps, FaultStep DEF CloseCancel
  <2>3. LedgerKept
    BY <1>7, <2>2, LedgerStep, LenProperties DEF CloseCancel, LedgerTypeOK
  <2> QED
    BY <1>7, <1>k, <1>l, <2>1, <2>3 DEF CloseCancel
<1>8. CASE CloseFinish
  <2>1. ServiceInv'
    BY <1>8 DEF CloseFinish, CloseGoto, ServiceInv
  <2>2. LedgerKept
    BY <1>8, CloseTradesKeeps, LedgerStep, LenProperties DEF CloseFinish, LedgerTypeOK
  <2> QED
    BY <1>8, <1>k, <1>l, <2>1, <2>2 DEF CloseFinish
<1>9. CASE CloseResume
  <2>1. ServiceInv'
    BY <1>9 DEF CloseResume, NoClose, Reactivated, ServiceInv
  <2>2. LedgerKept
    BY <1>9, LedgerUnchanged DEF CloseResume
  <2> QED
    BY <1>9, <1>f, <1>l, <2>1, <2>2 DEF CloseResume
<1>10. CASE CloseFail
  <2>1. ServiceInv'
    BY <1>10 DEF CloseFail, NoClose, ServiceInv
  <2>2. /\ size' \in Nat /\ orders' \in Seq(OrderKind) /\ faults' \in Nat
        /\ trades' \in Seq(Trade) /\ Len(trades') = Len(trades)
    BY <1>10, CancelKeeps, FaultStep, ResizeKeeps DEF CloseFail, LedgerTypeOK
  <2>3. LedgerKept
    BY <1>10, <2>2, LedgerStep, LenProperties DEF CloseFail, LedgerTypeOK
  <2>4. ExecutorInv' /\ CheckInv'
    BY <1>10, <1>f, <1>k, <2>3 DEF CloseFail, executorVars
  <2> QED
    BY <1>l, <2>1, <2>3, <2>4
<1> QED
  BY <1>1, <1>2, <1>3, <1>4, <1>5, <1>6, <1>7, <1>8, <1>9, <1>10 DEF ClosePosition

LEMMA CrashKeeps ==
  ASSUME TypeInv, Crash
  PROVE  TypeInv'
<1> USE DEF TypeInv
<1>1. LedgerKept
  BY LedgerUnchanged DEF Crash
<1>2. NewExecutor \in ExecutorOn(Ids')
  BY DEF NewExecutor, ExecutorOn, Executor
<1>3. ExecutorInv'
  BY <1>2, NoTaskFits DEF Crash, ExecutorInv
<1>4. CheckInv'
  BY NoCheckFits DEF Crash, CheckInv
<1>5. ServiceInv'
  <2>1. sweeping' \in BOOLEAN
    BY DEF Crash
  <2> QED BY <2>1 DEF Crash, ServiceInv, NoClose
<1> QED
  BY <1>1, <1>3, <1>4, <1>5 DEF LedgerKept

LEMMA MarketKeeps ==
  ASSUME TypeInv, Market
  PROVE  TypeInv'
<1> USE DEF TypeInv
<1>1. PICK o \in OpenOrders : Fill(o)
  BY DEF Market
<1>2. size' \in Nat /\ trades' \in Seq(Trade) /\ Len(trades') = Len(trades)
  <2>1. CASE size > 0
    <3>1. size - 1 \in Nat /\ Resize(size - 1)
      BY <1>1, <2>1 DEF Fill, LedgerTypeOK
    <3> QED
      BY <3>1, ResizeKeeps
  <2>2. CASE ~(size > 0)
    BY <1>1, <2>2 DEF Fill, LedgerTypeOK
  <2> QED
    BY <2>1, <2>2
<1>3. orders' \in Seq(OrderKind)
  BY <1>1, CancelKeeps DEF Fill
<1>4. LedgerKept
  BY <1>1, <1>2, <1>3, LedgerStep, LenProperties DEF Fill, LedgerTypeOK
<1>5. UNCHANGED <<executorVars, check, serviceVars>>
  BY DEF Market
<1> QED
  BY <1>4, <1>5, ExecutorsKept, ChecksKept DEF LedgerKept, ServiceInv, serviceVars

-----------------------------------------------------------------------------
LEMMA TypeInvInit == Init => TypeInv
<1> SUFFICES ASSUME Init PROVE TypeInv
  OBVIOUS
<1>1. LedgerTypeOK
  BY EmptySeq DEF Init, LedgerInit, LedgerTypeOK
<1>2. ExecutorInv
  BY NoTaskFits DEF Init, ExecutorInit, ExecutorInv, NewExecutor, ExecutorOn, Executor
<1>3. CheckInv
  BY NoCheckFits DEF Init, ReconciliationInit, CheckInv
<1>4. ServiceInv
  BY DEF Init, ServiceInv, NoClose
<1> QED
  BY <1>1, <1>2, <1>3, <1>4 DEF TypeInv

LEMMA TypeInvStep == TypeInv /\ [Next]_vars => TypeInv'
<1> SUFFICES ASSUME TypeInv, [Next]_vars PROVE TypeInv'
  OBVIOUS
<1> USE DEF TypeInv
<1>s. ASSUME UNCHANGED serviceVars PROVE ServiceInv'
  BY <1>s DEF serviceVars, ServiceInv
<1>1. CASE Market
  BY <1>1, MarketKeeps
<1>2. CASE Ticking
  <2>1. LedgerKept /\ ExecutorInv'
    BY <1>2, TicksKeep, ExecuteKeeps, AdjustStopsKeeps, CheckKeeps, InitializeKeeps
       DEF Ticking, ExecutorNext, Tick, TaskStep
  <2> QED
    BY <1>2, <1>s, <2>1, ChecksKept DEF Ticking, LedgerKept
<1>3. CASE Cooling
  <2>1. LedgerKept /\ ExecutorInv'
    BY <1>3, TicksKeep DEF Cooling
  <2> QED
    BY <1>3, <1>s, <2>1, ChecksKept DEF Cooling, LedgerKept
<1>4. CASE Reconciling
  <2>1. LedgerKept /\ CheckInv'
    BY <1>4, ReconciliationKeeps DEF Reconciling, ReconciliationNext
  <2> QED
    BY <1>4, <1>s, <2>1, ExecutorsKept DEF Reconciling, LedgerKept
<1>5. ASSUME NEW t \in Tasks, NEW e \in Executors, StartStrategy(t, e) \/ Restart(t, e)
      PROVE  TypeInv'
  BY <1>5, StartStrategyKeeps, RestartKeeps
<1>6. CASE StopStrategy
  <2>1. UNCHANGED <<ledgerVars, executorVars, check>> /\ ServiceInv'
    BY <1>6 DEF StopStrategy, ServiceInv
  <2> QED
    BY <2>1, LedgerUnchanged, ExecutorsKept, ChecksKept DEF LedgerKept
<1>7. CASE ClosePosition
  BY <1>7, ClosePositionKeeps
<1>8. CASE Crash
  BY <1>8, CrashKeeps
<1>9. CASE Listen
  <2>1. UNCHANGED <<ledgerVars, executorVars, check>> /\ ServiceInv'
    BY <1>9 DEF Listen, ServiceInv
  <2> QED
    BY <2>1, LedgerUnchanged, ExecutorsKept, ChecksKept DEF LedgerKept
<1>10. CASE RestartOffline
  <2>1. UNCHANGED <<executorVars, check>> /\ ServiceInv'
    BY <1>10 DEF RestartOffline, ServiceInv
  <2>2. LedgerKept
    <3>1. faults' \in Nat /\ UNCHANGED <<size, entries, orders, trades>>
      BY <1>10, FaultStep DEF RestartOffline
    <3> QED BY <3>1, LedgerStep, LenProperties DEF LedgerTypeOK
  <2> QED
    BY <2>1, <2>2, ExecutorsKept, ChecksKept DEF LedgerKept
<1>11. CASE UNCHANGED vars
  <2>1. UNCHANGED <<ledgerVars, executorVars, check>> /\ UNCHANGED serviceVars
    BY <1>11 DEF vars
  <2> QED
    BY <1>s, <2>1, LedgerUnchanged, ExecutorsKept, ChecksKept DEF LedgerKept
<1> QED
  BY <1>1, <1>2, <1>3, <1>4, <1>5, <1>6, <1>7, <1>8, <1>9, <1>10, <1>11 DEF Next

LEMMA TypeInvAlways == Spec => []TypeInv
BY TypeInvInit, TypeInvStep, PTL DEF Spec

(* The history only grows; without Slow it stays empty.                    *)
LEMMA LateGrows ==
  ASSUME [Next]_vars
  PROVE  late \subseteq late' /\ late' \subseteq late \cup {"candle", "cooldown"}
BY DEF Next, Ticking, Cooling, vars

LEMMA NeverLate == ASSUME ~Slow PROVE Spec => [](late = {})
<1>1. Init => late = {}
  BY DEF Init
<1>2. late = {} /\ [Next]_vars => (late = {})'
  BY DEF Next, Ticking, Cooling, vars
<1> QED
  BY <1>1, <1>2, PTL DEF Spec

(* Whatever is in flight when requests fail, the market moves or the       *)
(* server dies, every component's state keeps its type, and no activation  *)
(* or check works with the id of a record that does not exist.             *)
THEOREM TypeCorrect == Spec => []TypeOK
<1>1. Init => LateInv
  BY DEF Init, LateInv
<1>2. LateInv /\ [Next]_vars => LateInv'
  BY LateGrows DEF LateInv
<1> QED
  BY <1>1, <1>2, TypeInvAlways, TypeInvImpliesTypeOK, PTL DEF Spec

=============================================================================
