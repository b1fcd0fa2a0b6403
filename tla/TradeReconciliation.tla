------------------------- MODULE TradeReconciliation -------------------------
(***************************************************************************)
(* services/reconciliation-service.ts: every minute runCheck compares the  *)
(* open trades of the database with the positions of Deribit.  A check     *)
(* reads the trades first and the positions next, and works on those       *)
(* snapshots through many awaits; setInterval starts the next check        *)
(* whether or not the previous one has ended.                              *)
(***************************************************************************)
EXTENDS TradeLedger

CONSTANT Checks (* runs of runCheck that may be in flight at once *)

VARIABLE check

CheckPc == {"idle", "positions", "trades", "price", "place_sl", "save_sl",
            "place_tp", "save_tp", "reverse"}

(* todo: the open trades still to compare; snap: the records as they were  *)
(* read; active: getPositions showed a position; missing: the kinds of     *)
(* protective orders not found; placed: the order just placed.             *)
NoCheck == [pc |-> "idle", todo |-> {}, snap |-> <<>>, active |-> FALSE,
            missing |-> {}, placed |-> None]

ReconciliationInit == check = [c \in Checks |-> NoCheck]

CheckAt(c, pc) == check[c].pc = pc
CheckGoto(c, pc) == check' = [check EXCEPT ![c].pc = pc]
EndCheck(c) == check' = [check EXCEPT ![c] = NoCheck]

Current(c) == Latest(check[c].todo)   (* ORDER BY entryTime DESC *)

(* The next trade, or the reverse check after the last one. *)
NextTrade(c) ==
  LET rest == check[c].todo \ {Current(c)} IN
    check' = [check EXCEPT ![c].pc = IF rest = {} THEN "reverse" ELSE "trades",
                           ![c].todo = rest, ![c].missing = {}, ![c].placed = None]

-----------------------------------------------------------------------------
(* runCheck.  Without open trades it returns at once. *)
StartCheck(c) ==
  /\ CheckAt(c, "idle")
  /\ OpenTrades # {}
  /\ check' = [check EXCEPT ![c] = [NoCheck EXCEPT !.pc = "positions", !.todo = OpenTrades,
                                                   !.snap = trades]]
  /\ UNCHANGED ledgerVars

Positions(c) ==
  /\ CheckAt(c, "positions")
  /\ check' = [check EXCEPT ![c].pc = "trades", ![c].active = size > 0]
  /\ UNCHANGED ledgerVars

(* Mutant: every trade open by now is closed. *)
CloseOrphanAll(c) ==
  /\ CheckAt(c, "trades")
  /\ ~check[c].active
  /\ CloseTrades(OpenTrades)
  /\ NextTrade(c)
  /\ UNCHANGED <<size, entries, orders, faults>>

(* Mutant: the orphan is reported and left open. *)
CloseOrphanSkip(c) ==
  /\ CheckAt(c, "trades")
  /\ ~check[c].active
  /\ NextTrade(c)
  /\ UNCHANGED ledgerVars

(* No position: the trade is an orphan and is closed. *)
CloseOrphan(c) ==
  /\ CheckAt(c, "trades")
  /\ ~check[c].active
  /\ CloseTrades({Current(c)})
  /\ NextTrade(c)
  /\ UNCHANGED <<size, entries, orders, faults>>

(* verifyProtectiveOrders: getOpenOrders answers, and is compared with the *)
(* order ids of the snapshot.                                              *)
Missing(c) ==
  LET trade == check[c].snap[Current(c)] IN
    {kind \in {"sl", "tp"} :
       (IF kind = "sl" THEN trade.sl ELSE trade.tp) \notin OpenOrders}

VerifyOrders(c) ==
  /\ CheckAt(c, "trades")
  /\ check[c].active
  /\ IF Missing(c) = {}
       THEN NextTrade(c)
       ELSE check' = [check EXCEPT ![c].pc = "price", ![c].missing = Missing(c)]
  /\ UNCHANGED ledgerVars

(* The stop is missing and the price is beyond its level: the trade is     *)
(* closed, the position is not.  A stop still resting would have filled.   *)
ClosePastStop(c) ==
  /\ CheckAt(c, "price")
  /\ "sl" \in check[c].missing
  /\ size = 0 \/ Stops = {}
  /\ CloseTrades({Current(c)})
  /\ NextTrade(c)
  /\ UNCHANGED <<size, entries, orders, faults>>

Repair(c) ==
  /\ CheckAt(c, "price")
  /\ CheckGoto(c, IF "sl" \in check[c].missing THEN "place_sl" ELSE "place_tp")
  /\ UNCHANGED ledgerVars

AfterStop(c) ==
  IF "tp" \in check[c].missing THEN CheckGoto(c, "place_tp") ELSE NextTrade(c)

ReplaceStop(c) ==
  /\ CheckAt(c, "place_sl")
  /\ Place("sl")
  /\ check' = [check EXCEPT ![c].pc = "save_sl", ![c].placed = Len(orders')]
  /\ UNCHANGED <<size, entries, trades, faults>>

SaveStop(c) ==
  /\ CheckAt(c, "save_sl")
  /\ UpdateOrderIds(Current(c), check[c].placed, check[c].snap[Current(c)].tp)
  /\ AfterStop(c)
  /\ UNCHANGED <<size, entries, orders, faults>>

ReplaceTarget(c) ==
  /\ CheckAt(c, "place_tp")
  /\ Place("tp")
  /\ check' = [check EXCEPT ![c].pc = "save_tp", ![c].placed = Len(orders')]
  /\ UNCHANGED <<size, entries, trades, faults>>

(* The trade is read again for its stop id. *)
SaveTarget(c) ==
  /\ CheckAt(c, "save_tp")
  /\ LET id == Current(c)
         sl == IF trades[id].sl = None THEN check[c].snap[id].sl ELSE trades[id].sl
     IN UpdateOrderIds(id, sl, check[c].placed)
  /\ NextTrade(c)
  /\ UNCHANGED <<size, entries, orders, faults>>

(* checkReverseOrphans: on the positions of this check, when it gets here. *)
ReverseOrphan(c) ==
  /\ CheckAt(c, "reverse")
  /\ IF check[c].active /\ OpenTrades = {}
       THEN RecordTrade(None, None)
       ELSE UNCHANGED trades
  /\ EndCheck(c)
  /\ UNCHANGED <<size, entries, orders, faults>>

(* A request rejects: runCheck gives up, verifyProtectiveOrders goes on to *)
(* the next trade, a failed replacement to the other order.  An order may  *)
(* have been accepted though its answer is lost; without a position it may *)
(* be refused.                                                             *)
RunCheckFail(c) ==
  /\ \/ CheckAt(c, "positions")
     \/ CheckAt(c, "trades") /\ ~check[c].active
     \/ CheckAt(c, "reverse") /\ check[c].active
  /\ Fault
  /\ EndCheck(c)
  /\ UNCHANGED <<size, entries, orders, trades>>

VerifyFail(c) ==
  /\ \/ CheckAt(c, "trades") /\ check[c].active
     \/ CheckAt(c, "price")
  /\ Fault
  /\ NextTrade(c)
  /\ UNCHANGED <<size, entries, orders, trades>>

ReplaceFail(c) ==
  /\ \/ CheckAt(c, "place_sl") /\ AfterStop(c) /\ (UNCHANGED orders \/ Place("sl"))
     \/ CheckAt(c, "place_tp") /\ NextTrade(c) /\ (UNCHANGED orders \/ Place("tp"))
  /\ Fault \/ (size = 0 /\ UNCHANGED <<orders, faults>>)
  /\ UNCHANGED <<size, entries, trades>>

CheckStep(c) ==
  \/ Positions(c) \/ CloseOrphan(c) \/ VerifyOrders(c) \/ ClosePastStop(c) \/ Repair(c)
  \/ ReplaceStop(c) \/ SaveStop(c) \/ ReplaceTarget(c) \/ SaveTarget(c)
  \/ ReverseOrphan(c) \/ RunCheckFail(c) \/ VerifyFail(c) \/ ReplaceFail(c)

ReconciliationNext == \E c \in Checks : StartCheck(c) \/ CheckStep(c)

ReconciliationTypeOK ==
  check \in [Checks -> [pc: CheckPc, todo: SUBSET TradeId, snap: Seq(Trade), active: BOOLEAN,
                        missing: SUBSET {"sl", "tp"}, placed: OrderId \cup {None}]]

=============================================================================
