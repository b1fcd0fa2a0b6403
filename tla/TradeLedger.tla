----------------------------- MODULE TradeLedger -----------------------------
(***************************************************************************)
(* What the trading components share: the position and the reduce-only     *)
(* orders Deribit holds for one instrument (external, modelled from how    *)
(* razor-executor.ts and reconciliation-service.ts use it) and the trade   *)
(* records of services/trade-history.ts (the SQL store).                   *)
(*                                                                         *)
(* Prices are left out: whether a price has passed a level is a choice of  *)
(* the market, limited where an order at that level would have filled.     *)
(***************************************************************************)
EXTENDS Naturals, Sequences, FiniteSets

CONSTANTS
  None,       (* null, or an absent order id                               *)
  MaxEntries, (* bound on entry orders of a behaviour                      *)
  MaxOrders,  (* bound on reduce-only orders of a behaviour                *)
  MaxTrades,  (* bound on trade records of a behaviour                     *)
  MaxFaults   (* bound on requests that fail                               *)

ASSUME LedgerAssumption ==
  /\ None \notin Nat
  /\ {MaxEntries, MaxOrders, MaxTrades, MaxFaults} \subseteq Nat

VARIABLES
  size,    (* entries in the position: 0 is flat, 2 is a doubled position  *)
  entries, (* entry orders filled so far                                   *)
  orders,  (* order id -> "sl", "be" (stop at breakeven), "tp" or "gone"   *)
  trades,  (* trade id -> record; ids grow with entryTime                  *)
  faults   (* requests that failed so far                                  *)

ledgerVars == <<size, entries, orders, trades, faults>>

OrderKind == {"sl", "be", "tp", "gone"}
OrderId == Nat \ {0}
TradeId == Nat \ {0}

(* flat is history: the position was flat at some time since the record.   *)
Trade == [status: {"open", "closed"}, sl: OrderId \cup {None},
          tp: OrderId \cup {None}, flat: BOOLEAN]

OpenOrders == {o \in DOMAIN orders : orders[o] # "gone"}
Stops == {o \in DOMAIN orders : orders[o] \in {"sl", "be"}}
OpenTrades == {id \in DOMAIN trades : trades[id].status = "open"}

Latest(ids) == CHOOSE id \in ids : \A other \in ids : other <= id

LedgerInit ==
  /\ size = 0
  /\ entries = 0
  /\ orders = <<>>
  /\ trades = <<>>
  /\ faults = 0

-----------------------------------------------------------------------------
(* The exchange *)

Resize(n) ==
  /\ size' = n
  /\ trades' = [id \in DOMAIN trades |->
                  [trades[id] EXCEPT !.flat = @ \/ n = 0]]

(* A market order fills at once; the position grows. *)
Buy ==
  /\ entries < MaxEntries
  /\ entries' = entries + 1
  /\ Resize(size + 1)

Place(kind) ==
  /\ Len(orders) < MaxOrders
  /\ orders' = Append(orders, kind)

Cancel(ids) == orders' = [o \in DOMAIN orders |-> IF o \in ids THEN "gone" ELSE orders[o]]

(* The market reaches an order's price: it reduces the position, or is     *)
(* dropped when there is nothing left to reduce.                           *)
Fill(o) ==
  /\ o \in OpenOrders
  /\ Cancel({o})
  /\ IF size > 0 THEN Resize(size - 1) ELSE UNCHANGED <<size, trades>>
  /\ UNCHANGED <<entries, faults>>

(* A request is refused, times out or loses its connection. *)
Fault ==
  /\ faults < MaxFaults
  /\ faults' = faults + 1

-----------------------------------------------------------------------------
(* Trade history *)

(* recordTrade; the id of the record is Len(trades'). *)
RecordTrade(sl, tp) ==
  /\ Len(trades) < MaxTrades
  /\ trades' = Append(trades, [status |-> "open", sl |-> sl, tp |-> tp, flat |-> size = 0])

(* closeTrade has no guard on the status; an unknown id matches no row. *)
CloseTrades(ids) ==
  trades' = [id \in DOMAIN trades |->
               IF id \in ids THEN [trades[id] EXCEPT !.status = "closed"] ELSE trades[id]]

(* updateOrderIds: an absent id leaves its column as it is. *)
UpdateOrderIds(id, sl, tp) ==
  trades' = [trades EXCEPT ![id].sl = IF sl = None THEN @ ELSE sl,
                           ![id].tp = IF tp = None THEN @ ELSE tp]

-----------------------------------------------------------------------------
LedgerTypeOK ==
  /\ size \in Nat
  /\ entries \in Nat
  /\ orders \in Seq(OrderKind)
  /\ trades \in Seq(Trade)
  /\ faults \in Nat

=============================================================================
