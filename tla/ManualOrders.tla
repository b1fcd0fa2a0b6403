----------------------------- MODULE ManualOrders ------------------------------
(***************************************************************************)
(* The operations an operator makes by hand on one market, over the single *)
(* user's connection: the routes add-sl, ensure-sl, sync-position, the two *)
(* test orders and the deletion of a trade record (server.ts, api.ts), and *)
(* the Fast Test strategy (strategy-service.ts), request by request.       *)
(*                                                                         *)
(* The exchange (external) holds the position and reduce-only stop orders, *)
(* each over an amount; targets, prices and directions are left out.       *)
(***************************************************************************)
EXTENDS Naturals, Sequences, FiniteSets, FiniteSetsExt

CONSTANTS
  DeskCalls,              (* requests of the operator that may be in flight *)
  MaxUnits, MaxStopOrders, MaxSlips, MaxDeskFaults (* bounds               *)

ASSUME DeskAssumption == {MaxUnits, MaxStopOrders, MaxSlips, MaxDeskFaults} \subseteq Nat

VARIABLES
  endpoint,  (* "deribit", or the mock client, which holds nothing         *)
  units,     (* the size of the position                                   *)
  stopOrders, (* resting stops: id and amount                              *)
  serial,    (* the last order id                                          *)
  slips,     (* trade records: open, whether they name a stop, and a price   *)
  desk,      (* request -> operation, where it is, what it has read        *)
  fastTest,  (* status of the Fast Test strategy in the state file         *)
  deskFaults (* failed requests, and a stop lost before                    *)
deskVars == <<endpoint, units, stopOrders, serial, slips, desk, fastTest, deskFaults>>
deskMarket == <<units, stopOrders, serial>>

NoRequest == [op |-> "none", at |-> "idle", size |-> 0, saw |-> 0, slip |-> 0]
Awaits(c, at) == desk[c].at = at
GoesTo(c, at) == desk' = [desk EXCEPT ![c].at = at]
Replies(c) == desk' = [desk EXCEPT ![c] = NoRequest]
DeskFault == deskFaults < MaxDeskFaults /\ deskFaults' = deskFaults + 1
OpenSlips == {i \in DOMAIN slips : slips[i].open}

(* Flat, or with the executor's position and its record; the stop may have *)
(* been lost.                                                              *)
DeskInit ==
  /\ endpoint \in {"deribit", "mock"}
  /\ units \in 0..1 /\ (endpoint = "mock" => units = 0)
  /\ \E s \in SUBSET {1} : stopOrders = {[id |-> i, amount |-> 1] : i \in s} /\ (units = 0 => s = {})
  /\ deskFaults = IF units = 1 /\ stopOrders = {} THEN 1 ELSE 0
  /\ serial = 1
  /\ slips = IF units = 1 THEN <<[open |-> TRUE, sl |-> TRUE, price |-> TRUE]>> ELSE <<>>
  /\ desk = [c \in DeskCalls |-> NoRequest] /\ fastTest = "none"

-----------------------------------------------------------------------------
(* The exchange *)
StopHit ==
  /\ \E s \in stopOrders : stopOrders' = stopOrders \ {s} /\ units' = IF s.amount < units THEN units - s.amount ELSE 0
  /\ UNCHANGED <<endpoint, serial, slips, desk, fastTest, deskFaults>>
OtherExit ==
  /\ units > 0 /\ units' = 0 /\ UNCHANGED <<endpoint, stopOrders, serial, slips, desk, fastTest, deskFaults>>
Bought == IF endpoint = "mock" THEN UNCHANGED units ELSE units < MaxUnits /\ units' = units + 1
StopPlaced(amount) ==
  /\ serial < MaxStopOrders /\ serial' = serial + 1
  /\ stopOrders' = stopOrders \cup {[id |-> serial', amount |-> amount]}

-----------------------------------------------------------------------------
(* A request starts with the first thing it reads.                         *)
Requested(c, op, at, size, slip) ==
  Awaits(c, "idle") /\ desk' = [desk EXCEPT ![c] = [op |-> op, at |-> at, size |-> size, saw |-> 0, slip |-> slip]]
Errors(c) == DeskFault /\ Replies(c)
Reads == UNCHANGED <<endpoint, deskMarket, slips, fastTest>>

(* getPositions: 404 without a position. *)
AddStop(c) == units > 0 /\ Requested(c, "add", "orders", units, 0) /\ UNCHANGED deskFaults /\ Reads
SyncPosition(c) == units > 0 /\ Requested(c, "sync", "orders", units, 0) /\ UNCHANGED deskFaults /\ Reads
(* ensure-sl: the newest open record, which must know a stop price.        *)
EnsureStop(c) ==
  /\ OpenSlips # {} /\ slips[Max(OpenSlips)].price
  /\ Requested(c, "ensure", "position", 0, Max(OpenSlips)) /\ UNCHANGED deskFaults /\ Reads
FindPosition(c) ==
  /\ Awaits(c, "position") /\ Reads
  /\ \/ /\ IF units = 0 THEN Replies(c) ELSE desk' = [desk EXCEPT ![c].at = "orders", ![c].size = units]
        /\ UNCHANGED deskFaults
     \/ Errors(c)
(* The route deletes a record at any time; that a request holds the record *)
(* is left out: its update would change nothing.                           *)
DeleteTrade ==
  /\ \E i \in DOMAIN slips : slips' = SubSeq(slips, 1, i - 1) \o SubSeq(slips, i + 1, Len(slips))
  /\ \A c \in DeskCalls : desk[c].slip = 0
  /\ UNCHANGED <<endpoint, deskMarket, desk, fastTest, deskFaults>>

(* getOpenOrders: a stop, if one rests.  sync-position looks for fields    *)
(* the exchange does not send, finds none, and records the position        *)
(* without looking for a record of it.                                     *)
FindStop(c) ==
  /\ Awaits(c, "orders") /\ UNCHANGED <<endpoint, deskMarket, fastTest>>
  /\ \/ /\ UNCHANGED deskFaults
        /\ CASE desk[c].op = "sync" ->
                  /\ Len(slips) < MaxSlips /\ Replies(c)
                  /\ slips' = Append(slips, [open |-> TRUE, sl |-> FALSE, price |-> FALSE])
             [] desk[c].op = "ensure" -> (IF stopOrders = {} THEN GoesTo(c, "place") ELSE Replies(c)) /\ UNCHANGED slips
             [] OTHER -> /\ \E saw \in (IF stopOrders = {} THEN {0} ELSE {s.id : s \in stopOrders}) :
                              desk' = [desk EXCEPT ![c].at = "price", ![c].saw = saw]
                         /\ UNCHANGED slips
     \/ Errors(c) /\ UNCHANGED slips

(* Ticker, then a price or a percentage, else 400, then the instrument.    *)
FindPrice(c) ==
  /\ Awaits(c, "price") /\ Reads
  /\ \/ (GoesTo(c, IF desk[c].saw = 0 THEN "place" ELSE "cancel") \/ Replies(c)) /\ UNCHANGED deskFaults
     \/ Errors(c)

(* Mutant: every stop of the market is cancelled. *)
CancelEvery(c) ==
  /\ Awaits(c, "cancel") /\ stopOrders' = {} /\ GoesTo(c, "place")
  /\ UNCHANGED <<endpoint, units, serial, slips, fastTest, deskFaults>>
(* The old stop is cancelled before the new one is placed; errors pass.    *)
CancelOld(c) ==
  /\ Awaits(c, "cancel") /\ UNCHANGED <<endpoint, units, serial, slips, fastTest>> /\ GoesTo(c, "place")
  /\ \/ stopOrders' = {s \in stopOrders : s.id # desk[c].saw} /\ UNCHANGED deskFaults
     \/ DeskFault /\ UNCHANGED stopOrders

(* A stop over the size that was read; refused when the position is gone.  *)
PlaceManualStop(c) ==
  /\ Awaits(c, "place") /\ UNCHANGED <<endpoint, units, slips, fastTest>>
  /\ \/ /\ units > 0 /\ StopPlaced(desk[c].size) /\ UNCHANGED deskFaults
        /\ desk' = [desk EXCEPT ![c].at = IF desk[c].op = "add" THEN "find" ELSE "link", ![c].saw = 0, ![c].size = 0]
     \/ units = 0 /\ Replies(c) /\ UNCHANGED <<stopOrders, serial, deskFaults>>
     \/ Errors(c) /\ (StopPlaced(desk[c].size) \/ UNCHANGED <<stopOrders, serial>>)

(* add-sl: the newest open record of the market, if there is one.          *)
QueryTrade(c) ==
  /\ Awaits(c, "find") /\ Reads /\ UNCHANGED deskFaults
  /\ IF OpenSlips = {} THEN Replies(c) ELSE desk' = [desk EXCEPT ![c].at = "link", ![c].slip = Max(OpenSlips)]

(* updateOrderIds; updateStops changes nothing in the SQL store.           *)
LinkStop(c) ==
  /\ Awaits(c, "link") /\ slips' = [slips EXCEPT ![desk[c].slip].sl = TRUE]
  /\ Replies(c) /\ UNCHANGED <<endpoint, deskMarket, fastTest, deskFaults>>

(* placeTestOrder: one order, whose stop the exchange creates; it neither  *)
(* looks for a position nor records a trade.                               *)
TestOrder(c) ==
  /\ Awaits(c, "idle") /\ UNCHANGED <<endpoint, slips, desk, fastTest>>
  /\ LET executes == Bought /\ IF endpoint = "mock" THEN UNCHANGED <<stopOrders, serial>> ELSE StopPlaced(1)
     IN \/ executes /\ UNCHANGED deskFaults
        \/ DeskFault /\ executes

-----------------------------------------------------------------------------
(* Fast Test: placeFastTestOrder; any failure makes the strategy "error".  *)
Aborts(c) == fastTest' = "error" /\ Replies(c)
FastTest(c) ==
  /\ fastTest = "none" /\ UNCHANGED <<endpoint, deskMarket, slips>>
  /\ \/ units = 0 /\ Requested(c, "fast", "entry", 0, 0) /\ fastTest' = "active" /\ UNCHANGED deskFaults
     \/ units > 0 /\ Awaits(c, "idle") /\ Aborts(c) /\ UNCHANGED deskFaults
     \/ DeskFault /\ Awaits(c, "idle") /\ Aborts(c)
FastTestEnters(c) ==
  /\ Awaits(c, "entry") /\ UNCHANGED <<endpoint, stopOrders, serial, slips>>
  /\ \/ Bought /\ GoesTo(c, "verify") /\ UNCHANGED <<fastTest, deskFaults>>
     \/ DeskFault /\ Aborts(c) /\ (Bought \/ UNCHANGED units)

(* Deribit nests the order in its answer, so entryOrder.order_id is        *)
(* undefined: all three verifications fail, and the position is left as it *)
(* is.  The mock answers everything, and its orders are "filled".          *)
FastTestVerifies(c) ==
  /\ Awaits(c, "verify") /\ UNCHANGED <<endpoint, deskMarket, slips, deskFaults>>
  /\ \/ endpoint = "deribit" /\ Aborts(c)
     \/ endpoint = "mock" /\ GoesTo(c, "monitor") /\ UNCHANGED fastTest
(* monitorPositionCleanup: neither order is "open".                        *)
FastTestMonitor(c) ==
  /\ Awaits(c, "monitor") /\ fastTest' = "stopped" /\ Replies(c)
  /\ UNCHANGED <<endpoint, deskMarket, slips, deskFaults>>
(* The check of every ten seconds removes a stopped strategy.              *)
FastTestCleanup ==
  /\ fastTest = "stopped" /\ fastTest' = "none"
  /\ UNCHANGED <<endpoint, deskMarket, slips, desk, deskFaults>>

DeskNext ==
  \/ \E c \in DeskCalls :
       \/ AddStop(c) \/ EnsureStop(c) \/ SyncPosition(c) \/ TestOrder(c) \/ FastTest(c)
       \/ FindPosition(c) \/ FindStop(c) \/ FindPrice(c) \/ CancelOld(c) \/ PlaceManualStop(c)
       \/ QueryTrade(c) \/ LinkStop(c)
       \/ FastTestEnters(c) \/ FastTestVerifies(c) \/ FastTestMonitor(c)
  \/ StopHit \/ OtherExit \/ DeleteTrade \/ FastTestCleanup

-----------------------------------------------------------------------------
DeskTypeOK ==
  /\ endpoint \in {"deribit", "mock"} /\ units \in 0..MaxUnits /\ serial \in 1..MaxStopOrders
  /\ stopOrders \subseteq [id : 1..serial, amount : 1..MaxUnits]
  /\ \A i \in DOMAIN slips : slips[i] \in [open : BOOLEAN, sl : BOOLEAN, price : BOOLEAN]
  /\ fastTest \in {"none", "active", "error", "stopped"}

(* However the operator's requests interleave with one another and with    *)
(* the exchange, as long as none fails the resting stops cover the whole   *)
(* position, except between the cancel and the placing of an add-sl: the   *)
(* sizes and the stop that were read may be old by then (server.ts).       *)
StopsCoverPosition ==
  (/\ deskFaults = 0 /\ fastTest = "none"
   /\ \A c \in DeskCalls : Awaits(c, "place") => desk[c].saw = 0)
  => units <= MapThenSumSet(LAMBDA s : s.amount, stopOrders)
=============================================================================
