------------------------------- MODULE Brackets --------------------------------
(***************************************************************************)
(* The three procedures of the browser that put a stop and a target behind *)
(* an entry: SimpleBracketManager.attachBrackets ("simple"),               *)
(* AdvancedBracketManager.attachInitialBracket ("advanced") and            *)
(* RazorStrategy.executeTrade ("razor").  Each is a sequence of requests,  *)
(* any of which may fail, be it executed or not, while the exchange        *)
(* (external) fills, triggers and the user closes.                         *)
(*                                                                         *)
(* The client answers an order request with {order: {order_id}}; the       *)
(* advanced manager looks for order_id one level higher, never finds it,   *)
(* and takes every stop it places for refused.  What follows a successful  *)
(* stop there (target, breakeven, trailing) is therefore never reached.    *)
(***************************************************************************)
EXTENDS Naturals, FiniteSets

CONSTANTS
  EntryTries,   (* verifications of the entry: 5 (advanced), 10 (razor)    *)
  BracketTries, (* placements of the pair: 2                               *)
  CancelTries,  (* simple.cancelOrder: 3                                   *)
  TriggerLimit, (* trigger orders that leave no room: 8                    *)
  Crowd, KeepOrders,  (* cleanupStaleOrders: from 10 on, keep the newest 5       *)
  Leftovers,    (* trigger orders of earlier trades, by age                *)
  MaxFailures   (* bound on requests that fail                             *)

ASSUME BracketsAssumption ==
  /\ {EntryTries, BracketTries, CancelTries, TriggerLimit, Crowd, KeepOrders, MaxFailures} \cup Leftovers \subseteq Nat
  /\ BracketTries > 1

VARIABLES
  placer,     (* who places, where, and what it knows                      *)
  entryOrder, (* the entry at the exchange                                 *)
  holding,    (* a position is open                                        *)
  legs,       (* resting orders                                            *)
  failures    (* requests that failed                                      *)
bracketVars == <<placer, entryOrder, holding, legs, failures>>
marketVars == <<entryOrder, holding, legs>>

Placers == {"simple", "advanced", "razor"}
Leg(kind, n) == [kind |-> kind, n |-> n]
Triggers == {l \in legs : l.kind # "target"}
who == placer.who
PlacerAt(stage) == placer.at = stage
Goes(stage) == placer' = [placer EXCEPT !.at = stage, !.tries = 0]
Again == placer' = [placer EXCEPT !.tries = @ + 1]
Fault == failures < MaxFailures /\ failures' = failures + 1
NoFault == UNCHANGED failures

BracketsInit ==
  /\ legs \in SUBSET {Leg("old", n) : n \in Leftovers} /\ failures = 0
  /\ \E w \in Placers :
       /\ placer = [who |-> w, tries |-> 0, round |-> 0, mine |-> {}, seen |-> {},
                    at |-> CASE w = "razor" -> "enter" [] w = "simple" -> "entry" [] OTHER -> "orders"]
       /\ entryOrder \in IF w = "razor" THEN {"none"} ELSE {"open", "filled", "cancelled"}
       /\ holding \in {FALSE, entryOrder = "filled"}

-----------------------------------------------------------------------------
(* The exchange: any resting reduce-only order may execute. *)
EntryFills == entryOrder = "open" /\ entryOrder' = "filled" /\ holding' = TRUE /\ UNCHANGED <<placer, legs, failures>>
EntryDies == entryOrder = "open" /\ entryOrder' = "cancelled" /\ UNCHANGED <<placer, holding, legs, failures>>
LegExecuted(l) == holding /\ holding' = FALSE /\ legs' = legs \ {l} /\ UNCHANGED <<placer, entryOrder, failures>>
ClosedElsewhere == holding /\ holding' = FALSE /\ UNCHANGED <<placer, entryOrder, legs, failures>>

(* A request to place or to close: refused, executed, or executed with its *)
(* answer lost.                                                            *)
Executes(effect, unchanged, ok, failed) ==
  \/ effect /\ ok /\ NoFault
  \/ effect /\ failed /\ Fault
  \/ unchanged /\ failed /\ Fault

-----------------------------------------------------------------------------
(* razor: balance, instrument and size are read, then the market entry.    *)
EntersMarket ==
  /\ PlacerAt("enter")
  /\ \/ Goes("failed") /\ UNCHANGED <<marketVars, failures>>
     \/ Executes(entryOrder' = "open", UNCHANGED entryOrder, Goes("entry"), Goes("failed"))
        /\ UNCHANGED <<holding, legs>>

(* The entry must be filled.  simple asks once; advanced repeats a request *)
(* that failed; razor repeats whatever the answer was, cancelled included. *)
VerifyEntry ==
  /\ PlacerAt("entry") /\ UNCHANGED marketVars
  /\ \/ NoFault /\ IF entryOrder = "filled" THEN placer' = [placer EXCEPT !.at = "position"]
                   ELSE IF who # "razor" THEN Goes("failed")
                   ELSE IF placer.tries + 1 < EntryTries THEN Again ELSE Goes("cancelEntry")
     \/ Fault /\ IF who # "simple" /\ placer.tries + 1 < EntryTries THEN Again
                 ELSE Goes(IF who = "razor" THEN "cancelEntry" ELSE "failed")

(* The position must be there. *)
AfterPosition == CASE who = "razor" -> "orders" [] who = "simple" -> "orders" [] OTHER -> "limit"
VerifyPosition ==
  /\ PlacerAt("position") /\ UNCHANGED marketVars
  /\ \/ holding /\ NoFault /\ Goes(AfterPosition)
     \/ /\ (~holding /\ NoFault) \/ Fault
        /\ IF who # "simple" /\ placer.tries + 1 < EntryTries
           THEN placer' = [placer EXCEPT !.tries = @ + 1, !.at = IF who = "razor" THEN "entry" ELSE @]
           ELSE Goes(IF who = "razor" THEN "cancelEntry" ELSE "failed")

(* razor: an entry that was not verified is cancelled, filled or not. *)
CancelEntry ==
  /\ PlacerAt("cancelEntry") /\ Goes("failed") /\ UNCHANGED <<holding, legs, failures>>
  /\ entryOrder' \in {entryOrder, IF entryOrder = "open" THEN "cancelled" ELSE entryOrder}

-----------------------------------------------------------------------------
(* cleanupOrphanedTriggers, cleanupOrphanedOrders, cleanupStaleOrders: the *)
(* orders, the positions, then one cancellation after the other.  A failed *)
(* read ends the cleanup and nothing else.                                 *)
AfterClean ==
  CASE who # "advanced" -> "limit" [] placer.round = 0 -> "entry" [] OTHER -> "stop"
CleanEnds == placer' = [placer EXCEPT !.at = AfterClean, !.tries = 0, !.seen = {}]

CleanOrders ==
  /\ PlacerAt("orders") /\ UNCHANGED marketVars
  /\ \/ placer' = [placer EXCEPT !.at = "positions", !.seen = Triggers] /\ NoFault
     \/ CleanEnds /\ Fault

Oldest(set) == {l \in set : Cardinality({k \in set : k.n > l.n}) >= KeepOrders}
CleanPositions ==
  /\ PlacerAt("positions") /\ UNCHANGED marketVars
  /\ \/ /\ NoFault
        /\ placer' = [placer EXCEPT !.at = "cancel",
             !.seen = IF ~holding THEN @
                      ELSE IF who = "advanced" /\ Cardinality(@) >= Crowd THEN Oldest(@) ELSE {}]
     \/ CleanEnds /\ Fault

CleanCancel ==
  /\ PlacerAt("cancel") /\ UNCHANGED <<entryOrder, holding>>
  /\ IF placer.seen = {} THEN CleanEnds /\ UNCHANGED <<legs, failures>>
     ELSE \E l \in placer.seen :
       \/ legs' = legs \ {l} /\ placer' = [placer EXCEPT !.seen = @ \ {l}, !.tries = 0] /\ NoFault
       \/ /\ Fault /\ UNCHANGED legs
          /\ IF who = "simple" /\ placer.tries + 1 < CancelTries THEN Again
             ELSE placer' = [placer EXCEPT !.seen = @ \ {l}, !.tries = 0]

(* Room for two more trigger orders; a count that cannot be read is no     *)
(* obstacle except to razor, which closes the position.                    *)
CheckLimit ==
  /\ PlacerAt("limit") /\ UNCHANGED marketVars
  /\ LET room == placer' = [placer EXCEPT !.round = 1, !.tries = 0,
                              !.at = IF who = "advanced" THEN "orders" ELSE "stop"]
         none == Goes(IF who = "razor" THEN "close" ELSE "failed")
     IN \/ NoFault /\ IF Cardinality(Triggers) < TriggerLimit THEN room ELSE none
        \/ Fault /\ IF who = "razor" THEN none ELSE room

-----------------------------------------------------------------------------
(* The pair: the stop, its state (simple), the target, its state (simple). *)
(* An order whose answer or state did not arrive stays unknown.            *)
Learns(kind) == placer.mine \cup {Leg(kind, placer.round)}

PlaceStop ==
  /\ PlacerAt("stop") /\ UNCHANGED <<entryOrder, holding>>
  /\ Executes(legs' = legs \cup {Leg("stop", placer.round)}, UNCHANGED legs,
       CASE who = "simple" -> Goes("checkStop")
         [] who = "razor" -> placer' = [placer EXCEPT !.at = "target", !.mine = Learns("stop")]
         [] OTHER -> Goes("look"),
       Goes(IF who = "advanced" THEN "look" ELSE "undo"))

CheckPlaced(from, kind, to) ==
  /\ PlacerAt(from) /\ UNCHANGED marketVars
  /\ \/ placer' = [placer EXCEPT !.at = to, !.mine = Learns(kind)] /\ NoFault
     \/ Goes("undo") /\ Fault

PlaceTarget ==
  /\ PlacerAt("target") /\ UNCHANGED <<entryOrder, holding>>
  /\ Executes(legs' = legs \cup {Leg("target", placer.round)}, UNCHANGED legs,
       IF who = "simple" THEN Goes("checkTarget")
       ELSE placer' = [placer EXCEPT !.at = "done", !.mine = Learns("target")],
       Goes("undo"))

(* Mutant: one attempt, whatever its end.                                  *)
GiveUp == Goes("failed")
NextRound ==
  IF placer.round < BracketTries
  THEN placer' = [placer EXCEPT !.at = "stop", !.tries = 0, !.round = @ + 1]
  ELSE Goes(IF who = "razor" THEN "close" ELSE "failed")

(* What is known of the pair is cancelled, and the next attempt begins. *)
Undo ==
  /\ PlacerAt("undo") /\ UNCHANGED <<entryOrder, holding>>
  /\ IF placer.mine = {} THEN NextRound /\ UNCHANGED <<legs, failures>>
     ELSE \E l \in placer.mine :
       \/ legs' = legs \ {l} /\ placer' = [placer EXCEPT !.mine = @ \ {l}, !.tries = 0] /\ NoFault
       \/ /\ Fault /\ UNCHANGED legs
          /\ IF who = "simple" /\ placer.tries + 1 < CancelTries THEN Again
             ELSE placer' = [placer EXCEPT !.mine = @ \ {l}, !.tries = 0]

(* advanced, after its stop: close what is open, if that can be read. *)
LookForPosition ==
  /\ PlacerAt("look") /\ UNCHANGED marketVars
  /\ \/ NoFault /\ Goes(IF holding THEN "close" ELSE "failed")
     \/ Fault /\ Goes("failed")

(* The emergency close: a reduce-only market order, tried once. *)
EmergencyClose ==
  /\ PlacerAt("close") /\ UNCHANGED <<entryOrder, legs>>
  /\ Executes(holding' = FALSE, UNCHANGED holding, Goes("failed"), Goes("failed"))

-----------------------------------------------------------------------------
Prepare == EntersMarket \/ VerifyEntry \/ VerifyPosition \/ CancelEntry \/ CleanOrders \/ CleanPositions \/ CleanCancel
Attach ==
  \/ CheckLimit \/ PlaceStop \/ CheckPlaced("checkStop", "stop", "target")
  \/ PlaceTarget \/ CheckPlaced("checkTarget", "target", "done")
  \/ Undo \/ LookForPosition \/ EmergencyClose

BracketsNext ==
  Prepare \/ Attach \/ EntryFills \/ EntryDies \/ ClosedElsewhere \/ \E l \in legs : LegExecuted(l)

-----------------------------------------------------------------------------
Stages == {"enter", "entry", "position", "cancelEntry", "orders", "positions", "cancel", "limit", "stop",
           "checkStop", "target", "checkTarget", "undo", "look", "close", "done", "failed"}
BracketsTypeOK ==
  /\ placer.at \in Stages /\ who \in Placers /\ placer.round \in 0..BracketTries
  /\ entryOrder \in {"none", "open", "filled", "cancelled"} /\ holding \in BOOLEAN
  /\ legs \cup placer.mine \cup placer.seen
       \subseteq {Leg("old", n) : n \in Leftovers} \cup {Leg(k, n) : k \in {"stop", "target"}, n \in 1..BracketTries}
  /\ failures \in 0..MaxFailures

(* Once the pair was to be placed and at most one request has failed, the  *)
(* procedure does not end with an open position that no stop of its own    *)
(* protects: the pair is placed again, or the position is closed.          *)
EndsProtected ==
  PlacerAt("done") \/ PlacerAt("failed") =>
    (placer.round > 0 /\ failures <= 1 /\ holding => \E l \in legs : l.kind = "stop")

(* "Emergency close if brackets fail". *)
FailedIsFlat == PlacerAt("failed") /\ placer.round > 0 => ~holding

=============================================================================
