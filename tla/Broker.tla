-------------------------------- MODULE Broker ---------------------------------
(***************************************************************************)
(* The Deribit adapter of the strategy runner (brokers/DeribitBroker.ts),  *)
(* with the recovery manager and the strategy routes of api.ts that work   *)
(* over it: risk-managed entries behind the single-position guard, the     *)
(* orphan scan, and recovery after a crash with its reconciliation of the  *)
(* lifecycle and the account.  Calls interleave at every request.          *)
(*                                                                         *)
(* The exchange (external) nets the exposures of a market, creates the     *)
(* bracket of an entry when it fills.                                      *)
(***************************************************************************)
EXTENDS Naturals, FiniteSets

CONSTANTS
  Markets,    (* instruments                                               *)
  BrokerCalls, (* calls in flight                                          *)
  MaxOrders   (* bound on entry orders                                     *)

ASSUME BrokerAssumption == MaxOrders \in Nat

VARIABLES
  placed,   (* entry orders sent so far                                    *)
  resting,  (* limit entries that have not filled                          *)
  exposure, (* entries whose exposure is in the position of their market   *)
  children, (* entries whose stop and target rest                          *)
  local,    (* StrategyManager: the lifecycle state                        *)
  bcall     (* call -> what it does, where, with what it has read          *)
brokerVars == <<placed, resting, exposure, children, local, bcall>>
bookVars == <<placed, resting, exposure, children>>

LocalStates == {"idle", "analyzing", "entering", "open", "closing"}
Side == {"long", "short"}
On(m) == {x \in exposure : x.m = m}
NotCalled == [at |-> "none", m |-> "", side |-> "", seen |-> {}, was |-> ""]
Called(c, at) == bcall[c].at = at
Ends(c) == bcall' = [bcall EXCEPT ![c] = NotCalled]

BrokerInit ==
  /\ placed = 0 /\ resting = {} /\ exposure = {} /\ children = {}
  /\ local \in LocalStates /\ bcall = [c \in BrokerCalls |-> NotCalled]

-----------------------------------------------------------------------------
(* placeOCOWithRiskManagement: the guard looks at one instrument, then the *)
(* price and the balance are awaited.                                      *)
PlaceGuard(c, m, side) ==
  /\ Called(c, "none") /\ On(m) = {}
  /\ bcall' = [bcall EXCEPT ![c] = [@ EXCEPT !.at = "guarded", !.m = m, !.side = side]]
  /\ UNCHANGED <<bookVars, local>>

(* No price, no balance, or the position sizer refuses. *)
PlaceRefused(c) == Called(c, "guarded") /\ Ends(c) /\ UNCHANGED <<bookVars, local>>

(* placeOCOOrder: a limit entry that triggers its stop and target. *)
PlaceSend(c) ==
  /\ Called(c, "guarded") /\ placed < MaxOrders
  /\ placed' = placed + 1
  /\ resting' = resting \cup {[id |-> placed', m |-> bcall[c].m, side |-> bcall[c].side]}
  /\ Ends(c) /\ UNCHANGED <<exposure, children, local>>

(* The exchange. *)
Fills(e) ==
  /\ resting' = resting \ {e} /\ children' = children \cup {e}
  /\ LET opposite == {x \in On(e.m) : x.side # e.side} IN
       IF opposite = {} THEN exposure' = exposure \cup {e}
                        ELSE \E x \in opposite : exposure' = exposure \ {x}
  /\ UNCHANGED <<placed, local, bcall>>
LegExecutes(e) ==
  /\ \E x \in On(e.m) : x.side = e.side /\ exposure' = exposure \ {IF e \in exposure THEN e ELSE x}
  /\ children' = children \ {e} /\ UNCHANGED <<placed, resting, local, bcall>>
ClosedByHand(m) == On(m) # {} /\ exposure' = exposure \ On(m) /\ UNCHANGED <<placed, resting, children, local, bcall>>

-----------------------------------------------------------------------------
(* scanAndCleanOrphans: the orders first, then the positions, then one     *)
(* cancellation after the other.  The labels of placeOCOOrder are not      *)
(* those the scan would spare.                                             *)
ScanOrders(c) ==
  /\ Called(c, "none") /\ children \cup resting # {}
  /\ bcall' = [bcall EXCEPT ![c] = [@ EXCEPT !.at = "scanned", !.seen = children]]
  /\ UNCHANGED <<bookVars, local>>

(* Mutant: positions that could not be read count as none. *)
ScanPositionsOpen(c) ==
  /\ Called(c, "scanned")
  /\ \E unread \in BOOLEAN :
       bcall' = [bcall EXCEPT ![c] = [@ EXCEPT !.at = "cancelling",
                                              !.seen = {x \in @ : unread \/ On(x.m) = {}}]]
  /\ UNCHANGED <<bookVars, local>>

ScanPositions(c) ==
  /\ Called(c, "scanned")
  /\ bcall' = [bcall EXCEPT ![c] = [@ EXCEPT !.at = "cancelling", !.seen = {x \in bcall[c].seen : On(x.m) = {}}]]
  /\ UNCHANGED <<bookVars, local>>
ScanFails(c) == Called(c, "scanned") /\ Ends(c) /\ UNCHANGED <<bookVars, local>>

(* A cancellation that fails is only logged. *)
ScanCancel(c) ==
  /\ Called(c, "cancelling")
  /\ IF bcall[c].seen = {} THEN Ends(c) /\ UNCHANGED children
     ELSE \E x \in bcall[c].seen :
            /\ bcall' = [bcall EXCEPT ![c].seen = @ \ {x}]
            /\ children' \in {children, children \ {x}}
  /\ UNCHANGED <<placed, resting, exposure, local>>

-----------------------------------------------------------------------------
(* reconcileState, of the state read before the request and the markets    *)
(* with a position: its first and its last case (the others only warn).    *)
(* Nothing calls it to close the positions it does not know.               *)
Mismatch(was, held) == held # {} /\ (was \in {"idle", "analyzing"} \/ Cardinality(held) > 1)

(* recover: initialize has loaded the state; reconcileState(); then        *)
(* onPositionOpened, which is legal from entering only and throws          *)
(* otherwise.  A timeout or an error ends it the same way.                 *)
RecoverBegin(c) ==
  /\ Called(c, "none")
  /\ bcall' = [bcall EXCEPT ![c] = [@ EXCEPT !.at = "recovering", !.was = local]]
  /\ UNCHANGED <<bookVars, local>>

RecoverEnd(c) ==
  /\ Called(c, "recovering") /\ Ends(c)
  /\ LET was == bcall[c].was
     IN local' = IF /\ Mismatch(was, {m \in Markets : On(m) # {}})
                    /\ was \notin {"open", "closing"} /\ local = "entering"
                 THEN "open" ELSE local
  /\ UNCHANGED bookVars
RecoverFails(c) == Called(c, "recovering") /\ Ends(c) /\ UNCHANGED <<bookVars, local>>

(* handleStartStrategy, handleStopStrategy. *)
LocalStart == local = "idle" /\ local' = "analyzing" /\ UNCHANGED <<bookVars, bcall>>
LocalStop == local # "idle" /\ local' = "idle" /\ UNCHANGED <<bookVars, bcall>>

-----------------------------------------------------------------------------
Place(c) == (\E m \in Markets, s \in Side : PlaceGuard(c, m, s)) \/ PlaceRefused(c) \/ PlaceSend(c)
Scan(c) == ScanOrders(c) \/ ScanPositions(c) \/ ScanFails(c) \/ ScanCancel(c)
Recover(c) == RecoverBegin(c) \/ RecoverEnd(c) \/ RecoverFails(c)

BrokerNext ==
  \/ LocalStart \/ LocalStop
  \/ \E e \in resting : Fills(e)
  \/ \E e \in children : LegExecutes(e)
  \/ \E m \in Markets : ClosedByHand(m)
  \/ \E c \in BrokerCalls : Place(c) \/ Scan(c) \/ Recover(c)

-----------------------------------------------------------------------------
BrokerTypeOK ==
  /\ placed \in 0..MaxOrders /\ local \in LocalStates
  /\ resting \cup exposure \cup children \subseteq [id : 1..placed, m : Markets, side : Side]
  /\ \A x, y \in exposure : x.m = y.m => x.side = y.side

(* The orphan scan never cancels the stop and target of an exposure that   *)
(* is still there: the orders are read before the positions, so an order   *)
(* it has seen without a position cannot get one any more.                 *)
ScanSparesProtection ==
  [][\A c \in BrokerCalls : Called(c, "cancelling") /\ bcall'[c] # bcall[c]
       => (children \ children') \cap exposure = {}]_brokerVars

(* "Broker has position but local state does not - updating local state".  *)
RecoveryAdopts ==
  [][\A c \in BrokerCalls : Called(c, "recovering") /\ bcall'[c] = NotCalled /\ RecoverEnd(c)
       => exposure = {} \/ local' \in {"open", "closing"}]_brokerVars

(* "Check if position can be opened (Single Position Guard)". *)
OnePositionPerMarket == \A m \in Markets : Cardinality(On(m)) <= 1

=============================================================================
