-------------------------- MODULE DurableLifecycle --------------------------
(***************************************************************************)
(* What StrategyManager promises a caller that awaits each call: a         *)
(* lifecycle whose transitions are published to a durable copy in one      *)
(* step, and a restart that takes up the durable copy or, when the copy    *)
(* cannot be read, starts idle.                                            *)
(***************************************************************************)
CONSTANTS Strategies, Sides, None

VARIABLES cur, disk

(* The legal transitions of the lifecycle (LIFECYCLE-001). *)
At(l, n, side) == [state |-> l, strategyName |-> n, side |-> side]

Idle == At("IDLE", None, None)

Step(from, to) ==
  LET n == from.strategyName IN
  \/ /\ from.state = "IDLE"
     /\ \E m \in Strategies : to = At("ANALYZING", m, None)
  \/ from.state # "IDLE" /\ to = Idle
  \/ from.state = "ANALYZING" /\ to = At("SIGNAL_DETECTED", n, from.side)
  \/ from.state = "SIGNAL_DETECTED" /\ to = At("ENTERING_POSITION", n, from.side)
  \/ /\ from.state = "ENTERING_POSITION"
     /\ \E side \in Sides : to = At("POSITION_OPEN", n, side)
  \/ from.state = "POSITION_OPEN" /\ to = At("CLOSING", n, from.side)
  \/ from.state = "CLOSING" /\ to = At("ANALYZING", n, None)

(* What the durable copy may hold when the first process starts. *)
Recoverable ==
  {Idle} \cup
  [state: {"ANALYZING", "SIGNAL_DETECTED", "ENTERING_POSITION"},
   strategyName: Strategies, side: {None}] \cup
  [state: {"POSITION_OPEN", "CLOSING"}, strategyName: Strategies, side: Sides]

Init == disk \in Recoverable /\ cur = disk

Transition == Step(cur, cur') /\ UNCHANGED disk
Publish == disk' = cur /\ UNCHANGED cur
Recover == cur' \in {disk, Idle} /\ UNCHANGED disk

Next == Transition \/ Publish \/ Recover

Spec == Init /\ [][Next]_<<cur, disk>>
=============================================================================
