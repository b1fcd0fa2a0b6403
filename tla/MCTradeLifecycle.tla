--------------------------- MODULE MCTradeLifecycle ---------------------------
(* Model checking of TradeLifecycle: executors, activations and checks are *)
(* interchangeable.                                                        *)
EXTENDS TradeLifecycle, TLC

Symmetry == Permutations(Executors) \cup Permutations(Tasks) \cup Permutations(Checks)

=============================================================================
