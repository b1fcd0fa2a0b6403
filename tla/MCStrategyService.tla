--------------------------- MODULE MCStrategyService --------------------------
(* Small instances of StrategyService; handlers are interchangeable.       *)
EXTENDS StrategyService, TLC

Symmetry == Permutations(Handlers)

=============================================================================
