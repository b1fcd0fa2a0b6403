------------------------- MODULE MCStrategyManager --------------------------
(* Small instances of StrategyManager.  Saves, inodes and strategy names    *)
(* are interchangeable model values.                                        *)
EXTENDS StrategyManager, TLC

Symmetry == Permutations(Saves) \cup Permutations(Inodes)

=============================================================================
