--------------------------- MODULE MCAdvancedDebug ---------------------------
(* AdvancedDebug for TLC: symmetry of callers and of connections.           *)
EXTENDS AdvancedDebug, TLC

Symmetry == Permutations(Callers) \cup Permutations(Conns)
=============================================================================
