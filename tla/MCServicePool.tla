---------------------------- MODULE MCServicePool ----------------------------
(* Small instances of ServicePool.                                         *)
EXTENDS ServicePool, TLC

Symmetry == Permutations(Conns) \cup Permutations(Workers \ Preheat)
=============================================================================
