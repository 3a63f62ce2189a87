-------------------------- MODULE MCSPMCLevelQueue --------------------------
(* Small instances of SPMCLevelQueue.                                      *)
EXTENDS SPMCLevelQueue, TLC

Symmetry == Permutations(Senders) \cup Permutations(Receivers)
=============================================================================
