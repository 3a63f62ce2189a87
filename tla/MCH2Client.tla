----------------------------- MODULE MCH2Client -----------------------------
(* Small instances of H2Client.                                            *)
EXTENDS H2Client, TLC

Symmetry == Permutations(Reqs)
=============================================================================
