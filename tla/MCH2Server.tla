----------------------------- MODULE MCH2Server -----------------------------
(* Small instances of H2Server.                                            *)
EXTENDS H2Server
=============================================================================
