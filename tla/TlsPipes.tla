----------------------------- MODULE TlsPipes ------------------------------
(* What a TLS stream promises its user: two independent channels that        *)
(* deliver the records of either side in order, each at most once. Both ends *)
(* may stop at any time, so what is under way at the end may be lost.        *)
EXTENDS SequencesExt

CONSTANT Record

VARIABLES written, arrived,   \* what was written here, what the peer has had of it
          sent, read          \* what the peer sent, what was read here of it

pipes == <<written, arrived, sent, read>>

PipesInit == written = <<>> /\ arrived = <<>> /\ sent = <<>> /\ read = <<>>

\* Some records enter a channel, or some of those in it come out.
Enter(in, out) == /\ IsPrefix(in, in') /\ in # in'
                  /\ \A i \in DOMAIN in' : in'[i] \in Record
                  /\ UNCHANGED out
Leave(in, out) == /\ IsPrefix(out, out') /\ IsPrefix(out', in) /\ out # out'
                  /\ UNCHANGED in

PipesNext == \/ (Enter(written, arrived) \/ Leave(written, arrived)) /\ UNCHANGED <<sent, read>>
             \/ (Enter(sent, read) \/ Leave(sent, read)) /\ UNCHANGED <<written, arrived>>

PipesSpec == PipesInit /\ [][PipesNext]_pipes
=============================================================================
