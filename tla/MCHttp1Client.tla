---------------------------- MODULE MCHttp1Client ---------------------------
(* Small instances of Http1Client: two requests with timers or with a      *)
(* server that drops connections, three with the other troubles.           *)
EXTENDS Http1Client, TLC

CONSTANTS r1, r2, r3

Some(k, ts) == {[reqs |-> q, troubles |-> ts] : q \in {p \in SUBSET Reqs : Cardinality(p) = k}}

PoolScenes == Some(2, {"timeout"}) \cup Some(2, {"drop", "shut"}) \cup Some(3, {"last"})
                \cup Some(2, {"upgrade", "shut"}) \cup Some(3, {})

LeakScenes == Some(2, {"upgrade"})

Symmetry == Permutations(Reqs)
=============================================================================
