---------------------------- MODULE MCAggregator ----------------------------
(* A small instance of Aggregator; the two fetches do not differ.            *)
EXTENDS Aggregator, TLC

CONSTANTS a, b, x, y, k1, k2, k3

MCInitial == {<<[name |-> a, url |-> x]>>, <<[name |-> a, url |-> x], [name |-> b, url |-> y]>>}
MCWants == [k \in Caller |-> a]
MCEdits == {<<[name |-> b, url |-> x]>>, None}
MCSymmetry == Permutations({k1, k2})
=============================================================================
