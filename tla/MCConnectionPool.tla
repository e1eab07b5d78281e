-------------------------- MODULE MCConnectionPool --------------------------
(* Instances of ConnectionPool for TLC. *)
EXTENDS ConnectionPool, TLC

CONSTANTS c1, c2, n1, n2, n3

TwoClients == {c1, c2}
OneClient == {c1}
ThreeConns == {n1, n2, n3}
TwoConns == {n1, n2}

Symmetry == Permutations(Clients) \cup Permutations(Conns)

=============================================================================
