--------------------------- MODULE MCPooledClient ---------------------------
(* Instances of PooledClient for TLC. *)
EXTENDS PooledClient, TLC

CONSTANTS c1, c2, n1, n2

OneClient == {c1}
TwoClients == {c1, c2}
TwoConns == {n1, n2}

Symmetry == Permutations(Clients) \cup Permutations(Conns)

=============================================================================
