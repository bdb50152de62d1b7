-------------------------- MODULE MCConnectionPool --------------------------
(* Instances of the connection pool for TLC.                               *)
EXTENDS ConnectionPoolLease, TLC

Symmetry == Permutations(Tasks) \cup Permutations(Permits) \cup Permutations(Conns)
=============================================================================
