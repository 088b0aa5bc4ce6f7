------------------------ MODULE MCPostgresRevocation ------------------------
EXTENDS PostgresRevocation, TLC
CONSTANTS t1, t2, u1
\* Two tokens of one user: one issued at 0 with an id, one without an id issued
\* at 3, whose "iat" says 2.
MCSub == t1 :> u1 @@ t2 :> u1
MCIssuedAt == t1 :> 0 @@ t2 :> 3
Symmetry == Permutations(Revokers) \cup Permutations(Checkers)
=============================================================================
