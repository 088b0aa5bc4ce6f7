------------------------- MODULE MCMemoryRevocation -------------------------
EXTENDS MemoryRevocation, TLC
CONSTANTS t1, t2, t3, u1, u2
\* Two tokens of one user, one of them without "iat", and one without "jti".
\* The "iat" of a token issued at 3 says 2.
MCSub == t1 :> u1 @@ t2 :> u1 @@ t3 :> u2
MCIssuedAt == t1 :> 3 @@ t2 :> NoIat @@ t3 :> 2
=============================================================================
