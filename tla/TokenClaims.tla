---------------------------- MODULE TokenClaims ----------------------------
(***************************************************************************)
(* The token payloads that token revocation (auth/token_revocation.py)     *)
(* deals with, by the three claims it reads, and its clock.                *)
(***************************************************************************)
EXTENDS Naturals

CONSTANTS
    Tokens,      \* token payloads
    Users,
    Identified,  \* the tokens with a "jti" claim
    Sub,         \* the "sub" claim of each token, or NoUser
    IssuedAt,    \* when each token was issued, or NoIat when its "iat" is no number
    Second,      \* the ticks of the clock in a second
    TTL,         \* how long a revocation lasts: 86400 s, in ticks
    MaxTime,     \* bound on the clock
    NoUser, NoIat

ASSUME TokensAssumption == Identified \subseteq Tokens
ASSUME SubAssumption == Sub \in [Tokens -> Users \cup {NoUser}] /\ NoUser \notin Users
ASSUME IatAssumption == IssuedAt \in [Tokens -> Nat \cup {NoIat}] /\ NoIat \notin Nat
ASSUME SecondAssumption == Second \in Nat \ {0}
ASSUME TimeAssumption == TTL \in Nat \ {0} /\ MaxTime \in Nat

UserTokens(u) == {t \in Tokens : Sub[t] = u}

\* The "iat" claim: "iat has whole seconds", while time.time(), of which the
\* cutoffs are made, has not.
Iat == [t \in Tokens |->
          IF IssuedAt[t] = NoIat THEN NoIat ELSE IssuedAt[t] - (IssuedAt[t] % Second)]

\* When all tokens of a user were revoked and until when that counts.
NoCutoff == [before |-> 0, until |-> 0]
=============================================================================
