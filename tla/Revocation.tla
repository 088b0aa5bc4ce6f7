----------------------------- MODULE Revocation -----------------------------
(***************************************************************************)
(* What a token revocation store promises to TokenRevocationService        *)
(* (auth/token_revocation.py, the RevocationStore protocol): a revoked     *)
(* token, or a token of a user whose tokens were all revoked after the     *)
(* second it was issued in had begun, is answered "revoked" for TTL, and   *)
(* every other one "accepted".                                             *)
(*                                                                         *)
(* Every operation is one step, and a revocation is forgotten exactly when *)
(* its time has run out.  Time is a count of ticks; a deadline of 0 is "no *)
(* revocation".                                                            *)
(***************************************************************************)
EXTENDS TokenClaims

VARIABLES
    now,
    byId,     \* the deadline of each token's own revocation
    cutoff,   \* for each user, when all tokens were revoked and until when it counts
    answer    \* the last answer of is_token_revoked

vars == <<now, byId, cutoff, answer>>

Init ==
    /\ now = 0
    /\ byId = [t \in Tokens |-> 0]
    /\ cutoff = [u \in Users |-> NoCutoff]
    /\ answer = [t \in Tokens |-> "none"]

\* The tokens an active revocation of all of u's tokens covers.
Covered(c, t) == c.until # 0 /\ (Iat[t] = NoIat \/ Iat[t] < c.before)

Revoked(t) ==
    \/ t \in Identified /\ byId[t] # 0
    \/ Sub[t] \in Users /\ Covered(cutoff[Sub[t]], t)

Revoke(t) ==
    /\ t \in Identified /\ Sub[t] \in Users
    /\ byId' = [byId EXCEPT ![t] = now + TTL]
    /\ UNCHANGED <<now, cutoff, answer>>

\* A store may prolong single revocations of the user's tokens.
RevokeAll(u) ==
    /\ cutoff' = [cutoff EXCEPT ![u] = [before |-> now, until |-> now + TTL]]
    /\ \E S \in SUBSET UserTokens(u) :
           byId' = [t \in Tokens |-> IF t \in S THEN now + TTL ELSE byId[t]]
    /\ UNCHANGED <<now, answer>>

Check(t) ==
    /\ answer' = [answer EXCEPT ![t] = IF Revoked(t) THEN "revoked" ELSE "accepted"]
    /\ UNCHANGED <<now, byId, cutoff>>

\* Time passes; revocations whose deadline has passed are over.
Tick ==
    /\ now < MaxTime
    /\ now' = now + 1
    /\ byId' = [t \in Tokens |-> IF now' > byId[t] THEN 0 ELSE byId[t]]
    /\ cutoff' = [u \in Users |-> IF now' > cutoff[u].until THEN NoCutoff ELSE cutoff[u]]
    /\ UNCHANGED answer

Next ==
    \/ Tick
    \/ \E t \in Tokens : Revoke(t) \/ Check(t)
    \/ \E u \in Users : RevokeAll(u)

Spec == Init /\ [][Next]_vars
=============================================================================
