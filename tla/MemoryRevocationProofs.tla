----------------------- MODULE MemoryRevocationProofs -----------------------
(***************************************************************************)
(* Proofs about MemoryRevocation: its invariants, and that it implements   *)
(* Revocation.                                                             *)
(***************************************************************************)
EXTENDS MemoryRevocation, TLAPS

USE TokensAssumption, SubAssumption, IatAssumption, TimeAssumption

\* No cutoff reaches further than TTL from now, so a later single revocation
\* outlives it.
CutoffBound == \A u \in Users : userCutoffs[u].until <= now + TTL

IInv == TypeOK /\ TrackedByUser /\ CutoffBound /\ StayAsLongAsCutoff

LEMMA InitInv == Init => IInv
<1>. SUFFICES ASSUME Init PROVE IInv
  OBVIOUS
<1>1. TypeOK
  BY DEF Init, TypeOK, NoCutoff
<1>2. TrackedByUser
  BY DEF Init, TrackedByUser
<1>3. CutoffBound
  BY DEF Init, CutoffBound, NoCutoff
<1>4. StayAsLongAsCutoff
  BY DEF Init, StayAsLongAsCutoff
<1>. QED  BY <1>1, <1>2, <1>3, <1>4 DEF IInv

LEMMA RevokeTokenInv ==
  ASSUME IInv, NEW t \in Tokens, RevokeToken(t) PROVE IInv'
<1>1. TypeOK'
  BY DEF IInv, TypeOK, RevokeToken, loops
<1>2. TrackedByUser'
  BY DEF IInv, TypeOK, TrackedByUser, RevokeToken, UserTokens
<1>3. CutoffBound'
  BY DEF IInv, CutoffBound, RevokeToken
<1>4. StayAsLongAsCutoff'
  BY DEF IInv, TypeOK, TrackedByUser, CutoffBound, StayAsLongAsCutoff, RevokeToken,
         Expired, HasCutoff
<1>. QED  BY <1>1, <1>2, <1>3, <1>4 DEF IInv

LEMMA RevokeAllInv ==
  ASSUME IInv, NEW u \in Users, RevokeAllUserTokens(u) PROVE IInv'
<1>1. TypeOK'
  BY DEF IInv, TypeOK, RevokeAllUserTokens, loops
<1>2. TrackedByUser'
  BY DEF IInv, TypeOK, TrackedByUser, RevokeAllUserTokens, UserTokens
<1>3. CutoffBound'
  BY DEF IInv, TypeOK, CutoffBound, RevokeAllUserTokens
<1>4. StayAsLongAsCutoff'
  <2>. SUFFICES ASSUME NEW t \in Tokens, revokedTokens'[t] # 0, ~ Expired(revokedTokens[t])',
                       HasCutoff(Sub[t])'
                PROVE  revokedTokens'[t] >= userCutoffs'[Sub[t]].until
    BY DEF StayAsLongAsCutoff
  <2>1. Sub[t] \in Users
    BY <1>2 DEF TrackedByUser
  <2>2. CASE t \in userTokens[u]
    BY <2>1, <2>2 DEF IInv, TypeOK, TrackedByUser, UserTokens, RevokeAllUserTokens
  <2>3. CASE t \notin userTokens[u]
    BY <2>1, <2>3 DEF IInv, TypeOK, TrackedByUser, UserTokens, RevokeAllUserTokens,
                      StayAsLongAsCutoff, Expired, HasCutoff
  <2>. QED  BY <2>2, <2>3
<1>. QED  BY <1>1, <1>2, <1>3, <1>4 DEF IInv

LEMMA IsTokenRevokedInv ==
  ASSUME IInv, NEW t \in Tokens, IsTokenRevoked(t) PROVE IInv'
<1>. USE DEF NoCutoff
<1>1. TypeOK'
  BY DEF IInv, TypeOK, IsTokenRevoked, loops
<1>2. TrackedByUser'
  BY DEF IInv, TypeOK, TrackedByUser, IsTokenRevoked, UserTokens
<1>3. CutoffBound'
  BY DEF IInv, TypeOK, CutoffBound, IsTokenRevoked
<1>4. StayAsLongAsCutoff'
  BY DEF IInv, TypeOK, TrackedByUser, StayAsLongAsCutoff, IsTokenRevoked, Expired, HasCutoff
<1>. QED  BY <1>1, <1>2, <1>3, <1>4 DEF IInv

LEMMA CleanupInv ==
  ASSUME IInv, CleanupExpired PROVE IInv'
<1>. USE DEF NoCutoff
<1>1. TypeOK'
  BY DEF IInv, TypeOK, CleanupExpired, loops
<1>2. TrackedByUser'
  BY DEF IInv, TypeOK, TrackedByUser, CleanupExpired, UserTokens
<1>3. CutoffBound'
  BY DEF IInv, TypeOK, CutoffBound, CleanupExpired
<1>4. StayAsLongAsCutoff'
  BY DEF IInv, TypeOK, TrackedByUser, StayAsLongAsCutoff, CleanupExpired, Expired, HasCutoff
<1>. QED  BY <1>1, <1>2, <1>3, <1>4 DEF IInv

LEMMA TickInv ==
  ASSUME IInv, Tick PROVE IInv'
<1>1. TypeOK'
  BY DEF IInv, TypeOK, Tick, store, loops
<1>2. TrackedByUser' /\ CutoffBound'
  BY DEF IInv, TypeOK, TrackedByUser, CutoffBound, Tick, store, UserTokens
<1>3. StayAsLongAsCutoff'
  BY DEF IInv, TypeOK, TrackedByUser, StayAsLongAsCutoff, Tick, store, Expired, HasCutoff
<1>. QED  BY <1>1, <1>2, <1>3 DEF IInv

\* The store's dictionaries and the clock do not change.
LEMMA FrameInv ==
  ASSUME IInv, UNCHANGED <<now, store, answer>>,
         cleanupTask' \in BOOLEAN, orphaned' \in BOOLEAN
  PROVE  IInv'
<1>1. TypeOK'
  BY DEF IInv, TypeOK, store
<1>2. TrackedByUser' /\ CutoffBound' /\ StayAsLongAsCutoff'
  BY DEF IInv, TrackedByUser, CutoffBound, StayAsLongAsCutoff, store, UserTokens, Expired,
         HasCutoff
<1>. QED  BY <1>1, <1>2 DEF IInv

LEMMA NextInv == IInv /\ [Next]_vars => IInv'
<1>. SUFFICES ASSUME IInv, [Next]_vars PROVE IInv'
  OBVIOUS
<1>1. CASE Tick
  BY <1>1, TickInv
<1>2. CASE CleanupExpired
  BY <1>2, CleanupInv
<1>3. CASE Start
  <2>. orphaned \in BOOLEAN /\ cleanupTask \in BOOLEAN
    BY DEF IInv, TypeOK
  <2>. cleanupTask' \in BOOLEAN /\ orphaned' \in BOOLEAN
    BY <1>3, Zenon DEF Start
  <2>. QED  BY <1>3, FrameInv DEF Start
<1>4. CASE Stop
  BY <1>4, FrameInv DEF Stop, IInv, TypeOK
<1>5. ASSUME NEW t \in Tokens, RevokeToken(t) PROVE IInv'
  BY <1>5, RevokeTokenInv
<1>6. ASSUME NEW t \in Tokens, IsTokenRevoked(t) PROVE IInv'
  BY <1>6, IsTokenRevokedInv
<1>7. ASSUME NEW u \in Users, RevokeAllUserTokens(u) PROVE IInv'
  BY <1>7, RevokeAllInv
<1>8. CASE UNCHANGED vars
  BY <1>8, FrameInv DEF vars, loops, IInv, TypeOK
<1>. QED  BY <1>1, <1>2, <1>3, <1>4, <1>5, <1>6, <1>7, <1>8 DEF Next

LEMMA Invariance == Spec => []IInv
  BY InitInv, NextInv, PTL DEF Spec

\* Type correctness of the in-memory store.
THEOREM TypeCorrect == Spec => []TypeOK
  BY Invariance, PTL DEF IInv

\* Every token with an entry is in the set of its user.
THEOREM EntriesAreTracked == Spec => []TrackedByUser
  BY Invariance, PTL DEF IInv

\* A single revocation lasts as long as the cutoff of its user.
THEOREM RevocationsOutliveCutoff == Spec => []StayAsLongAsCutoff
  BY Invariance, PTL DEF IInv

-----------------------------------------------------------------------------
(* The implementation of Revocation                                        *)

LEMMA InitPromise == Init => Abstract!Init
  BY DEF Init, Abstract!Init, activeIds, activeCutoffs, Expired, NoCutoff, Abstract!NoCutoff

LEMMA RevokeTokenStep ==
  ASSUME IInv, NEW t \in Tokens, RevokeToken(t) PROVE Abstract!Revoke(t)
<1>1. ASSUME NEW x \in Tokens
      PROVE  activeIds'[x] = [activeIds EXCEPT ![t] = now + TTL][x]
  BY DEF IInv, TypeOK, RevokeToken, activeIds, Expired
<1>2. activeIds' = [activeIds EXCEPT ![t] = now + TTL]
  BY <1>1 DEF activeIds
<1>3. activeCutoffs' = activeCutoffs
  BY DEF RevokeToken, activeCutoffs, Expired
<1>. QED  BY <1>2, <1>3 DEF RevokeToken, Abstract!Revoke

LEMMA RevokeAllStep ==
  ASSUME IInv, NEW u \in Users, RevokeAllUserTokens(u) PROVE Abstract!RevokeAll(u)
<1>. DEFINE c == [before |-> now, until |-> now + TTL]
<1>1. activeCutoffs' = [activeCutoffs EXCEPT ![u] = c]
  <2>1. ASSUME NEW w \in Users PROVE activeCutoffs'[w] = [activeCutoffs EXCEPT ![u] = c][w]
    <3>1. CASE w = u
      BY <3>1 DEF IInv, TypeOK, RevokeAllUserTokens, activeCutoffs, Expired
    <3>2. CASE w # u
      BY <3>2 DEF IInv, TypeOK, RevokeAllUserTokens, activeCutoffs, Expired
    <3>. QED  BY <3>1, <3>2
  <2>. QED  BY <2>1 DEF activeCutoffs
<1>2. activeIds' = [t \in Tokens |-> IF t \in userTokens[u] THEN now + TTL ELSE activeIds[t]]
  BY DEF IInv, TypeOK, RevokeAllUserTokens, activeIds, Expired
<1>3. userTokens[u] \in SUBSET Abstract!UserTokens(u)
  BY DEF IInv, TrackedByUser, UserTokens, Abstract!UserTokens
<1>. QED  BY <1>1, <1>2, <1>3 DEF Abstract!RevokeAll, RevokeAllUserTokens

\* Dropping expired entries does not show.
LEMMA DropExpired ==
  ASSUME IInv, now' = now,
         NEW S \in SUBSET Tokens, NEW U \in SUBSET Users,
         revokedTokens' = [t \in Tokens |-> IF t \in S /\ Expired(revokedTokens[t]) THEN 0
                                            ELSE revokedTokens[t]],
         userCutoffs' = [u \in Users |-> IF u \in U /\ Expired(userCutoffs[u].until) THEN NoCutoff
                                         ELSE userCutoffs[u]]
  PROVE  UNCHANGED <<activeIds, activeCutoffs>>
<1>1. activeIds' = activeIds
  BY DEF IInv, TypeOK, activeIds, Expired
<1>2. ASSUME NEW u \in Users PROVE activeCutoffs'[u] = activeCutoffs[u]
  BY DEF IInv, TypeOK, activeCutoffs, Expired, NoCutoff
<1>3. activeCutoffs' = activeCutoffs
  BY <1>2 DEF activeCutoffs
<1>. QED  BY <1>1, <1>3

LEMMA CheckStep ==
  ASSUME IInv, NEW t \in Tokens, IsTokenRevoked(t) PROVE Abstract!Check(t)
<1>1. UNCHANGED <<activeIds, activeCutoffs>>
  <2>. DEFINE S == {t} \cap Identified
              U == IF ~ RevokedById(t) THEN {Sub[t]} \cap Users ELSE {}
  <2>1. revokedTokens' = [x \in Tokens |-> IF x \in S /\ Expired(revokedTokens[x]) THEN 0
                                           ELSE revokedTokens[x]]
    BY DEF IInv, TypeOK, IsTokenRevoked
  <2>2. userCutoffs' = [u \in Users |-> IF u \in U /\ Expired(userCutoffs[u].until) THEN NoCutoff
                                        ELSE userCutoffs[u]]
    BY DEF IInv, TypeOK, IsTokenRevoked
  <2>3. S \in SUBSET Tokens /\ U \in SUBSET Users /\ now' = now
    BY DEF IsTokenRevoked
  <2>. HIDE DEF S, U
  <2>. QED  BY <2>1, <2>2, <2>3, DropExpired
<1>2. (t \in Identified /\ activeIds[t] # 0) <=> RevokedById(t)
  BY DEF IInv, TypeOK, activeIds, RevokedById, Expired
<1>3. ASSUME Sub[t] \in Users
      PROVE  Abstract!Covered(activeCutoffs[Sub[t]], t)
                 <=> HasCutoff(Sub[t]) /\ IssuedBefore(t, Sub[t])
  <2>1. Abstract!Iat = Iat
    BY DEF Abstract!Iat, Iat
  <2>. QED  BY <1>3, <2>1 DEF IInv, TypeOK, Abstract!Covered, activeCutoffs, HasCutoff,
                              IssuedBefore, Expired, NoCutoff
<1>4. Abstract!Revoked(t) <=>
          \/ RevokedById(t)
          \/ ~ RevokedById(t) /\ Sub[t] \in Users /\ HasCutoff(Sub[t]) /\ IssuedBefore(t, Sub[t])
  BY <1>2, <1>3 DEF Abstract!Revoked
<1>5. answer' = [answer EXCEPT ![t] = IF Abstract!Revoked(t) THEN "revoked" ELSE "accepted"]
  BY <1>4 DEF IsTokenRevoked
<1>. QED  BY <1>1, <1>5 DEF Abstract!Check, IsTokenRevoked

LEMMA CleanupStep ==
  ASSUME IInv, CleanupExpired PROVE UNCHANGED <<activeIds, activeCutoffs>>
<1>1. revokedTokens' = [t \in Tokens |-> IF t \in Tokens /\ Expired(revokedTokens[t]) THEN 0
                                         ELSE revokedTokens[t]]
  BY DEF IInv, TypeOK, CleanupExpired
<1>2. userCutoffs' = [u \in Users |-> IF u \in Users /\ Expired(userCutoffs[u].until) THEN NoCutoff
                                      ELSE userCutoffs[u]]
  BY DEF CleanupExpired
<1>. QED  BY <1>1, <1>2, DropExpired DEF CleanupExpired

LEMMA TickStep ==
  ASSUME IInv, Tick PROVE Abstract!Tick
<1>1. activeIds' = [t \in Tokens |-> IF now' > activeIds[t] THEN 0 ELSE activeIds[t]]
  BY DEF IInv, TypeOK, Tick, store, activeIds, Expired
<1>2. ASSUME NEW u \in Users
      PROVE  activeCutoffs'[u] = IF now' > activeCutoffs[u].until THEN NoCutoff
                                 ELSE activeCutoffs[u]
  BY DEF IInv, TypeOK, Tick, store, activeCutoffs, Expired, NoCutoff
<1>3. activeCutoffs' = [u \in Users |-> IF now' > activeCutoffs[u].until THEN NoCutoff
                                        ELSE activeCutoffs[u]]
  BY <1>2 DEF activeCutoffs
<1>. QED  BY <1>1, <1>3 DEF Abstract!Tick, Tick, Abstract!NoCutoff, NoCutoff

LEMMA NextPromise == IInv /\ [Next]_vars => [Abstract!Next]_(Abstract!vars)
<1>. SUFFICES ASSUME IInv, [Next]_vars PROVE Abstract!Next \/ UNCHANGED Abstract!vars
  OBVIOUS
<1>. USE DEF Abstract!Next
<1>1. CASE Tick
  BY <1>1, TickStep
<1>2. CASE CleanupExpired
  BY <1>2, CleanupStep DEF CleanupExpired, Abstract!vars
<1>3. CASE Start \/ Stop \/ UNCHANGED vars
  BY <1>3 DEF Start, Stop, vars, store, Abstract!vars, activeIds, activeCutoffs, Expired
<1>4. ASSUME NEW t \in Tokens, RevokeToken(t) PROVE Abstract!Next
  BY <1>4, RevokeTokenStep
<1>5. ASSUME NEW t \in Tokens, IsTokenRevoked(t) PROVE Abstract!Next
  BY <1>5, CheckStep
<1>6. ASSUME NEW u \in Users, RevokeAllUserTokens(u) PROVE Abstract!Next
  BY <1>6, RevokeAllStep
<1>. QED  BY <1>1, <1>2, <1>3, <1>4, <1>5, <1>6 DEF Next

\* The in-memory store implements the abstract promise, lazy removal and the
\* cleanup loop included, for any tokens, users and TTL.
THEOREM KeepsPromise == Spec => Promise
  BY Invariance, InitPromise, NextPromise, PTL DEF Spec, Promise, Abstract!Spec
=============================================================================
