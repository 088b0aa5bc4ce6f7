---------------------- MODULE PostgresRevocationProofs ----------------------
(***************************************************************************)
(* Proofs about PostgresRevocation: what a check that starts after a       *)
(* revocation returned may answer.                                         *)
(***************************************************************************)
EXTENDS PostgresRevocation, TLAPS

USE TokensAssumption, SubAssumption, IatAssumption, TimeAssumption, CallsAssumption

\* The floor: the "iat" of a token is less than a second before its issue.
LEMMA IatFloor ==
  ASSUME NEW t \in Tokens
  PROVE  \/ IssuedAt[t] = NoIat /\ Iat[t] = NoIat
         \/ /\ IssuedAt[t] \in Nat /\ Iat[t] \in Nat /\ Iat[t] # NoIat
            /\ Iat[t] <= IssuedAt[t] /\ IssuedAt[t] < Iat[t] + Second
<1>1. \A a \in Nat, b \in Nat \ {0} : a % b \in Nat
  OBVIOUS
<1>2. \A a \in Nat, b \in Nat \ {0} : a % b < b
  OBVIOUS
<1>3. \A a \in Nat, b \in Nat \ {0} : a % b <= a
  OBVIOUS
<1>4. CASE IssuedAt[t] = NoIat
  BY <1>4 DEF Iat
<1>5. CASE IssuedAt[t] # NoIat
  <2>1. IssuedAt[t] \in Nat /\ Iat[t] = IssuedAt[t] - (IssuedAt[t] % Second)
    BY <1>5 DEF Iat
  <2>2. /\ IssuedAt[t] % Second \in Nat /\ IssuedAt[t] % Second < Second
        /\ IssuedAt[t] % Second <= IssuedAt[t]
    BY <2>1, <1>1, <1>2, <1>3, SecondAssumption
  <2>3. /\ Iat[t] \in Nat
        /\ Iat[t] <= IssuedAt[t] /\ IssuedAt[t] < Iat[t] + Second
    BY <2>1, <2>2, SecondAssumption
  <2>. QED  BY <2>1, <2>3
<1>. QED  BY <1>4, <1>5

\* What a revocation in flight or over is about, and when it was asked for.
CallsSound ==
    \A r \in Revokers :
        /\ stamp[r] <= now
        /\ target[r] \in Tokens => target[r] \in Identified
        /\ rpc[r] = "idle" => target[r] = NoUser

\* The row of a token stays until its time has run out.
TokenRows ==
    \A r \in Revokers :
        rpc[r] = "returned" /\ target[r] \in Tokens /\ r \notin ignored =>
            byId[target[r]] = stamp[r] + TTL \/ now >= stamp[r] + TTL

\* The cutoff of a user is that of the newest revocation that nobody overtook,
\* or its time has run out.
CutoffRows ==
    \A r \in Revokers :
        rpc[r] = "returned" /\ target[r] \in Users /\ r \notin overtaken =>
            \/ /\ cutoff[target[r]].before >= stamp[r]
               /\ cutoff[target[r]].until >= stamp[r] + TTL
            \/ now >= stamp[r] + TTL

\* Every row was written by a revocation.
RowsExplained ==
    /\ \A t \in Tokens : byId[t] # 0 =>
           \E r \in Revokers : /\ rpc[r] # "idle" /\ target[r] = t
                               /\ byId[t] = stamp[r] + TTL
    /\ \A u \in Users : cutoff[u] # NoCutoff =>
           \E r \in Revokers : /\ rpc[r] # "idle" /\ target[r] = u
                               /\ cutoff[u] = [before |-> stamp[r], until |-> stamp[r] + TTL]

\* What a check in flight knows.
ChecksSound ==
    \A k \in Checkers :
        /\ readAt[k] <= now
        /\ \A r \in seen[k] : rpc[r] = "returned"
        /\ cpc[k] # "idle" => token[k] \in Tokens
        /\ cpc[k] = "token" => token[k] \in Identified
        /\ cpc[k] # "done" => verdict[k] = "none"

\* The first statement of a check found no row: the revocations it knows of
\* are over.
TokenRead ==
    \A k \in Checkers, r \in Revokers :
        cpc[k] = "cutoff" /\ r \in seen[k] /\ target[r] = token[k] /\ r \notin ignored
            => readAt[k] >= stamp[r] + TTL

IInv ==
    /\ TypeOK /\ CallsSound /\ TokenRows /\ CutoffRows /\ RowsExplained
    /\ ChecksSound /\ TokenRead /\ RevokedIsRefused /\ OlderIsRefused /\ RefusedForAReason

LEMMA InitInv == Init => IInv
<1>. SUFFICES ASSUME Init PROVE IInv
  OBVIOUS
<1>1. TypeOK
  BY DEF Init, TypeOK, NoCutoff
<1>2. CallsSound /\ ChecksSound
  BY DEF Init, CallsSound, ChecksSound
<1>3. TokenRows /\ CutoffRows /\ RowsExplained
  BY DEF Init, TokenRows, CutoffRows, RowsExplained
<1>4. TokenRead /\ RevokedIsRefused /\ OlderIsRefused /\ RefusedForAReason
  BY DEF Init, TokenRead, RevokedIsRefused, OlderIsRefused, RefusedForAReason, Accepted
<1>. QED  BY <1>1, <1>2, <1>3, <1>4 DEF IInv

-----------------------------------------------------------------------------
(* Steps of revocations, of the cleanup and of the clock                   *)

\* A step that runs no check keeps what is known of the checks.
LEMMA RevokeFrame ==
  ASSUME IInv, UNCHANGED checkVars, now' \in Nat, now' >= now,
         \A r \in Revokers : rpc[r] # "idle" =>
             rpc'[r] # "idle" /\ target'[r] = target[r] /\ stamp'[r] = stamp[r],
         \A r \in Revokers : rpc[r] = "returned" => rpc'[r] = "returned",
         ignored \subseteq ignored', overtaken \subseteq overtaken'
  PROVE  /\ ChecksSound' /\ TokenRead'
         /\ RevokedIsRefused' /\ OlderIsRefused' /\ RefusedForAReason'
<1>0. /\ cpc' = cpc /\ token' = token /\ verdict' = verdict
      /\ seen' = seen /\ readAt' = readAt
  BY DEF checkVars
<1>t. TypeOK /\ ChecksSound
  BY DEF IInv
<1>1. ASSUME NEW k \in Checkers, NEW r \in seen[k]
      PROVE  /\ r \in Revokers /\ rpc[r] = "returned"
             /\ target'[r] = target[r] /\ stamp'[r] = stamp[r]
  BY <1>t DEF TypeOK, ChecksSound
<1>2. ChecksSound'
  BY <1>0, <1>1, <1>t DEF TypeOK, ChecksSound
<1>3. TokenRead'
  BY <1>0, <1>1 DEF IInv, TokenRead
<1>4. RevokedIsRefused'
  BY <1>0, <1>1 DEF IInv, RevokedIsRefused, Accepted
<1>5. OlderIsRefused'
  BY <1>0, <1>1 DEF IInv, OlderIsRefused, Accepted
<1>6. RefusedForAReason'
  <2>. SUFFICES ASSUME NEW k \in Checkers, verdict[k] = "revoked"
                PROVE  \E r \in Revokers :
                           /\ rpc'[r] # "idle"
                           /\ readAt[k] < stamp'[r] + TTL
                           /\ \/ target'[r] = token[k]
                              \/ /\ target'[r] = Sub[token[k]]
                                 /\ IssuedAt[token[k]] = NoIat \/ IssuedAt[token[k]] < stamp'[r] + Second
    BY <1>0 DEF RefusedForAReason
  <2>1. PICK r \in Revokers :
            /\ rpc[r] # "idle"
            /\ readAt[k] < stamp[r] + TTL
            /\ \/ target[r] = token[k]
               \/ /\ target[r] = Sub[token[k]]
                  /\ IssuedAt[token[k]] = NoIat \/ IssuedAt[token[k]] < stamp[r] + Second
    BY DEF IInv, RefusedForAReason
  <2>2. rpc'[r] # "idle" /\ target'[r] = target[r] /\ stamp'[r] = stamp[r]
    BY <2>1
  <2>. QED  BY <2>1, <2>2
<1>. QED  BY <1>2, <1>3, <1>4, <1>5, <1>6

\* A row that stays is still explained by the call that wrote it.
LEMMA RowsFrame ==
  ASSUME IInv,
         \A t \in Tokens : byId'[t] = byId[t] \/ byId'[t] = 0,
         \A u \in Users : cutoff'[u] = cutoff[u] \/ cutoff'[u] = NoCutoff,
         \A r \in Revokers : rpc[r] # "idle" =>
             rpc'[r] # "idle" /\ target'[r] = target[r] /\ stamp'[r] = stamp[r]
  PROVE  RowsExplained'
<1>1. ASSUME NEW t \in Tokens, byId'[t] # 0
      PROVE  \E r \in Revokers : /\ rpc'[r] # "idle" /\ target'[r] = t
                                 /\ byId'[t] = stamp'[r] + TTL
  <2>1. PICK r \in Revokers : rpc[r] # "idle" /\ target[r] = t /\ byId[t] = stamp[r] + TTL
    BY <1>1 DEF IInv, RowsExplained
  <2>. QED  BY <1>1, <2>1
<1>2. ASSUME NEW u \in Users, cutoff'[u] # NoCutoff
      PROVE  \E r \in Revokers :
                 /\ rpc'[r] # "idle" /\ target'[r] = u
                 /\ cutoff'[u] = [before |-> stamp'[r], until |-> stamp'[r] + TTL]
  <2>1. PICK r \in Revokers : /\ rpc[r] # "idle" /\ target[r] = u
                              /\ cutoff[u] = [before |-> stamp[r], until |-> stamp[r] + TTL]
    BY <1>2 DEF IInv, RowsExplained
  <2>. QED  BY <1>2, <2>1
<1>. QED  BY <1>1, <1>2 DEF RowsExplained

LEMMA StartRevokeInv ==
  ASSUME IInv, NEW r \in Revokers, NEW x \in Tokens \cup Users, StartRevoke(r, x)
  PROVE  IInv'
<1>. USE DEF StartRevoke, table
<1>t. TypeOK /\ CallsSound
  BY DEF IInv
<1>1. TypeOK'
  BY <1>t DEF TypeOK, checkVars
<1>2. CallsSound'
  BY <1>t DEF TypeOK, CallsSound
<1>3. TokenRows' /\ CutoffRows'
  BY <1>t DEF IInv, TypeOK, TokenRows, CutoffRows
<1>4. RowsExplained'
  BY <1>t, RowsFrame DEF TypeOK
<1>5. /\ ChecksSound' /\ TokenRead'
      /\ RevokedIsRefused' /\ OlderIsRefused' /\ RefusedForAReason'
  BY <1>t, RevokeFrame DEF TypeOK
<1>. QED  BY <1>1, <1>2, <1>3, <1>4, <1>5 DEF IInv
LEMMA WriteTokenInv ==
  ASSUME IInv, NEW r \in Revokers, WriteToken(r)
  PROVE  IInv'
<1>. USE DEF WriteToken
<1>t. TypeOK /\ CallsSound
  BY DEF IInv
<1>1. TypeOK'
  BY <1>t DEF TypeOK, checkVars
<1>2. CallsSound'
  BY <1>t DEF TypeOK, CallsSound
<1>3. TokenRows'
  <2>. SUFFICES ASSUME NEW q \in Revokers, rpc'[q] = "returned", target'[q] \in Tokens,
                       q \notin ignored'
                PROVE  byId'[target'[q]] = stamp'[q] + TTL \/ now' >= stamp'[q] + TTL
    BY DEF TokenRows
  <2>1. CASE q = r
    BY <2>1, <1>t DEF TypeOK
  <2>2. CASE q # r
    <3>1. byId[target[q]] = stamp[q] + TTL \/ now >= stamp[q] + TTL
      BY <2>2, <1>t DEF IInv, TypeOK, TokenRows
    <3>2. byId[target[q]] = stamp[q] + TTL => byId[target[q]] # 0
      BY <1>t DEF TypeOK
    <3>. QED  BY <2>2, <3>1, <3>2, <1>t DEF TypeOK
  <2>. QED  BY <2>1, <2>2
<1>4. CutoffRows'
  BY <1>t DEF IInv, TypeOK, CutoffRows
<1>5. RowsExplained'
  <2>1. ASSUME NEW t \in Tokens, byId'[t] # 0
        PROVE  \E q \in Revokers : /\ rpc'[q] # "idle" /\ target'[q] = t
                                   /\ byId'[t] = stamp'[q] + TTL
    <3>1. CASE byId'[t] = byId[t]
      <4>1. PICK q \in Revokers : rpc[q] # "idle" /\ target[q] = t /\ byId[t] = stamp[q] + TTL
        BY <2>1, <3>1 DEF IInv, RowsExplained
      <4>. QED  BY <3>1, <4>1, <1>t DEF TypeOK
    <3>2. CASE byId'[t] # byId[t]
      <4>1. t = target[r] /\ byId'[t] = stamp[r] + TTL
        BY <3>2, <1>t DEF TypeOK
      <4>. QED  BY <4>1, <1>t DEF TypeOK
    <3>. QED  BY <3>1, <3>2
  <2>2. ASSUME NEW u \in Users, cutoff'[u] # NoCutoff
        PROVE  \E q \in Revokers :
                   /\ rpc'[q] # "idle" /\ target'[q] = u
                   /\ cutoff'[u] = [before |-> stamp'[q], until |-> stamp'[q] + TTL]
    <3>1. PICK q \in Revokers : /\ rpc[q] # "idle" /\ target[q] = u
                                /\ cutoff[u] = [before |-> stamp[q], until |-> stamp[q] + TTL]
      BY <2>2 DEF IInv, RowsExplained
    <3>. QED  BY <3>1, <1>t DEF TypeOK
  <2>. QED  BY <2>1, <2>2 DEF RowsExplained
<1>6. /\ ChecksSound' /\ TokenRead'
      /\ RevokedIsRefused' /\ OlderIsRefused' /\ RefusedForAReason'
  BY <1>t, RevokeFrame DEF TypeOK
<1>. QED  BY <1>1, <1>2, <1>3, <1>4, <1>5, <1>6 DEF IInv

LEMMA WriteCutoffInv ==
  ASSUME IInv, NEW r \in Revokers, WriteCutoff(r)
  PROVE  IInv'
<1>. USE DEF WriteCutoff
<1>t. TypeOK /\ CallsSound
  BY DEF IInv
<1>1. TypeOK'
  BY <1>t DEF TypeOK, checkVars
<1>2. CallsSound'
  BY <1>t DEF TypeOK, CallsSound
<1>3. TokenRows'
  BY <1>t DEF IInv, TypeOK, TokenRows
<1>4. CutoffRows'
  <2>. SUFFICES ASSUME NEW q \in Revokers, rpc'[q] = "returned", target'[q] \in Users,
                       q \notin overtaken'
                PROVE  \/ /\ cutoff'[target'[q]].before >= stamp'[q]
                          /\ cutoff'[target'[q]].until >= stamp'[q] + TTL
                       \/ now' >= stamp'[q] + TTL
    BY DEF CutoffRows
  <2>1. CASE target[q] = target[r]
    <3>1. ~ (stamp[q] > stamp[r])
      BY <2>1, <1>t DEF TypeOK
    <3>2. cutoff'[target[q]] = [before |-> stamp[r], until |-> stamp[r] + TTL]
      BY <2>1, <1>t DEF TypeOK
    <3>. QED  BY <3>1, <3>2, <1>t DEF TypeOK
  <2>2. CASE target[q] # target[r]
    BY <2>2, <1>t DEF IInv, TypeOK, CutoffRows
  <2>. QED  BY <2>1, <2>2
<1>5. RowsExplained'
  <2>1. ASSUME NEW t \in Tokens, byId'[t] # 0
        PROVE  \E q \in Revokers : /\ rpc'[q] # "idle" /\ target'[q] = t
                                   /\ byId'[t] = stamp'[q] + TTL
    <3>1. PICK q \in Revokers : rpc[q] # "idle" /\ target[q] = t /\ byId[t] = stamp[q] + TTL
      BY <2>1 DEF IInv, RowsExplained
    <3>. QED  BY <3>1, <1>t DEF TypeOK
  <2>2. ASSUME NEW u \in Users, cutoff'[u] # NoCutoff
        PROVE  \E q \in Revokers :
                   /\ rpc'[q] # "idle" /\ target'[q] = u
                   /\ cutoff'[u] = [before |-> stamp'[q], until |-> stamp'[q] + TTL]
    <3>1. CASE u = target[r]
      BY <3>1, <1>t DEF TypeOK
    <3>2. CASE u # target[r]
      <4>1. cutoff'[u] = cutoff[u]
        BY <3>2, <1>t DEF TypeOK
      <4>2. PICK q \in Revokers : /\ rpc[q] # "idle" /\ target[q] = u
                                  /\ cutoff[u] = [before |-> stamp[q], until |-> stamp[q] + TTL]
        BY <2>2, <4>1 DEF IInv, RowsExplained
      <4>. QED  BY <4>1, <4>2, <1>t DEF TypeOK
    <3>. QED  BY <3>1, <3>2
  <2>. QED  BY <2>1, <2>2 DEF RowsExplained
<1>6. /\ ChecksSound' /\ TokenRead'
      /\ RevokedIsRefused' /\ OlderIsRefused' /\ RefusedForAReason'
  BY <1>t, RevokeFrame DEF TypeOK
<1>. QED  BY <1>1, <1>2, <1>3, <1>4, <1>5, <1>6 DEF IInv

LEMMA WriteFailsInv ==
  ASSUME IInv, NEW r \in Revokers, WriteFails(r)
  PROVE  IInv'
<1>. USE DEF WriteFails, table
<1>t. TypeOK /\ CallsSound
  BY DEF IInv
<1>1. TypeOK'
  BY <1>t DEF TypeOK, checkVars
<1>2. CallsSound'
  BY <1>t DEF TypeOK, CallsSound
<1>3. TokenRows' /\ CutoffRows'
  BY <1>t DEF IInv, TypeOK, TokenRows, CutoffRows
<1>4. RowsExplained'
  BY <1>t, RowsFrame DEF TypeOK
<1>5. /\ ChecksSound' /\ TokenRead'
      /\ RevokedIsRefused' /\ OlderIsRefused' /\ RefusedForAReason'
  BY <1>t, RevokeFrame DEF TypeOK
<1>. QED  BY <1>1, <1>2, <1>3, <1>4, <1>5 DEF IInv

LEMMA CleanupInv ==
  ASSUME IInv, CleanupExpired
  PROVE  IInv'
<1>. USE DEF CleanupExpired, revokeVars
<1>t. TypeOK /\ CallsSound
  BY DEF IInv
<1>1. TypeOK'
  BY <1>t DEF TypeOK, checkVars, NoCutoff
<1>2. CallsSound'
  BY <1>t DEF CallsSound
<1>3. TokenRows'
  BY <1>t DEF IInv, TypeOK, TokenRows
<1>4. CutoffRows'
  BY <1>t DEF IInv, TypeOK, CutoffRows
<1>5. RowsExplained'
  BY RowsFrame
<1>6. /\ ChecksSound' /\ TokenRead'
      /\ RevokedIsRefused' /\ OlderIsRefused' /\ RefusedForAReason'
  BY <1>t, RevokeFrame DEF TypeOK
<1>. QED  BY <1>1, <1>2, <1>3, <1>4, <1>5, <1>6 DEF IInv

LEMMA TickInv ==
  ASSUME IInv, Tick
  PROVE  IInv'
<1>. USE DEF Tick, table, revokeVars
<1>t. TypeOK /\ CallsSound
  BY DEF IInv
<1>1. TypeOK'
  BY <1>t DEF TypeOK, checkVars
<1>2. CallsSound'
  BY <1>t DEF TypeOK, CallsSound
<1>3. TokenRows' /\ CutoffRows'
  BY <1>t DEF IInv, TypeOK, TokenRows, CutoffRows
<1>4. RowsExplained'
  BY RowsFrame
<1>5. /\ ChecksSound' /\ TokenRead'
      /\ RevokedIsRefused' /\ OlderIsRefused' /\ RefusedForAReason'
  BY <1>t, RevokeFrame DEF TypeOK
<1>. QED  BY <1>1, <1>2, <1>3, <1>4, <1>5 DEF IInv
-----------------------------------------------------------------------------
(* Steps of checks                                                         *)

LEMMA CheckFrame ==
  ASSUME IInv, UNCHANGED <<now, table, revokeVars>>
  PROVE  CallsSound' /\ TokenRows' /\ CutoffRows' /\ RowsExplained'
  BY DEF IInv, CallsSound, TokenRows, CutoffRows, RowsExplained, table, revokeVars

LEMMA StartCheckInv ==
  ASSUME IInv, NEW k \in Checkers, NEW t \in Tokens, StartCheck(k, t)
  PROVE  IInv'
<1>. USE DEF StartCheck, table, revokeVars
<1>t. TypeOK /\ ChecksSound
  BY DEF IInv
<1>1. TypeOK'
  BY <1>t DEF TypeOK
<1>2. ChecksSound'
  BY <1>t DEF TypeOK, ChecksSound
<1>3. TokenRead'
  <2>. SUFFICES ASSUME NEW j \in Checkers, NEW r \in Revokers,
                       cpc'[j] = "cutoff", r \in seen'[j], target'[r] = token'[j],
                       r \notin ignored'
                PROVE  readAt'[j] >= stamp'[r] + TTL
    BY DEF TokenRead
  <2>1. CASE j = k
    <3>1. t \notin Identified
      BY <2>1, <1>t DEF TypeOK
    <3>. QED  BY <2>1, <3>1, <1>t DEF IInv, TypeOK, CallsSound
  <2>2. CASE j # k
    BY <2>2, <1>t DEF IInv, TypeOK, TokenRead
  <2>. QED  BY <2>1, <2>2
<1>4. RevokedIsRefused' /\ OlderIsRefused'
  BY <1>t DEF IInv, TypeOK, ChecksSound, RevokedIsRefused, OlderIsRefused, Accepted
<1>5. RefusedForAReason'
  BY <1>t DEF IInv, TypeOK, ChecksSound, RefusedForAReason
<1>. QED  BY <1>1, <1>2, <1>3, <1>4, <1>5, CheckFrame DEF IInv

\* A row that counts gives the reason of a refusal.
LEMMA TokenReason ==
  ASSUME IInv, NEW t \in Tokens, byId[t] > now
  PROVE  \E r \in Revokers : /\ rpc[r] # "idle" /\ target[r] = t
                             /\ now < stamp[r] + TTL
  BY DEF IInv, TypeOK, RowsExplained

LEMMA CutoffReason ==
  ASSUME IInv, NEW t \in Tokens, Sub[t] \in Users, Covers(Sub[t], t)
  PROVE  \E r \in Revokers : /\ rpc[r] # "idle" /\ target[r] = Sub[t]
                             /\ now < stamp[r] + TTL
                             /\ IssuedAt[t] = NoIat \/ IssuedAt[t] < stamp[r] + Second
<1>1. cutoff[Sub[t]] # NoCutoff
  BY DEF IInv, TypeOK, Covers, NoCutoff
<1>2. PICK r \in Revokers :
          /\ rpc[r] # "idle" /\ target[r] = Sub[t]
          /\ cutoff[Sub[t]] = [before |-> stamp[r], until |-> stamp[r] + TTL]
  BY <1>1 DEF IInv, RowsExplained
<1>3. stamp[r] \in Nat /\ (Iat[t] = NoIat \/ Iat[t] < stamp[r]) /\ now < stamp[r] + TTL
  BY <1>2 DEF IInv, TypeOK, Covers
<1>4. IssuedAt[t] = NoIat \/ IssuedAt[t] < stamp[r] + Second
  BY <1>3, IatFloor, SecondAssumption
<1>. QED  BY <1>2, <1>3, <1>4

LEMMA ReadTokenInv ==
  ASSUME IInv, NEW k \in Checkers, ReadToken(k)
  PROVE  IInv'
<1>. USE DEF ReadToken, Answer, table, revokeVars
<1>t. TypeOK /\ ChecksSound /\ token[k] \in Identified /\ token[k] \in Tokens
  BY DEF IInv, ChecksSound
<1>1. TypeOK'
  BY <1>t DEF TypeOK
<1>2. ChecksSound'
  BY <1>t DEF TypeOK, ChecksSound
<1>3. TokenRead'
  <2>. SUFFICES ASSUME NEW j \in Checkers, NEW r \in Revokers,
                       cpc'[j] = "cutoff", r \in seen'[j], target'[r] = token'[j],
                       r \notin ignored'
                PROVE  readAt'[j] >= stamp'[r] + TTL
    BY DEF TokenRead
  <2>1. CASE j = k
    <3>1. ~ (byId[token[k]] > now) /\ readAt'[k] = now
      BY <2>1, <1>t DEF TypeOK
    <3>2. rpc[r] = "returned" /\ target[r] = token[k] /\ r \notin ignored
      BY <2>1, <1>t DEF ChecksSound
    <3>3. byId[token[k]] = stamp[r] + TTL \/ now >= stamp[r] + TTL
      BY <3>2, <1>t DEF IInv, TokenRows
    <3>. QED  BY <2>1, <3>1, <3>3, <1>t DEF TypeOK
  <2>2. CASE j # k
    BY <2>2, <1>t DEF IInv, TypeOK, TokenRead
  <2>. QED  BY <2>1, <2>2
<1>4. RevokedIsRefused' /\ OlderIsRefused'
  BY <1>t DEF IInv, TypeOK, ChecksSound, RevokedIsRefused, OlderIsRefused, Accepted
<1>5. RefusedForAReason'
  <2>. SUFFICES ASSUME NEW j \in Checkers, verdict'[j] = "revoked"
                PROVE  \E r \in Revokers :
                           /\ rpc[r] # "idle"
                           /\ readAt'[j] < stamp[r] + TTL
                           /\ \/ target[r] = token[j]
                              \/ /\ target[r] = Sub[token[j]]
                                 /\ IssuedAt[token[j]] = NoIat \/ IssuedAt[token[j]] < stamp[r] + Second
    BY DEF RefusedForAReason
  <2>1. CASE j = k
    <3>1. byId[token[k]] > now /\ readAt'[k] = now
      BY <2>1, <1>t DEF TypeOK, ChecksSound
    <3>. QED  BY <2>1, <3>1, <1>t, TokenReason
  <2>2. CASE j # k
    <3>1. verdict'[j] = verdict[j] /\ readAt'[j] = readAt[j]
      BY <2>2, <1>t DEF TypeOK
    <3>. QED  BY <3>1 DEF IInv, RefusedForAReason
  <2>. QED  BY <2>1, <2>2
<1>. QED  BY <1>1, <1>2, <1>3, <1>4, <1>5, CheckFrame DEF IInv

LEMMA ReadCutoffInv ==
  ASSUME IInv, NEW k \in Checkers, ReadCutoff(k)
  PROVE  IInv'
<1>. USE DEF ReadCutoff, Answer, table, revokeVars
<1>t. TypeOK /\ ChecksSound /\ token[k] \in Tokens
  BY DEF IInv, ChecksSound
<1>0. /\ readAt'[k] = now /\ readAt[k] <= now
      /\ \A j \in Checkers : j # k => /\ cpc'[j] = cpc[j] /\ readAt'[j] = readAt[j]
                                       /\ verdict'[j] = verdict[j]
  BY <1>t DEF TypeOK, ChecksSound
<1>1. TypeOK'
  BY <1>t DEF TypeOK
<1>2. ChecksSound'
  BY <1>t DEF TypeOK, ChecksSound
<1>3. TokenRead'
  BY <1>t DEF IInv, TypeOK, TokenRead
<1>4. RevokedIsRefused'
  <2>. SUFFICES ASSUME NEW j \in Checkers, NEW r \in Revokers, Accepted(j)', r \in seen[j],
                       target[r] = token[j], r \notin ignored
                PROVE  readAt'[j] >= stamp[r] + TTL
    BY DEF RevokedIsRefused
  <2>1. CASE j = k
    <3>1. readAt[k] >= stamp[r] + TTL
      BY <2>1 DEF IInv, TokenRead
    <3>. QED  BY <2>1, <3>1, <1>0, <1>t DEF TypeOK
  <2>2. CASE j # k
    BY <2>2, <1>0 DEF IInv, RevokedIsRefused, Accepted
  <2>. QED  BY <2>1, <2>2
<1>5. OlderIsRefused'
  <2>. SUFFICES ASSUME NEW j \in Checkers, NEW r \in Revokers, Accepted(j)', r \in seen[j],
                       r \notin overtaken, target[r] = Sub[token[j]], target[r] \in Users,
                       IssuedAt[token[j]] = NoIat \/ IssuedAt[token[j]] < stamp[r]
                PROVE  readAt'[j] >= stamp[r] + TTL
    BY DEF OlderIsRefused
  <2>1. CASE j = k
    <3>1. ~ Covers(Sub[token[k]], token[k])
      BY <2>1, <1>t DEF TypeOK, Accepted
    <3>2. rpc[r] = "returned"
      BY <2>1, <1>t DEF ChecksSound
    <3>3. \/ /\ cutoff[target[r]].before >= stamp[r]
             /\ cutoff[target[r]].until >= stamp[r] + TTL
          \/ now >= stamp[r] + TTL
      BY <3>2 DEF IInv, CutoffRows
    <3>4. /\ cutoff[target[r]].before \in Nat /\ cutoff[target[r]].until \in Nat
          /\ stamp[r] \in Nat /\ now \in Nat
      BY <1>t DEF TypeOK
    <3>5. Iat[token[k]] = NoIat \/ (Iat[token[k]] \in Nat /\ Iat[token[k]] < stamp[r])
      BY <2>1, <3>4, <1>t, IatFloor
    <3>. QED  BY <2>1, <3>1, <3>3, <3>4, <3>5, <1>0 DEF Covers
  <2>2. CASE j # k
    BY <2>2, <1>0 DEF IInv, OlderIsRefused, Accepted
  <2>. QED  BY <2>1, <2>2
<1>6. RefusedForAReason'
  <2>. SUFFICES ASSUME NEW j \in Checkers, verdict'[j] = "revoked"
                PROVE  \E r \in Revokers :
                           /\ rpc[r] # "idle"
                           /\ readAt'[j] < stamp[r] + TTL
                           /\ \/ target[r] = token[j]
                              \/ /\ target[r] = Sub[token[j]]
                                 /\ IssuedAt[token[j]] = NoIat \/ IssuedAt[token[j]] < stamp[r] + Second
    BY DEF RefusedForAReason
  <2>1. CASE j = k
    <3>1. Sub[token[k]] \in Users /\ Covers(Sub[token[k]], token[k])
      BY <2>1, <1>t DEF TypeOK
    <3>2. PICK r \in Revokers : /\ rpc[r] # "idle" /\ target[r] = Sub[token[k]]
                                /\ now < stamp[r] + TTL
                                /\ IssuedAt[token[k]] = NoIat \/ IssuedAt[token[k]] < stamp[r] + Second
      BY <3>1, <1>t, CutoffReason
    <3>. QED  BY <2>1, <3>2, <1>0
  <2>2. CASE j # k
    BY <2>2, <1>0 DEF IInv, RefusedForAReason
  <2>. QED  BY <2>1, <2>2
<1>. QED  BY <1>1, <1>2, <1>3, <1>4, <1>5, <1>6, CheckFrame DEF IInv

LEMMA ReadFailsInv ==
  ASSUME IInv, NEW k \in Checkers, ReadFails(k)
  PROVE  IInv'
<1>. USE DEF ReadFails, Answer, table, revokeVars
<1>t. TypeOK /\ ChecksSound
  BY DEF IInv
<1>1. TypeOK'
  BY <1>t DEF TypeOK
<1>2. ChecksSound'
  BY <1>t DEF TypeOK, ChecksSound
<1>3. TokenRead'
  BY <1>t DEF IInv, TypeOK, TokenRead
<1>4. RevokedIsRefused' /\ OlderIsRefused'
  BY <1>t DEF IInv, TypeOK, RevokedIsRefused, OlderIsRefused, Accepted
<1>5. RefusedForAReason'
  BY <1>t DEF IInv, TypeOK, RefusedForAReason
<1>. QED  BY <1>1, <1>2, <1>3, <1>4, <1>5, CheckFrame DEF IInv

LEMMA NextInv == IInv /\ [Next]_vars => IInv'
<1>. SUFFICES ASSUME IInv, [Next]_vars PROVE IInv'
  OBVIOUS
<1>1. CASE Tick \/ CleanupExpired
  BY <1>1, TickInv, CleanupInv
<1>2. ASSUME NEW r \in Revokers,
             \/ \E x \in Tokens \cup Users : StartRevoke(r, x)
             \/ WriteToken(r) \/ WriteCutoff(r) \/ WriteFails(r)
      PROVE  IInv'
  BY <1>2, StartRevokeInv, WriteTokenInv, WriteCutoffInv, WriteFailsInv
<1>3. ASSUME NEW k \in Checkers,
             \/ \E t \in Tokens : StartCheck(k, t)
             \/ ReadToken(k) \/ ReadCutoff(k) \/ ReadFails(k)
      PROVE  IInv'
  BY <1>3, StartCheckInv, ReadTokenInv, ReadCutoffInv, ReadFailsInv
<1>4. CASE UNCHANGED vars
  <2>1. TypeOK' /\ TokenRead' /\ ChecksSound'
    BY <1>4 DEF vars, table, revokeVars, checkVars, IInv, TypeOK, TokenRead, ChecksSound
  <2>2. RevokedIsRefused' /\ OlderIsRefused' /\ RefusedForAReason'
    BY <1>4 DEF vars, revokeVars, checkVars, IInv, RevokedIsRefused, OlderIsRefused,
                RefusedForAReason, Accepted
  <2>. QED  BY <1>4, <2>1, <2>2, CheckFrame DEF vars, IInv
<1>. QED  BY <1>1, <1>2, <1>3, <1>4 DEF Next

LEMMA Invariance == Spec => []IInv
  BY InitInv, NextInv, PTL DEF Spec

\* Type correctness of the table and of the calls.
THEOREM TypeCorrect == Spec => []TypeOK
  BY Invariance, PTL DEF IInv

\* A token is not accepted by a check that starts after its revocation
\* returned, within TTL, unless the INSERT met an older row.
THEOREM RevokedTokensAreRefused == Spec => []RevokedIsRefused
  BY Invariance, PTL DEF IInv

\* The same for a token issued before all tokens of its user were revoked,
\* unless an older revocation overwrote the cutoff.
THEOREM OlderTokensAreRefused == Spec => []OlderIsRefused
  BY Invariance, PTL DEF IInv

\* No token is refused without a revocation of it, or of all tokens of its user
\* less than a second before it was issued or later.
THEOREM RefusalsHaveReasons == Spec => []RefusedForAReason
  BY Invariance, PTL DEF IInv
=============================================================================
