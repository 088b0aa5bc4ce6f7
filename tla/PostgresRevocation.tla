------------------------- MODULE PostgresRevocation -------------------------
(***************************************************************************)
(* TokenRevocationService over PostgreSQLRevocationStore                   *)
(* (auth/token_revocation.py): calls of several processes on one table.    *)
(*                                                                         *)
(* A revocation takes its times from time.time() and writes them with a    *)
(* later statement; a check reads the row of the token's id and then, with *)
(* a second statement, the row of the user's cutoff.  Steps of other calls *)
(* and the cleanup loops of all processes come between.  Processes and     *)
(* database share one clock, and the table exists.                         *)
(***************************************************************************)
EXTENDS TokenClaims

CONSTANTS
    Revokers,  \* calls of revoke_token and revoke_all_user_tokens
    Checkers   \* calls of validate_token

ASSUME CallsAssumption ==
    /\ Tokens \cap Users = {}
    /\ NoUser \notin Tokens

VARIABLES
    now,
    byId,      \* the rows of single tokens: expires_at, 0 when there is none
    cutoff,    \* the rows "__all__<user>": revoked_at and expires_at
    rpc,       \* where each revocation is
    target,    \* the token or user it revokes
    stamp,     \* the time.time() it read
    cpc,       \* where each check is
    token,     \* the token it is about
    verdict,   \* what it answered
    seen,      \* history: the revocations that had returned when it started
    readAt,    \* history: when its last statement ran
    ignored,   \* history: revocations whose INSERT met a row and did nothing
    overtaken  \* history: revocations whose cutoff an older one has overwritten

table == <<byId, cutoff>>
revokeVars == <<rpc, target, stamp, ignored, overtaken>>
checkVars == <<cpc, token, verdict, seen, readAt>>
vars == <<now, table, revokeVars, checkVars>>

TypeOK ==
    /\ now \in Nat
    /\ byId \in [Tokens -> Nat]
    /\ cutoff \in [Users -> [before : Nat, until : Nat]]
    /\ rpc \in [Revokers -> {"idle", "writing", "returned", "raised"}]
    /\ target \in [Revokers -> Tokens \cup Users \cup {NoUser}]
    /\ stamp \in [Revokers -> Nat]
    /\ cpc \in [Checkers -> {"idle", "token", "cutoff", "done"}]
    /\ token \in [Checkers -> Tokens \cup {NoUser}]
    /\ verdict \in [Checkers -> {"none", "revoked", "accepted", "error"}]
    /\ seen \in [Checkers -> SUBSET Revokers]
    /\ readAt \in [Checkers -> Nat]
    /\ ignored \subseteq Revokers
    /\ overtaken \subseteq Revokers

Init ==
    /\ now = 0
    /\ byId = [t \in Tokens |-> 0]
    /\ cutoff = [u \in Users |-> NoCutoff]
    /\ rpc = [r \in Revokers |-> "idle"]
    /\ target = [r \in Revokers |-> NoUser]
    /\ stamp = [r \in Revokers |-> 0]
    /\ cpc = [k \in Checkers |-> "idle"]
    /\ token = [k \in Checkers |-> NoUser]
    /\ verdict = [k \in Checkers |-> "none"]
    /\ seen = [k \in Checkers |-> {}]
    /\ readAt = [k \in Checkers |-> 0]
    /\ ignored = {}
    /\ overtaken = {}

-----------------------------------------------------------------------------
(* revoke_token() and revoke_all_user_tokens()                             *)

\* `time.time()` is read before a connection is awaited.  A payload without
\* jti or sub raises ValueError before that.
StartRevoke(r, x) ==
    /\ rpc[r] = "idle"
    /\ x \in Tokens => x \in Identified /\ Sub[x] \in Users
    /\ rpc' = [rpc EXCEPT ![r] = "writing"]
    /\ target' = [target EXCEPT ![r] = x]
    /\ stamp' = [stamp EXCEPT ![r] = now]
    /\ UNCHANGED <<now, table, ignored, overtaken, checkVars>>

\* INSERT ... ON CONFLICT (token_id) DO NOTHING: an existing row stays as it
\* is, an expired one that no cleanup has deleted included.
WriteToken(r) ==
    LET t == target[r] IN
    /\ rpc[r] = "writing" /\ t \in Tokens
    /\ IF byId[t] = 0
       THEN byId' = [byId EXCEPT ![t] = stamp[r] + TTL] /\ UNCHANGED ignored
       ELSE ignored' = ignored \cup {r} /\ UNCHANGED byId
    /\ rpc' = [rpc EXCEPT ![r] = "returned"]
    /\ UNCHANGED <<now, cutoff, target, stamp, overtaken, checkVars>>

\* Mutant: DO NOTHING, as for a single token.
WriteCutoffOnce(r) ==
    LET u == target[r] IN
    /\ rpc[r] = "writing" /\ u \in Users
    /\ cutoff' = IF cutoff[u] = NoCutoff
                 THEN [cutoff EXCEPT ![u] = [before |-> stamp[r], until |-> stamp[r] + TTL]]
                 ELSE cutoff
    /\ rpc' = [rpc EXCEPT ![r] = "returned"]
    /\ UNCHANGED <<now, byId, target, stamp, ignored, overtaken, checkVars>>

\* INSERT ... ON CONFLICT (token_id) DO UPDATE: the last write wins, also when
\* its times are older than the ones it replaces.
WriteCutoff(r) ==
    LET u == target[r] IN
    /\ rpc[r] = "writing" /\ u \in Users
    /\ cutoff' = [cutoff EXCEPT ![u] = [before |-> stamp[r], until |-> stamp[r] + TTL]]
    /\ rpc' = [rpc EXCEPT ![r] = "returned"]
    /\ overtaken' = overtaken \cup {q \in Revokers : /\ rpc[q] = "returned"
                                                     /\ target[q] = u
                                                     /\ stamp[q] > stamp[r]}
    /\ UNCHANGED <<now, byId, target, stamp, ignored, checkVars>>

\* No connection, or the statement fails: the caller gets the exception.
WriteFails(r) ==
    /\ rpc[r] = "writing"
    /\ rpc' = [rpc EXCEPT ![r] = "raised"]
    /\ UNCHANGED <<now, table, target, stamp, ignored, overtaken, checkVars>>

-----------------------------------------------------------------------------
(* validate_token() after the provider's own validation: is_token_revoked()*)

StartCheck(k, t) ==
    /\ cpc[k] = "idle"
    /\ cpc' = [cpc EXCEPT ![k] = IF t \in Identified THEN "token" ELSE "cutoff"]
    /\ token' = [token EXCEPT ![k] = t]
    /\ seen' = [seen EXCEPT ![k] = {r \in Revokers : rpc[r] = "returned"}]
    /\ UNCHANGED <<now, table, revokeVars, verdict, readAt>>

Answer(k, v) ==
    /\ cpc' = [cpc EXCEPT ![k] = "done"]
    /\ verdict' = [verdict EXCEPT ![k] = v]

\* Mutant: the SELECT does not look at expires_at.
ReadTokenAnyRow(k) ==
    /\ cpc[k] = "token"
    /\ IF byId[token[k]] # 0
       THEN Answer(k, "revoked")
       ELSE cpc' = [cpc EXCEPT ![k] = "cutoff"] /\ UNCHANGED verdict
    /\ readAt' = [readAt EXCEPT ![k] = now]
    /\ UNCHANGED <<now, table, revokeVars, token, seen>>

\* SELECT of the token's row.
ReadToken(k) ==
    /\ cpc[k] = "token"
    /\ IF byId[token[k]] > now
       THEN Answer(k, "revoked")
       ELSE cpc' = [cpc EXCEPT ![k] = "cutoff"] /\ UNCHANGED verdict
    /\ readAt' = [readAt EXCEPT ![k] = now]
    /\ UNCHANGED <<now, table, revokeVars, token, seen>>

\* Whether the cutoff row of u, if it counts, covers t.
Covers(u, t) ==
    /\ cutoff[u].until > now
    /\ Iat[t] = NoIat \/ Iat[t] < cutoff[u].before

\* SELECT of the user's row; a payload without sub is accepted here.
ReadCutoff(k) ==
    LET t == token[k] IN
    /\ cpc[k] = "cutoff"
    /\ Answer(k, IF Sub[t] \in Users /\ Covers(Sub[t], t) THEN "revoked" ELSE "accepted")
    /\ readAt' = [readAt EXCEPT ![k] = now]
    /\ UNCHANGED <<now, table, revokeVars, token, seen>>

\* A statement fails and validate_token raises.
ReadFails(k) ==
    /\ cpc[k] \in {"token", "cutoff"}
    /\ Answer(k, "error")
    /\ UNCHANGED <<now, table, revokeVars, token, seen, readAt>>

-----------------------------------------------------------------------------
\* Mutant: the cleanup deletes a tick too early.
CleanupEarly ==
    /\ byId' = [t \in Tokens |-> IF byId[t] <= now + 1 THEN 0 ELSE byId[t]]
    /\ cutoff' = [u \in Users |-> IF cutoff[u].until <= now + 1 THEN NoCutoff ELSE cutoff[u]]
    /\ UNCHANGED <<now, revokeVars, checkVars>>

\* DELETE ... WHERE expires_at <= NOW(), by the cleanup loop of any process.
CleanupExpired ==
    /\ byId' = [t \in Tokens |-> IF byId[t] <= now THEN 0 ELSE byId[t]]
    /\ cutoff' = [u \in Users |-> IF cutoff[u].until <= now THEN NoCutoff ELSE cutoff[u]]
    /\ UNCHANGED <<now, revokeVars, checkVars>>

Tick ==
    /\ now < MaxTime
    /\ now' = now + 1
    /\ UNCHANGED <<table, revokeVars, checkVars>>

Next ==
    \/ Tick \/ CleanupExpired
    \/ \E r \in Revokers :
           \/ \E x \in Tokens \cup Users : StartRevoke(r, x)
           \/ WriteToken(r) \/ WriteCutoff(r) \/ WriteFails(r)
    \/ \E k \in Checkers :
           \/ \E t \in Tokens : StartCheck(k, t)
           \/ ReadToken(k) \/ ReadCutoff(k) \/ ReadFails(k)

Spec == Init /\ [][Next]_vars

-----------------------------------------------------------------------------
(* Properties                                                              *)

Accepted(k) == cpc[k] = "done" /\ verdict[k] = "accepted"

\* A token whose revocation had returned before the check began is not
\* accepted within TTL of it, unless the INSERT found a row and did nothing.
RevokedIsRefused ==
    \A k \in Checkers, r \in Revokers :
        Accepted(k) /\ r \in seen[k] /\ target[r] = token[k] /\ r \notin ignored
            => readAt[k] >= stamp[r] + TTL

\* Nor is a token issued before all tokens of its user were revoked, however
\* little before and whatever the floor of its `iat` makes of it, unless an
\* older revocation has overwritten the cutoff since.
OlderIsRefused ==
    \A k \in Checkers, r \in Revokers :
        /\ Accepted(k) /\ r \in seen[k] /\ r \notin overtaken
        /\ target[r] = Sub[token[k]] /\ target[r] \in Users
        /\ IssuedAt[token[k]] = NoIat \/ IssuedAt[token[k]] < stamp[r]
        => readAt[k] >= stamp[r] + TTL

\* A token is refused only for a revocation that was asked for, TTL ago at most:
\* of the token, or of all tokens of its user when the token was issued before
\* it or less than a second after it.  A token issued right after a "revoke
\* all" can be refused, since its `iat` is floored to a second and the cutoff
\* is not, but one issued a second later cannot.
RefusedForAReason ==
    \A k \in Checkers : verdict[k] = "revoked" =>
        \E r \in Revokers :
            /\ rpc[r] # "idle"
            /\ readAt[k] < stamp[r] + TTL
            /\ \/ target[r] = token[k]
               \/ /\ target[r] = Sub[token[k]]
                  /\ IssuedAt[token[k]] = NoIat \/ IssuedAt[token[k]] < stamp[r] + Second
=============================================================================
