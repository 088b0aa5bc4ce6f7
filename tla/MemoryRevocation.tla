-------------------------- MODULE MemoryRevocation --------------------------
(***************************************************************************)
(* TokenRevocationService over InMemoryRevocationStore                     *)
(* (auth/token_revocation.py).                                             *)
(*                                                                         *)
(* No operation of the store awaits while it holds the store's lock, so    *)
(* the lock is never contended, taking it does not suspend, and every      *)
(* service call runs in one step of the event loop.  Entries outlive their *)
(* deadline until a check or the cleanup loop removes them; the model      *)
(* shows that this laziness is invisible (Promise).  The service is        *)
(* enabled and checks revocation, as its default configuration says.       *)
(***************************************************************************)
EXTENDS TokenClaims

VARIABLES
    now,            \* time.time()
    revokedTokens,  \* _revoked_tokens: the expiry of a token, 0 when it has no entry
    userTokens,     \* _user_tokens
    userCutoffs,    \* _user_cutoffs: an expiry of 0 when the user has no entry
    cleanupTask,    \* whether _cleanup_task is a loop that runs
    orphaned,       \* whether a loop runs that _cleanup_task no longer names
    answer          \* what the last is_token_revoked said of each token

store == <<revokedTokens, userTokens, userCutoffs>>
loops == <<cleanupTask, orphaned>>
vars == <<now, store, loops, answer>>

TypeOK ==
    /\ now \in Nat
    /\ revokedTokens \in [Tokens -> Nat]
    /\ userTokens \in [Users -> SUBSET Tokens]
    /\ userCutoffs \in [Users -> [before : Nat, until : Nat]]
    /\ cleanupTask \in BOOLEAN
    /\ orphaned \in BOOLEAN
    /\ answer \in [Tokens -> {"none", "revoked", "accepted"}]

Init ==
    /\ now = 0
    /\ revokedTokens = [t \in Tokens |-> 0]
    /\ userTokens = [u \in Users |-> {}]
    /\ userCutoffs = [u \in Users |-> NoCutoff]
    /\ cleanupTask = FALSE
    /\ orphaned = FALSE
    /\ answer = [t \in Tokens |-> "none"]

\* An entry is expired once time.time() is greater than its expiry.
Expired(expiry) == now > expiry

\* logout: a payload without jti or sub raises ValueError and changes nothing.
RevokeToken(t) ==
    /\ t \in Identified /\ Sub[t] \in Users
    /\ revokedTokens' = [revokedTokens EXCEPT ![t] = now + TTL]
    /\ userTokens' = [userTokens EXCEPT ![Sub[t]] = @ \cup {t}]
    /\ UNCHANGED <<now, userCutoffs, loops, answer>>

\* Mutant: single revocations are not prolonged.
RevokeAllCutoffOnly(u) ==
    /\ userCutoffs' = [userCutoffs EXCEPT ![u] = [before |-> now, until |-> now + TTL]]
    /\ UNCHANGED <<now, revokedTokens, userTokens, loops, answer>>

\* logout_all_sessions: the cutoff, and the user's single revocations prolonged.
RevokeAllUserTokens(u) ==
    /\ userCutoffs' = [userCutoffs EXCEPT ![u] = [before |-> now, until |-> now + TTL]]
    /\ revokedTokens' = [t \in Tokens |-> IF t \in userTokens[u] THEN now + TTL
                                          ELSE revokedTokens[t]]
    /\ UNCHANGED <<now, userTokens, loops, answer>>

\* Whether the entry of t's id counts, and the cutoff of its user.
RevokedById(t) == t \in Identified /\ revokedTokens[t] # 0 /\ ~ Expired(revokedTokens[t])
HasCutoff(u) == userCutoffs[u].until # 0 /\ ~ Expired(userCutoffs[u].until)
\* Mutant: a token issued at the very time of the cutoff is revoked too.
IssuedUntil(t, u) == Iat[t] = NoIat \/ Iat[t] <= userCutoffs[u].before

IssuedBefore(t, u) == Iat[t] = NoIat \/ Iat[t] < userCutoffs[u].before

\* is_revoked and revoked_before remove the expired entry they find; the
\* second is called only when the first says no.
IsTokenRevoked(t) ==
    LET u == Sub[t]
        byUser == ~ RevokedById(t) /\ u \in Users
    IN /\ revokedTokens' = IF t \in Identified /\ Expired(revokedTokens[t])
                           THEN [revokedTokens EXCEPT ![t] = 0] ELSE revokedTokens
       /\ userCutoffs' = IF byUser /\ Expired(userCutoffs[u].until)
                         THEN [userCutoffs EXCEPT ![u] = NoCutoff] ELSE userCutoffs
       /\ answer' = [answer EXCEPT ![t] =
              IF RevokedById(t) \/ (byUser /\ HasCutoff(u) /\ IssuedBefore(t, u))
              THEN "revoked" ELSE "accepted"]
       /\ UNCHANGED <<now, userTokens, loops>>

\* One round of the cleanup loop.
CleanupExpired ==
    LET expired == {t \in Tokens : revokedTokens[t] # 0 /\ Expired(revokedTokens[t])} IN
    /\ cleanupTask \/ orphaned
    /\ revokedTokens' = [t \in Tokens |-> IF t \in expired THEN 0 ELSE revokedTokens[t]]
    /\ userTokens' = [u \in Users |-> userTokens[u] \ expired]
    /\ userCutoffs' = [u \in Users |-> IF Expired(userCutoffs[u].until) THEN NoCutoff
                                       ELSE userCutoffs[u]]
    /\ UNCHANGED <<now, loops, answer>>

\* start() does not look for a loop it started before.
Start ==
    /\ cleanupTask' = TRUE
    /\ orphaned' = (orphaned \/ cleanupTask)
    /\ UNCHANGED <<now, store, answer>>

\* stop() cancels the loop it knows and waits for it.
Stop ==
    /\ cleanupTask
    /\ cleanupTask' = FALSE
    /\ UNCHANGED <<now, store, orphaned, answer>>

Tick ==
    /\ now < MaxTime
    /\ now' = now + 1
    /\ UNCHANGED <<store, loops, answer>>

Next ==
    \/ Tick \/ CleanupExpired \/ Start \/ Stop
    \/ \E t \in Tokens : RevokeToken(t) \/ IsTokenRevoked(t)
    \/ \E u \in Users : RevokeAllUserTokens(u)

Spec == Init /\ [][Next]_vars

-----------------------------------------------------------------------------
(* Properties                                                              *)

\* A token with an entry is known as its user's, and only as its user's: that
\* is where revoke_all_user_tokens looks for the entries it prolongs, although
\* is_revoked drops entries without telling the user's set.
TrackedByUser ==
    /\ \A t \in Tokens : revokedTokens[t] # 0 => Sub[t] \in Users /\ t \in userTokens[Sub[t]]
    /\ \A u \in Users : userTokens[u] \subseteq UserTokens(u)

\* "Tokens revoked one by one stay revoked as long as the cutoff" of their user
\* (token_revocation.py:110), whatever was revoked, checked or cleaned up since.
StayAsLongAsCutoff ==
    \A t \in Tokens :
        /\ revokedTokens[t] # 0 /\ ~ Expired(revokedTokens[t])
        /\ HasCutoff(Sub[t])
        => revokedTokens[t] >= userCutoffs[Sub[t]].until

\* The store keeps its promise: with expired entries read as absent, every
\* step is a step of Revocation, and every answer the answer of that step.
activeIds == [t \in Tokens |-> IF Expired(revokedTokens[t]) THEN 0 ELSE revokedTokens[t]]
activeCutoffs == [u \in Users |-> IF Expired(userCutoffs[u].until) THEN NoCutoff
                                  ELSE userCutoffs[u]]
Abstract == INSTANCE Revocation WITH byId <- activeIds, cutoff <- activeCutoffs
Promise == Abstract!Spec
=============================================================================
