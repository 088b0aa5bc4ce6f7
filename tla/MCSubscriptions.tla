-------------------------- MODULE MCSubscriptions --------------------------
(* Model-checking instances of Subscriptions and of SubscriptionCache, which *)
(* share no state: calls of the cache start when a connection has ended that  *)
(* nobody used.  No symmetry set: the run checks liveness.                    *)
EXTENDS Subscriptions, SubscriptionCache

VARIABLE part

\* The keys of the calls up to renaming: all of one key, or one of another.
K1 == CHOOSE k \in Keys : TRUE
K2 == CHOOSE k \in Keys : k # K1
S1 == CHOOSE s \in Subscribers : TRUE
Assignments == {[s \in Subscribers |-> K1], [s \in Subscribers |-> IF s = S1 THEN K2 ELSE K1]}

MCInit == Init /\ CacheInit /\ key = [s \in Subscribers |-> K1] /\ part = "connection"

\* The connection ended before its handshake; nothing else has happened.
Unused ==
    /\ handler = "done" /\ state = "closed" /\ keepAlive = "none" /\ listed
    /\ manager = "idle" /\ broadcast = "none" /\ ~ interrupted
    /\ \A t \in Tasks : task[t] = "unborn"

TurnToCache ==
    /\ part = "connection" /\ Unused
    /\ part' = "cache"
    /\ key' \in Assignments
    /\ UNCHANGED <<vars, cache, lockVars, pc, lock, loops, displaced>>

MCNext ==
    \/ part = "connection" /\ Next /\ UNCHANGED <<cacheVars, part>>
    \/ TurnToCache
    \/ part = "cache" /\ CacheNext /\ UNCHANGED <<vars, part>>

MCSpec == MCInit /\ [][MCNext]_<<vars, cacheVars, part>> /\ Fairness /\ CacheFairness
=============================================================================
