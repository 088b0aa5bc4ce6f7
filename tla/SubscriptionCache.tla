-------------------------- MODULE SubscriptionCache --------------------------
(***************************************************************************)
(* The value cache of @cache subscriptions (subscriptions/caching.py):     *)
(* subscribers of one event loop call get_or_generate, a cleanup loop      *)
(* removes expired entries.                                                *)
(*                                                                         *)
(* get_or_generate is an async generator: it is suspended at its yields,   *)
(* at its lock and in the subscription's own generator, and a subscriber   *)
(* may close it at any of them.  Locks are objects, named here by the      *)
(* subscriber that created them; a lock serves its waiters in order.  An   *)
(* entry may expire at any moment.                                         *)
(***************************************************************************)
EXTENDS Naturals

CONSTANTS
    Subscribers,  \* calls of get_or_generate
    Keys,
    NoSub

ASSUME NoSubAssumption == NoSub \notin Subscribers

VARIABLES
    cache,     \* _cache: whether a key has an entry and whether it has expired
    locks,     \* _locks: the lock of each key, or NoSub
    holder,    \* who holds each lock
    ticket,    \* when each call joined the waiters of its lock
    arrivals,  \* the tickets given so far
    pc,        \* where each call is suspended
    key,       \* its key
    lock,      \* the lock it entered with `async with`
    cleaner,   \* whether _cleanup_task is a loop that runs
    orphaned,  \* whether a loop runs that _cleanup_task no longer names
    displaced  \* history: calls whose lock the cleanup removed from _locks under them

lockVars == <<locks, holder, ticket, arrivals>>
loops == <<cleaner, orphaned>>
cacheVars == <<cache, lockVars, pc, key, lock, loops, displaced>>

CacheTypeOK ==
    /\ cache \in [Keys -> {"absent", "fresh", "expired"}]
    /\ locks \in [Keys -> Subscribers \cup {NoSub}]
    /\ holder \in [Subscribers -> Subscribers \cup {NoSub}]
    /\ ticket \in [Subscribers -> Nat]
    /\ arrivals \in Nat
    /\ pc \in [Subscribers -> {"new", "cached", "waiting", "checked", "generating",
                               "yielding", "done"}]
    /\ key \in [Subscribers -> Keys]
    /\ lock \in [Subscribers -> Subscribers \cup {NoSub}]
    /\ cleaner \in BOOLEAN
    /\ orphaned \in BOOLEAN
    /\ displaced \subseteq Subscribers

\* The keys of the calls are fixed by their arguments.
CacheInit ==
    /\ cache = [k \in Keys |-> "absent"]
    /\ locks = [k \in Keys |-> NoSub]
    /\ holder = [l \in Subscribers |-> NoSub]
    /\ ticket = [s \in Subscribers |-> 0]
    /\ arrivals = 0
    /\ pc = [s \in Subscribers |-> "new"]
    /\ key \in [Subscribers -> Keys]
    /\ lock = [s \in Subscribers |-> NoSub]
    /\ cleaner = FALSE
    /\ orphaned = FALSE
    /\ displaced = {}

At(s, from, to) == pc[s] = from /\ pc' = [pc EXCEPT ![s] = to]

-----------------------------------------------------------------------------
(* get_or_generate()                                                       *)

\* A fresh entry: its value is yielded and the subscription is over.
Hit(s) ==
    /\ cache[key[s]] = "fresh"
    /\ At(s, "new", "cached")
    /\ UNCHANGED <<cache, lockVars, key, lock, loops, displaced>>

\* What a call does once it has the lock: look again, else run the generator.
Entered(s) == IF cache[key[s]] = "fresh" THEN "checked" ELSE "generating"

Waiters(l) == {s \in Subscribers : pc[s] = "waiting" /\ lock[s] = l}

\* Mutant: every call makes a lock of its own.
MissOwnLock(s) ==
    /\ pc[s] = "new"
    /\ cache[key[s]] # "fresh"
    /\ locks' = [locks EXCEPT ![key[s]] = s]
    /\ lock' = [lock EXCEPT ![s] = s]
    /\ holder' = [holder EXCEPT ![s] = s]
    /\ pc' = [pc EXCEPT ![s] = Entered(s)]
    /\ UNCHANGED <<cache, ticket, arrivals, key, loops, displaced>>

\* No fresh entry: take the lock of the key, made on the way if there is none.
Miss(s) ==
    LET l == IF locks[key[s]] = NoSub THEN s ELSE locks[key[s]] IN
    /\ pc[s] = "new"
    /\ cache[key[s]] # "fresh"
    /\ locks' = [locks EXCEPT ![key[s]] = l]
    /\ lock' = [lock EXCEPT ![s] = l]
    /\ IF holder[l] = NoSub /\ Waiters(l) = {}
       THEN /\ holder' = [holder EXCEPT ![l] = s]
            /\ pc' = [pc EXCEPT ![s] = Entered(s)]
            /\ UNCHANGED <<ticket, arrivals>>
       ELSE /\ ticket' = [ticket EXCEPT ![s] = arrivals]
            /\ arrivals' = arrivals + 1
            /\ pc' = [pc EXCEPT ![s] = "waiting"]
            /\ UNCHANGED holder
    /\ UNCHANGED <<cache, key, loops, displaced>>

\* The lock is free and the first waiter wakes up with it.
Acquire(s) ==
    LET l == lock[s] IN
    /\ pc[s] = "waiting"
    /\ holder[l] = NoSub
    /\ \A w \in Waiters(l) : ticket[s] <= ticket[w]
    /\ holder' = [holder EXCEPT ![l] = s]
    /\ pc' = [pc EXCEPT ![s] = Entered(s)]
    /\ UNCHANGED <<cache, locks, ticket, arrivals, key, lock, loops, displaced>>

\* The generator yields a value: it is cached, then yielded on.
Generate(s) ==
    /\ At(s, "generating", "yielding")
    /\ cache' = [cache EXCEPT ![key[s]] = "fresh"]
    /\ UNCHANGED <<lockVars, key, lock, loops, displaced>>

\* The subscriber asks for the next value.
Resume(s) ==
    /\ At(s, "yielding", "generating")
    /\ UNCHANGED <<cache, lockVars, key, lock, loops, displaced>>

Holding(s) == pc[s] \in {"checked", "generating", "yielding"}

\* Mutant: the lock is not released.
LeaveLocked(s) ==
    /\ Holding(s)
    /\ pc' = [pc EXCEPT ![s] = "done"]
    /\ UNCHANGED <<cache, lockVars, key, lock, loops, displaced>>

\* The call is over and `async with` releases the lock: the cached value was
\* taken, the generator ended or raised, or the subscriber closed the call.
Leave(s) ==
    /\ Holding(s)
    /\ holder' = [holder EXCEPT ![lock[s]] = NoSub]
    /\ pc' = [pc EXCEPT ![s] = "done"]
    /\ UNCHANGED <<cache, locks, ticket, arrivals, key, lock, loops, displaced>>

\* The call is over without a lock: its cached value was taken or it was closed.
LeaveCached(s) ==
    /\ At(s, "cached", "done")
    /\ UNCHANGED <<cache, lockVars, key, lock, loops, displaced>>

\* A call that waits for the lock is cancelled.
GiveUp(s) ==
    /\ At(s, "waiting", "done")
    /\ UNCHANGED <<cache, lockVars, key, lock, loops, displaced>>

-----------------------------------------------------------------------------
(* start(), stop() and the cleanup loop                                    *)

\* start() does not look for a loop it started before.
Start ==
    /\ cleaner' = TRUE
    /\ orphaned' = (orphaned \/ cleaner)
    /\ UNCHANGED <<cache, lockVars, pc, key, lock, displaced>>

Stop ==
    /\ cleaner
    /\ cleaner' = FALSE
    /\ UNCHANGED <<cache, lockVars, pc, key, lock, orphaned, displaced>>

\* One round of _cleanup_loop: expired entries go, and their locks with them,
\* whoever holds them.
Cleanup ==
    LET gone == {k \in Keys : cache[k] = "expired"} IN
    /\ cleaner \/ orphaned
    /\ cache' = [k \in Keys |-> IF k \in gone THEN "absent" ELSE cache[k]]
    /\ locks' = [k \in Keys |-> IF k \in gone THEN NoSub ELSE locks[k]]
    /\ displaced' = displaced \cup {s \in Subscribers : /\ key[s] \in gone
                                                        /\ Holding(s) \/ pc[s] = "waiting"}
    /\ UNCHANGED <<holder, ticket, arrivals, pc, key, lock, loops>>

\* The TTL of an entry runs out.
Expire(k) ==
    /\ cache[k] = "fresh"
    /\ cache' = [cache EXCEPT ![k] = "expired"]
    /\ UNCHANGED <<lockVars, pc, key, lock, loops, displaced>>

-----------------------------------------------------------------------------
SubscriberNext(s) ==
    \/ Hit(s) \/ Miss(s) \/ Acquire(s) \/ Generate(s) \/ Resume(s)
    \/ Leave(s) \/ LeaveCached(s) \/ GiveUp(s)

CacheNext ==
    \/ Start \/ Stop \/ Cleanup
    \/ \E k \in Keys : Expire(k)
    \/ \E s \in Subscribers : SubscriberNext(s)

CacheSpec == CacheInit /\ [][CacheNext]_cacheVars

\* The event loop wakes the first waiter of a free lock, and no subscription
\* lasts for ever: its generator ends or its subscriber closes it.
CacheFairness == \A s \in Subscribers : WF_cacheVars(Acquire(s)) /\ WF_cacheVars(Leave(s))

CacheFairSpec == CacheSpec /\ CacheFairness

-----------------------------------------------------------------------------
(* Properties                                                              *)

Generating(s) == pc[s] \in {"generating", "yielding"}

\* Two calls run their generators for the same key only when the cleanup has
\* removed the lock from under one of them.
OneGenerator ==
    \A s, t \in Subscribers :
        Generating(s) /\ Generating(t) /\ key[s] = key[t] /\ s # t
            => s \in displaced \/ t \in displaced

\* Provided that no subscription lasts for ever, a call that waits for the lock
\* gets it or gives up, also when the lock was removed from _locks.
WaitersAreServed == \A s \in Subscribers : pc[s] = "waiting" ~> pc[s] # "waiting"
=============================================================================
