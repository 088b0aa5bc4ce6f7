----------------------------- MODULE DataLoader -----------------------------
(***************************************************************************)
(* The per-request batching loader of optimization/dataloader.py.          *)
(*                                                                         *)
(* Concurrent `load` calls of one event loop put their keys in a shared    *)
(* queue and wait on a shared future, the batch promise; one dispatch task *)
(* drains the queue, calls `batch_load` for each chunk of keys, fills the  *)
(* cache and settles the promise.  A step of the model runs from one       *)
(* `await` to the next, so steps of different calls interleave exactly at  *)
(* the awaits.                                                             *)
(*                                                                         *)
(* Futures are named by the load call that created them.  The queue is the *)
(* set of its keys (`dict.fromkeys` removes duplicates before a dispatch)  *)
(* and a dispatch cuts it into chunks in any order.                        *)
(***************************************************************************)
EXTENDS Naturals, FiniteSets

CONSTANTS
    Loads,         \* the load() calls of one request
    Keys,          \* the keys they ask for
    Rows,          \* the keys that have a value in the database
    MaxBatchSize,  \* max_batch_size
    CacheEnabled,  \* cache
    NoLoad, NoKey  \* no load call, no key

ASSUME RowsAssumption == Rows \subseteq Keys
ASSUME BatchAssumption == MaxBatchSize \in Nat \ {0}
ASSUME CacheAssumption == CacheEnabled \in BOOLEAN

ASSUME NoneAssumption == NoLoad \notin Loads /\ NoKey \notin Keys

VARIABLES
    cache,      \* _cache: what is cached for a key
    queue,      \* _queue: the keys no dispatch has taken yet
    promise,    \* _batch_promise
    scheduled,  \* _dispatch_scheduled
    future,     \* state of the future each load created
    dispatch,   \* where the dispatch task is
    batch,      \* the keys given to the batch_load call in flight
    todo,       \* the keys of the chunks that come after it
    pc,         \* where each load call is
    key,        \* the key each load call asks for
    waitsOn,    \* the future each load call awaits
    result,     \* what each load call returned or raised
    late,       \* history: loads that joined a dispatch which had left their key out
    cleared,    \* history: loads whose key clear() removed while they waited
    cancelled,  \* history: loads whose caller cancelled them
    aborted     \* history: promises a dispatch dropped without settling them

loader == <<cache, queue, promise, scheduled>>
dispatcher == <<dispatch, batch, todo>>
calls == <<pc, key, waitsOn, result>>
history == <<late, cleared, cancelled, aborted>>
vars == <<loader, future, dispatcher, calls, history>>

Cached == {"row", "primed"}

TypeOK ==
    /\ cache \in [Keys -> Cached \cup {"absent"}]
    /\ queue \subseteq Keys
    /\ promise \in Loads \cup {NoLoad}
    /\ scheduled \in BOOLEAN
    /\ future \in [Loads -> {"none", "pending", "resolved", "rejected", "cancelled"}]
    /\ dispatch \in {"idle", "yielding", "loading"}
    /\ batch \subseteq Keys
    /\ todo \subseteq Keys
    /\ pc \in [Loads -> {"new", "waiting", "done"}]
    /\ key \in [Loads -> Keys \cup {NoKey}]
    /\ waitsOn \in [Loads -> Loads \cup {NoLoad}]
    /\ result \in [Loads -> Cached \cup {"unknown", "None", "error", "cancelled"}]
    /\ late \subseteq Loads
    /\ cleared \subseteq Loads
    /\ cancelled \subseteq Loads
    /\ aborted \subseteq Loads

Init ==
    /\ cache = [k \in Keys |-> "absent"]
    /\ queue = {}
    /\ promise = NoLoad
    /\ scheduled = FALSE
    /\ future = [c \in Loads |-> "none"]
    /\ dispatch = "idle"
    /\ batch = {}
    /\ todo = {}
    /\ pc = [c \in Loads |-> "new"]
    /\ key = [c \in Loads |-> NoKey]
    /\ waitsOn = [c \in Loads |-> NoLoad]
    /\ result = [c \in Loads |-> "unknown"]
    /\ late = {}
    /\ cleared = {}
    /\ cancelled = {}
    /\ aborted = {}

-----------------------------------------------------------------------------
(* load()                                                                  *)

Finish(c, r) ==
    /\ pc' = [pc EXCEPT ![c] = "done"]
    /\ result' = [result EXCEPT ![c] = r]

\* "Check cache first".
LoadHit(c, k) ==
    /\ pc[c] = "new"
    /\ CacheEnabled
    /\ cache[k] # "absent"
    /\ key' = [key EXCEPT ![c] = k]
    /\ Finish(c, cache[k])
    /\ UNCHANGED <<loader, future, dispatcher, waitsOn, history>>

\* Mutant: every load makes a promise of its own.
LoadMissOwnPromise(c, k) ==
    /\ pc[c] = "new"
    /\ ~ (CacheEnabled /\ cache[k] # "absent")
    /\ key' = [key EXCEPT ![c] = k]
    /\ queue' = queue \cup {k}
    /\ scheduled' = TRUE
    /\ dispatch' = IF scheduled THEN dispatch ELSE "yielding"
    /\ promise' = c
    /\ future' = [future EXCEPT ![c] = "pending"]
    /\ waitsOn' = [waitsOn EXCEPT ![c] = c]
    /\ pc' = [pc EXCEPT ![c] = "waiting"]
    /\ UNCHANGED <<cache, batch, todo, result, history>>

\* A dispatch is scheduled only when none is pending or running; the promise
\* of a running dispatch is shared by every load that arrives meanwhile.
\* Awaiting a promise that is already cancelled raises at once.
LoadMiss(c, k) ==
    LET p == IF promise = NoLoad THEN c ELSE promise IN
    /\ pc[c] = "new"
    /\ ~ (CacheEnabled /\ cache[k] # "absent")
    /\ key' = [key EXCEPT ![c] = k]
    /\ queue' = queue \cup {k}
    /\ scheduled' = TRUE
    /\ dispatch' = IF scheduled THEN dispatch ELSE "yielding"
    /\ promise' = p
    /\ future' = IF promise = NoLoad THEN [future EXCEPT ![c] = "pending"] ELSE future
    /\ waitsOn' = [waitsOn EXCEPT ![c] = p]
    /\ late' = IF dispatch = "loading" /\ k \notin batch \cup todo THEN late \cup {c} ELSE late
    /\ IF future'[p] = "cancelled"
       THEN Finish(c, "cancelled")
       ELSE pc' = [pc EXCEPT ![c] = "waiting"] /\ UNCHANGED result
    /\ UNCHANGED <<cache, batch, todo, cleared, cancelled, aborted>>

\* The promise is settled and the call runs on: `return self._cache.get(key)`.
Wake(c) ==
    /\ pc[c] = "waiting"
    /\ future[waitsOn[c]] # "pending"
    /\ Finish(c, CASE future[waitsOn[c]] = "resolved" ->
                            IF cache[key[c]] = "absent" THEN "None" ELSE cache[key[c]]
                   [] future[waitsOn[c]] = "rejected" -> "error"
                   [] OTHER -> "cancelled")
    /\ UNCHANGED <<loader, future, dispatcher, key, waitsOn, history>>

\* The caller cancels its waiting load (a timeout, a closed request).  The
\* call awaits the shared future itself, so asyncio cancels that future.
Cancel(c) ==
    /\ pc[c] = "waiting"
    /\ future' = IF future[waitsOn[c]] = "pending"
                 THEN [future EXCEPT ![waitsOn[c]] = "cancelled"]
                 ELSE future
    /\ Finish(c, "cancelled")
    /\ cancelled' = cancelled \cup {c}
    /\ UNCHANGED <<loader, dispatcher, key, waitsOn, late, cleared, aborted>>

-----------------------------------------------------------------------------
(* prime() and clear()                                                     *)

Prime(k) ==
    /\ cache' = IF CacheEnabled THEN [cache EXCEPT ![k] = "primed"] ELSE cache
    /\ UNCHANGED <<queue, promise, scheduled, future, dispatcher, calls, history>>

\* clear(key) is Clear({key}) and clear() is Clear(Keys).
Clear(S) ==
    /\ cache' = [k \in Keys |-> IF k \in S THEN "absent" ELSE cache[k]]
    /\ cleared' = cleared \cup {c \in Loads : pc[c] = "waiting" /\ key[c] \in S}
    /\ UNCHANGED <<queue, promise, scheduled, future, dispatcher, calls, late, cancelled, aborted>>

-----------------------------------------------------------------------------
(* _dispatch_batch()                                                       *)

\* The next chunk of at most max_batch_size of the keys S.
Chunks(S) ==
    {b \in SUBSET S : Cardinality(b) = IF Cardinality(S) < MaxBatchSize
                                       THEN Cardinality(S) ELSE MaxBatchSize}

\* Mutant: the `finally` clause forgets the flag.
ResetKeepsFlag ==
    /\ promise' = NoLoad
    /\ dispatch' = "idle"
    /\ batch' = {}
    /\ todo' = {}
    /\ UNCHANGED scheduled

\* The `finally` clause.
Reset ==
    /\ promise' = NoLoad
    /\ scheduled' = FALSE
    /\ dispatch' = "idle"
    /\ batch' = {}
    /\ todo' = {}

\* set_result or set_exception.  On a cancelled promise both raise
\* InvalidStateError, which ends the task after its `finally`.
Settle(outcome) ==
    future' = IF promise # NoLoad /\ future[promise] = "pending"
              THEN [future EXCEPT ![promise] = outcome]
              ELSE future

\* The task runs on after its yield: it takes the queue and calls
\* batch_load for the first chunk, or returns when there is nothing to do.
TakeQueue ==
    /\ dispatch = "yielding"
    /\ IF queue = {}
       THEN /\ scheduled' = FALSE
            /\ dispatch' = "idle"
            /\ UNCHANGED <<queue, batch, todo>>
       ELSE /\ \E b \in Chunks(queue) : batch' = b /\ todo' = queue \ b
            /\ queue' = {}
            /\ dispatch' = "loading"
            /\ UNCHANGED scheduled
    /\ UNCHANGED <<cache, promise, future, calls, history>>

\* Results that are not None are cached.
CacheBatch ==
    cache' = [k \in Keys |-> IF CacheEnabled /\ k \in batch \cap Rows THEN "row" ELSE cache[k]]

\* batch_load returned one result per key and more chunks follow.
BatchLoaded ==
    /\ dispatch = "loading"
    /\ todo # {}
    /\ CacheBatch
    /\ \E b \in Chunks(todo) : batch' = b /\ todo' = todo \ b
    /\ UNCHANGED <<queue, promise, scheduled, future, dispatch, calls, history>>

\* batch_load returned for the last chunk: resolve the promise.
LastBatchLoaded ==
    /\ dispatch = "loading"
    /\ todo = {}
    /\ CacheBatch
    /\ Settle("resolved")
    /\ Reset
    /\ UNCHANGED <<queue, calls, history>>

\* Mutants: a failed batch resolves, cancels or forgets the promise.
BatchFailedResolves ==
    /\ dispatch = "loading"
    /\ Settle("resolved")
    /\ Reset
    /\ UNCHANGED <<cache, queue, calls, history>>

BatchFailedCancels ==
    /\ dispatch = "loading"
    /\ Settle("cancelled")
    /\ Reset
    /\ UNCHANGED <<cache, queue, calls, history>>

BatchFailedForgets ==
    /\ dispatch = "loading"
    /\ Reset
    /\ UNCHANGED <<cache, queue, future, calls, history>>

\* batch_load raised an Exception, or returned the wrong number of results: the
\* chunks that follow are given up and the promise is rejected.
BatchFailed ==
    /\ dispatch = "loading"
    /\ Settle("rejected")
    /\ Reset
    /\ UNCHANGED <<cache, queue, calls, history>>

\* batch_load raised what `except Exception` does not catch, a CancelledError
\* above all (a task it awaited was cancelled, a driver's scope expired): only
\* the `finally` clause runs, and the promise is dropped as it is.
BatchAborted ==
    /\ dispatch = "loading"
    /\ aborted' = aborted \cup {promise}
    /\ Reset
    /\ UNCHANGED <<cache, queue, future, calls, late, cleared, cancelled>>

-----------------------------------------------------------------------------
Next ==
    \/ \E c \in Loads, k \in Keys : LoadHit(c, k) \/ LoadMiss(c, k)
    \/ \E c \in Loads : Wake(c) \/ Cancel(c)
    \/ \E k \in Keys : Prime(k) \/ Clear({k})
    \/ Clear(Keys)
    \/ TakeQueue
    \/ BatchLoaded
    \/ LastBatchLoaded
    \/ BatchFailed
    \/ BatchAborted

Spec == Init /\ [][Next]_vars

\* The event loop runs every ready task, and batch_load, a database query,
\* returns or raises.
Fairness ==
    /\ WF_vars(TakeQueue)
    /\ WF_vars(BatchLoaded \/ LastBatchLoaded \/ BatchFailed \/ BatchAborted)
    /\ \A c \in Loads : WF_vars(Wake(c))

FairSpec == Spec /\ Fairness

-----------------------------------------------------------------------------
(* Properties                                                              *)

\* One dispatch at a time, and never an idle one: the flag, the promise and
\* the task agree at every await, so load() can neither start a second task
\* nor join a promise no task holds, and the early return of
\* _dispatch_batch on an empty queue is never taken.
SingleDispatch ==
    /\ scheduled <=> dispatch # "idle"
    /\ promise # NoLoad <=> dispatch # "idle"
    /\ dispatch = "yielding" => queue # {}

\* A load that waits on an unsettled future waits on the promise of the
\* dispatch that is pending or running, so that dispatch will wake it: a late
\* load, a chunk that fails with an Exception or a cancelled neighbour never
\* strands a caller.  Only the loads of a dispatch whose batch_load raised past
\* `except Exception` wait for good: nothing else of the loader settles theirs.
NoLostWakeup ==
    \A c \in Loads :
        pc[c] = "waiting" /\ future[waitsOn[c]] = "pending" =>
            \/ waitsOn[c] = promise /\ dispatch # "idle"
            \/ waitsOn[c] \in aborted

\* With caching on, load() answers None for a key that has a row only when the
\* key was cleared meanwhile or the call arrived after the running dispatch
\* had taken the queue without its key: chunking, failures of other
\* dispatches, and concurrent primes lose nothing.
NoneOnlyWhenMissing ==
    \A c \in Loads :
        result[c] = "None" /\ CacheEnabled /\ c \notin late \cup cleared => key[c] \notin Rows

\* A load that raises CancelledError shares its promise with a load its caller
\* cancelled: one cancellation reaches the loads of its own dispatch and no
\* later one, although all of them use the same loader.
CancelStaysInBatch ==
    \A c \in Loads :
        result[c] = "cancelled" => \E d \in cancelled : waitsOn[d] = waitsOn[c]

\* Every load() that waits returns or raises, unless its own dispatch was
\* aborted: an aborted dispatch takes none of the later ones with it.
EveryLoadReturns ==
    \A c \in Loads : pc[c] = "waiting" ~> pc[c] = "done" \/ waitsOn[c] \in aborted
=============================================================================
