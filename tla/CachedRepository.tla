-------------------------- MODULE CachedRepository --------------------------
(***************************************************************************)
(* The query-result cache: CachedRepository over ResultCache.get_or_set    *)
(* (caching/repository_integration.py, caching/result_cache.py) over the   *)
(* PostgresCache table (caching/postgres_cache.py).                        *)
(*                                                                         *)
(* Every backend call and every repository call is one database round      *)
(* trip, so a find is a sequence of steps (look up, fetch, store) between  *)
(* which other requests, of this process or of another one that shares the *)
(* table, look up, store, write and invalidate.                            *)
(*                                                                         *)
(* A query result is abstracted to the version of the data it shows: a     *)
(* write of a key makes its next version, and version 0 is "no record",    *)
(* the None of find_one.  Encoding keeps the bytes of a response, so a     *)
(* decoded result is the version that was stored.  An entry's TTL may run  *)
(* out at any moment.                                                      *)
(***************************************************************************)
EXTENDS Naturals, FiniteSets

CONSTANTS
    Views, Tenants, \* a cache key names a view and a tenant
    Readers,        \* calls of find, find_one, cached_query or warm_cache
    Writers,        \* calls of execute_function[_with_context] or invalidate_view
    Written,        \* the views that show what the SQL function writes
    Named,          \* the views invalidate_for_function derives from its name
    CacheErrors,    \* config.cache_errors
    MaxVersion,     \* bound on the writes of one key
    NoVersion, Empty, NoKey, NoReader

Key == [view : Views, tenant : Tenants]

ASSUME ViewsAssumption == Written \subseteq Views /\ Named \subseteq Views
ASSUME ErrorsAssumption == CacheErrors \in BOOLEAN
ASSUME BoundAssumption == MaxVersion \in Nat
ASSUME NoneAssumption ==
    /\ NoVersion \notin Nat
    /\ Empty \notin [ver : Nat, by : Readers]
    /\ NoKey \notin Key
    /\ NoReader \notin Readers

VARIABLES
    db,        \* the version of each key's data in the database
    store,     \* the cache table: the version stored for a key and who stored it
    rpc,       \* where each read call is
    rkey,      \* its cache key
    fetched,   \* the version it fetched
    result,    \* the version it returned
    servedBy,  \* the call that fetched what it returned
    before,    \* history: the write calls that had returned when it started
    wpc,       \* where each write call is
    pending,   \* the keys it has yet to delete
    deleted,   \* the keys it has deleted
    wrote,     \* history: the versions in the database when it began to invalidate
    late,      \* history: reads that held a fetched value while their key was deleted
    dirty      \* history: keys written since their last delete, with no delete to come

readVars == <<rpc, rkey, fetched, result, servedBy, before>>
writeVars == <<wpc, pending, deleted, wrote>>
vars == <<db, store, readVars, writeVars, late, dirty>>

TypeOK ==
    /\ db \in [Key -> Nat]
    /\ store \in [Key -> [ver : Nat, by : Readers] \cup {Empty}]
    /\ rpc \in [Readers -> {"idle", "lookup", "fetch", "store", "direct", "done"}]
    /\ rkey \in [Readers -> Key \cup {NoKey}]
    /\ fetched \in [Readers -> Nat]
    /\ result \in [Readers -> Nat \cup {NoVersion}]
    /\ servedBy \in [Readers -> Readers \cup {NoReader}]
    /\ before \in [Readers -> SUBSET Writers]
    /\ wpc \in [Writers -> {"idle", "invalidating", "returned", "raised"}]
    /\ pending \in [Writers -> SUBSET Key]
    /\ deleted \in [Writers -> SUBSET Key]
    /\ wrote \in [Writers -> [Key -> Nat]]
    /\ late \subseteq Readers
    /\ dirty \subseteq Key

Init ==
    /\ db = [k \in Key |-> 0]
    /\ store = [k \in Key |-> Empty]
    /\ rpc = [r \in Readers |-> "idle"]
    /\ rkey = [r \in Readers |-> NoKey]
    /\ fetched = [r \in Readers |-> 0]
    /\ result = [r \in Readers |-> NoVersion]
    /\ servedBy = [r \in Readers |-> NoReader]
    /\ before = [r \in Readers |-> {}]
    /\ wpc = [w \in Writers |-> "idle"]
    /\ pending = [w \in Writers |-> {}]
    /\ deleted = [w \in Writers |-> {}]
    /\ wrote = [w \in Writers |-> [k \in Key |-> 0]]
    /\ late = {}
    /\ dirty = {}

-----------------------------------------------------------------------------
(* find(), find_one(), cached_query and warm_cache                         *)

\* A call starts: through the cache, around it (skip_cache, or a disabled
\* cache), or, for warm_cache, at the fetch.
StartRead(r, k, at) ==
    /\ rpc[r] = "idle"
    /\ rpc' = [rpc EXCEPT ![r] = at]
    /\ rkey' = [rkey EXCEPT ![r] = k]
    /\ before' = [before EXCEPT ![r] = {w \in Writers : wpc[w] = "returned"}]
    /\ UNCHANGED <<db, store, fetched, result, servedBy, writeVars, late, dirty>>

Return(r, v, by) ==
    /\ rpc' = [rpc EXCEPT ![r] = "done"]
    /\ result' = [result EXCEPT ![r] = v]
    /\ servedBy' = [servedBy EXCEPT ![r] = by]

\* A live entry whose value is not the JSON null of a None.
Hit(k) == store[k] # Empty /\ store[k].ver # 0

\* backend.get finds an entry.
LookupHit(r) ==
    /\ rpc[r] = "lookup"
    /\ Hit(rkey[r])
    /\ Return(r, store[rkey[r]].ver, store[rkey[r]].by)
    /\ UNCHANGED <<db, store, rkey, fetched, before, writeVars, late, dirty>>

\* `cached is not None` fails.
LookupMiss(r) ==
    /\ rpc[r] = "lookup"
    /\ ~ Hit(rkey[r])
    /\ rpc' = [rpc EXCEPT ![r] = "fetch"]
    /\ UNCHANGED <<db, store, rkey, fetched, result, servedBy, before, writeVars, late, dirty>>

\* backend.get raises: the result is fetched and, unless cache_errors, not stored.
LookupFails(r) ==
    /\ rpc[r] = "lookup"
    /\ rpc' = [rpc EXCEPT ![r] = IF CacheErrors THEN "fetch" ELSE "direct"]
    /\ UNCHANGED <<db, store, rkey, fetched, result, servedBy, before, writeVars, late, dirty>>

\* The wrapped repository's query, then `await backend.set`.
Fetch(r) ==
    /\ rpc[r] = "fetch"
    /\ rpc' = [rpc EXCEPT ![r] = "store"]
    /\ fetched' = [fetched EXCEPT ![r] = db[rkey[r]]]
    /\ UNCHANGED <<db, store, rkey, result, servedBy, before, writeVars, late, dirty>>

\* The query raises and so does the call: errors are not cached.
FetchFails(r) ==
    /\ rpc[r] \in {"fetch", "direct"}
    /\ rpc' = [rpc EXCEPT ![r] = "done"]
    /\ UNCHANGED <<db, store, rkey, fetched, result, servedBy, before, writeVars, late, dirty>>

FetchDirect(r) ==
    /\ rpc[r] = "direct"
    /\ Return(r, db[rkey[r]], r)
    /\ UNCHANGED <<db, store, rkey, fetched, before, writeVars, late, dirty>>

\* backend.set, an upsert.
Store(r) ==
    /\ rpc[r] = "store"
    /\ store' = [store EXCEPT ![rkey[r]] = [ver |-> fetched[r], by |-> r]]
    /\ Return(r, fetched[r], r)
    /\ UNCHANGED <<db, rkey, fetched, before, writeVars, late, dirty>>

\* backend.set raises: the fetched result is returned all the same.
StoreFails(r) ==
    /\ rpc[r] = "store"
    /\ Return(r, fetched[r], r)
    /\ UNCHANGED <<db, store, rkey, fetched, before, writeVars, late, dirty>>

-----------------------------------------------------------------------------
(* execute_function[_with_context]() and invalidate_view()                 *)

KeysOf(views) == {k \in Key : k.view \in views}

\* Mutant: the call does not invalidate.
ExecuteFunctionOnly(w, t) ==
    LET touched == {k \in KeysOf(Written) : k.tenant = t} IN
    /\ wpc[w] = "idle"
    /\ \A k \in touched : db[k] < MaxVersion
    /\ db' = [k \in Key |-> IF k \in touched THEN db[k] + 1 ELSE db[k]]
    /\ wpc' = [wpc EXCEPT ![w] = "invalidating"]
    /\ pending' = [pending EXCEPT ![w] = {}]
    /\ wrote' = [wrote EXCEPT ![w] = db']
    /\ dirty' = dirty \cup (touched \ KeysOf(Named))
    /\ UNCHANGED <<store, readVars, deleted, late>>

\* The function runs for one tenant and commits; then the views its name
\* stands for are invalidated, for every tenant.
ExecuteFunction(w, t) ==
    LET touched == {k \in KeysOf(Written) : k.tenant = t} IN
    /\ wpc[w] = "idle"
    /\ \A k \in touched : db[k] < MaxVersion
    /\ db' = [k \in Key |-> IF k \in touched THEN db[k] + 1 ELSE db[k]]
    /\ wpc' = [wpc EXCEPT ![w] = "invalidating"]
    /\ pending' = [pending EXCEPT ![w] = KeysOf(Named)]
    /\ wrote' = [wrote EXCEPT ![w] = db']
    /\ dirty' = dirty \cup (touched \ KeysOf(Named))
    /\ UNCHANGED <<store, readVars, deleted, late>>

\* The function raises: nothing is written and nothing is invalidated.
ExecuteFails(w) ==
    /\ wpc[w] = "idle"
    /\ wpc' = [wpc EXCEPT ![w] = "raised"]
    /\ UNCHANGED <<db, store, readVars, pending, deleted, wrote, late, dirty>>

\* invalidate_view(view, all_tenants=True), or of the context's tenant only.
InvalidateView(w, S) ==
    /\ wpc[w] = "idle"
    /\ wpc' = [wpc EXCEPT ![w] = "invalidating"]
    /\ pending' = [pending EXCEPT ![w] = S]
    /\ wrote' = [wrote EXCEPT ![w] = db]
    /\ UNCHANGED <<db, store, readVars, deleted, late, dirty>>

\* Mutant: the pattern matches no key of the table.
DeletePatternMatchesNothing(w, k) ==
    /\ wpc[w] = "invalidating"
    /\ k \in pending[w]
    /\ pending' = [pending EXCEPT ![w] = @ \ {k}]
    /\ deleted' = [deleted EXCEPT ![w] = @ \cup {k}]
    /\ late' = late \cup {r \in Readers : rpc[r] = "store" /\ rkey[r] = k}
    /\ dirty' = dirty \ {k}
    /\ UNCHANGED <<db, store, readVars, wpc, wrote>>

\* One backend.delete_pattern; patterns are deleted one after the other, so
\* keys are deleted in any order.
DeletePattern(w, k) ==
    /\ wpc[w] = "invalidating"
    /\ k \in pending[w]
    /\ store' = [store EXCEPT ![k] = Empty]
    /\ pending' = [pending EXCEPT ![w] = @ \ {k}]
    /\ deleted' = [deleted EXCEPT ![w] = @ \cup {k}]
    /\ late' = late \cup {r \in Readers : rpc[r] = "store" /\ rkey[r] = k}
    /\ dirty' = dirty \ {k}
    /\ UNCHANGED <<db, readVars, wpc, wrote>>

\* backend.delete_pattern raises; invalidate_pattern logs and goes on.
DeleteFails(w, k) ==
    /\ wpc[w] = "invalidating"
    /\ k \in pending[w]
    /\ pending' = [pending EXCEPT ![w] = @ \ {k}]
    /\ dirty' = dirty \cup {k}
    /\ UNCHANGED <<db, store, readVars, wpc, deleted, wrote, late>>

WriteReturns(w) ==
    /\ wpc[w] = "invalidating"
    /\ pending[w] = {}
    /\ wpc' = [wpc EXCEPT ![w] = "returned"]
    /\ UNCHANGED <<db, store, readVars, pending, deleted, wrote, late, dirty>>

\* The request is cancelled after the commit: the remaining deletes never run.
WriteCancelled(w) ==
    /\ wpc[w] = "invalidating"
    /\ wpc' = [wpc EXCEPT ![w] = "raised"]
    /\ dirty' = dirty \cup pending[w]
    /\ pending' = [pending EXCEPT ![w] = {}]
    /\ UNCHANGED <<db, store, readVars, deleted, wrote, late>>

-----------------------------------------------------------------------------
(* The environment                                                         *)

\* A write that does not go through the repository.
OutsideWrite(k) ==
    /\ db[k] < MaxVersion
    /\ db' = [db EXCEPT ![k] = @ + 1]
    /\ dirty' = dirty \cup {k}
    /\ UNCHANGED <<store, readVars, writeVars, late>>

\* Entries go: a TTL runs out, cleanup_expired, invalidate(key), clear_all,
\* or a restart of PostgreSQL, which empties the UNLOGGED table.
Forget(S) ==
    /\ \E k \in S : store[k] # Empty
    /\ store' = [k \in Key |-> IF k \in S THEN Empty ELSE store[k]]
    /\ UNCHANGED <<db, readVars, writeVars, late, dirty>>

-----------------------------------------------------------------------------
ReadNext(r) ==
    \/ \E k \in Key, at \in {"lookup", "direct", "fetch"} : StartRead(r, k, at)
    \/ LookupHit(r) \/ LookupMiss(r) \/ LookupFails(r)
    \/ Fetch(r) \/ FetchFails(r) \/ FetchDirect(r)
    \/ Store(r) \/ StoreFails(r)

WriteNext(w) ==
    \/ \E t \in Tenants : ExecuteFunction(w, t)
    \/ ExecuteFails(w)
    \/ \E v \in Views : InvalidateView(w, KeysOf({v}))
    \/ \E k \in Key : InvalidateView(w, {k})
    \/ \E k \in Key : DeletePattern(w, k) \/ DeleteFails(w, k)
    \/ WriteReturns(w)
    \/ WriteCancelled(w)

Next ==
    \/ \E r \in Readers : ReadNext(r)
    \/ \E w \in Writers : WriteNext(w)
    \/ \E k \in Key : OutsideWrite(k) \/ Forget({k})
    \/ Forget(Key)

Spec == Init /\ [][Next]_vars
-----------------------------------------------------------------------------
(* Properties                                                              *)

\* A read that starts after a write call returned shows at least the data of
\* the keys that call invalidated, although lookup, fetch and store of many
\* requests interleave with commit and deletes.  The one exception is a result
\* some call fetched before the delete and stored after it.
ReadYourWrites ==
    \A r \in Readers : result[r] # NoVersion /\ servedBy[r] \notin late =>
        \A w \in before[r] : rkey[r] \in deleted[w] => result[r] >= wrote[w][rkey[r]]

\* A cached entry older than the database has one of four causes: its delete is
\* still to come, it was lost (a backend error or a cancelled request), the
\* write was not one the function's name stands for, or the entry was fetched
\* before the delete and stored after it.
StaleEntryExplained ==
    \A k \in Key : store[k] # Empty /\ store[k].ver < db[k] =>
        \/ k \in dirty
        \/ store[k].by \in late
        \/ \E w \in Writers : wpc[w] = "invalidating" /\ k \in pending[w]
=============================================================================
