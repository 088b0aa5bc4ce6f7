---------------------------- MODULE CacheProofs ----------------------------
(***************************************************************************)
(* The caches between a request and the database, for every number of      *)
(* keys, readers, writers, queries, callers and entries.                   *)
(*                                                                         *)
(* CachedRepository: ReadYourWrites and StaleEntryExplained.  What makes   *)
(* them inductive is the same statement for the values that readers hold   *)
(* between their fetch and their store.                                    *)
(*                                                                         *)
(* TurboRouter with DecisionCache: FoundByApollo and DecisionIsRecent.     *)
(* The registry holds a primary hash once, and of two owners of an Apollo  *)
(* hash one is noted: so an eviction never takes the mapping of a query    *)
(* that stays, unless the hash is shared.  A decision is cached until at   *)
(* most a TTL and an evaluation after the policy last said so.             *)
(***************************************************************************)
EXTENDS CachedRepository, TurboRouter, SequenceTheorems, TLAPS

Entry == [ver : Nat, by : Readers]

\* A read that has started has a key, one that has not returned has no result;
\* a write call has deleted nothing before it starts and nothing after it returned.
CallInv ==
    /\ \A r \in Readers : rpc[r] # "idle" => rkey[r] \in Key
    /\ \A r \in Readers : rpc[r] # "done" => result[r] = NoVersion
    /\ \A w \in Writers : wpc[w] = "idle" => deleted[w] = {}
    /\ \A r \in Readers : \A w \in before[r] : wpc[w] = "returned"

\* Nothing is newer than the database.
VersionInv ==
    \A w \in Writers : \A k \in Key : wrote[w][k] <= db[k]

\* An entry, and a value that waits to be stored, is as new as every write
\* whose delete of the key it outlived.
FreshInv ==
    /\ \A k \in Key : \A w \in Writers :
          store[k] # Empty /\ store[k].by \notin late /\ k \in deleted[w] =>
              store[k].ver >= wrote[w][k]
    /\ \A r \in Readers : \A w \in Writers :
          rpc[r] = "store" /\ r \notin late /\ rkey[r] \in deleted[w] =>
              fetched[r] >= wrote[w][rkey[r]]

DeleteToCome(k) ==
    k \in dirty \/ \E w \in Writers : wpc[w] = "invalidating" /\ k \in pending[w]

\* A value that waits to be stored and is older than the database will be
\* deleted, or is one of the exceptions.
StaleFillExplained ==
    \A r \in Readers :
        rpc[r] = "store" /\ r \notin late /\ fetched[r] < db[rkey[r]] => DeleteToCome(rkey[r])

\* The inductive invariant.
IInv ==
    /\ TypeOK
    /\ CallInv
    /\ VersionInv
    /\ FreshInv
    /\ ReadYourWrites
    /\ StaleFillExplained
    /\ StaleEntryExplained

USE NoneAssumption, ErrorsAssumption, BoundAssumption

LEMMA InitIInv == Init => IInv
<1> SUFFICES ASSUME Init PROVE IInv
  OBVIOUS
<1> USE DEF Init
<1>1. TypeOK BY DEF TypeOK
<1>2. CallInv BY DEF CallInv
<1>3. VersionInv BY DEF VersionInv
<1>4. FreshInv BY DEF FreshInv
<1>5. ReadYourWrites BY DEF ReadYourWrites
<1>6. StaleFillExplained BY DEF StaleFillExplained
<1>7. StaleEntryExplained BY DEF StaleEntryExplained
<1> QED BY <1>1, <1>2, <1>3, <1>4, <1>5, <1>6, <1>7 DEF IInv

\* Steps of a read that leave the table and what waits for it alone.
LEMMA StartReadIInv ==
    ASSUME IInv, NEW r \in Readers, NEW k \in Key, NEW at \in {"lookup", "direct", "fetch"},
           StartRead(r, k, at)
    PROVE  IInv'
<1> USE DEF IInv, StartRead, writeVars
<1>1. TypeOK' BY DEF TypeOK
<1>2. CallInv' BY DEF CallInv, TypeOK
<1>3. VersionInv' BY DEF VersionInv
<1>4. FreshInv' BY DEF FreshInv, TypeOK
<1>5. ReadYourWrites' BY DEF ReadYourWrites, CallInv, TypeOK
<1>6. StaleFillExplained' BY DEF StaleFillExplained, DeleteToCome, TypeOK
<1>7. StaleEntryExplained' BY DEF StaleEntryExplained
<1> QED BY <1>1, <1>2, <1>3, <1>4, <1>5, <1>6, <1>7

\* A hit returns an entry that FreshInv speaks of.
LEMMA LookupHitIInv ==
    ASSUME IInv, NEW r \in Readers, LookupHit(r) PROVE IInv'
<1> USE DEF IInv, LookupHit, Hit, Return, writeVars
<1>0. rkey[r] \in Key /\ store[rkey[r]] \in Entry BY DEF CallInv, TypeOK, Entry
<1>1. TypeOK' BY <1>0 DEF TypeOK, Entry
<1>2. CallInv' BY DEF CallInv, TypeOK
<1>3. VersionInv' BY DEF VersionInv
<1>4. FreshInv' BY DEF FreshInv, TypeOK
<1>5. ReadYourWrites' BY <1>0 DEF ReadYourWrites, FreshInv, CallInv, TypeOK, Entry
<1>6. StaleFillExplained' BY DEF StaleFillExplained, DeleteToCome, TypeOK
<1>7. StaleEntryExplained' BY DEF StaleEntryExplained
<1> QED BY <1>1, <1>2, <1>3, <1>4, <1>5, <1>6, <1>7

\* A lookup that misses or fails, and a failed fetch.
LEMMA ReadMovesIInv ==
    ASSUME IInv, NEW r \in Readers, LookupMiss(r) \/ LookupFails(r) \/ FetchFails(r) PROVE IInv'
<1> USE DEF IInv, LookupMiss, LookupFails, FetchFails, writeVars
<1>0. /\ rpc[r] \in {"lookup", "fetch", "direct"}
      /\ \E at \in {"fetch", "direct", "done"} : rpc' = [rpc EXCEPT ![r] = at]
      /\ UNCHANGED <<db, store, rkey, fetched, result, servedBy, before, wpc, pending, deleted,
                     wrote, late, dirty>>
  OBVIOUS
<1>1. TypeOK' BY <1>0 DEF TypeOK
<1>2. CallInv' BY <1>0 DEF CallInv, TypeOK
<1>3. VersionInv' BY <1>0 DEF VersionInv
<1>4. FreshInv' BY <1>0 DEF FreshInv, TypeOK
<1>5. ReadYourWrites' BY <1>0 DEF ReadYourWrites
<1>6. StaleFillExplained' BY <1>0 DEF StaleFillExplained, DeleteToCome, TypeOK
<1>7. StaleEntryExplained' BY <1>0 DEF StaleEntryExplained
<1> QED BY <1>1, <1>2, <1>3, <1>4, <1>5, <1>6, <1>7

\* What is fetched is what the database holds, and VersionInv bounds the writes.
LEMMA FetchIInv ==
    ASSUME IInv, NEW r \in Readers, Fetch(r) PROVE IInv'
<1> USE DEF IInv, Fetch, writeVars
<1>0. rkey[r] \in Key /\ db[rkey[r]] \in Nat BY DEF CallInv, TypeOK
<1>1. TypeOK' BY <1>0 DEF TypeOK
<1>2. CallInv' BY DEF CallInv, TypeOK
<1>3. VersionInv' BY DEF VersionInv
<1>4. FreshInv' BY <1>0 DEF FreshInv, VersionInv, TypeOK
<1>5. ReadYourWrites' BY DEF ReadYourWrites
<1>6. StaleFillExplained' BY <1>0 DEF StaleFillExplained, DeleteToCome, TypeOK
<1>7. StaleEntryExplained' BY DEF StaleEntryExplained
<1> QED BY <1>1, <1>2, <1>3, <1>4, <1>5, <1>6, <1>7

LEMMA FetchDirectIInv ==
    ASSUME IInv, NEW r \in Readers, FetchDirect(r) PROVE IInv'
<1> USE DEF IInv, FetchDirect, Return, writeVars
<1>0. rkey[r] \in Key /\ db[rkey[r]] \in Nat BY DEF CallInv, TypeOK
<1>1. TypeOK' BY <1>0 DEF TypeOK
<1>2. CallInv' BY DEF CallInv, TypeOK
<1>3. VersionInv' BY DEF VersionInv
<1>4. FreshInv' BY DEF FreshInv, TypeOK
<1>5. ReadYourWrites' BY <1>0 DEF ReadYourWrites, VersionInv, CallInv, TypeOK
<1>6. StaleFillExplained' BY DEF StaleFillExplained, DeleteToCome, TypeOK
<1>7. StaleEntryExplained' BY DEF StaleEntryExplained
<1> QED BY <1>1, <1>2, <1>3, <1>4, <1>5, <1>6, <1>7

\* The stored value becomes the entry, with the same guarantees.
LEMMA StoreIInv ==
    ASSUME IInv, NEW r \in Readers, Store(r) PROVE IInv'
<1> USE DEF IInv, Store, Return, writeVars
<1>0. rkey[r] \in Key /\ fetched[r] \in Nat BY DEF CallInv, TypeOK
<1>a. store'[rkey[r]] = [ver |-> fetched[r], by |-> r] /\ store'[rkey[r]] # Empty
  BY <1>0 DEF TypeOK
<1>b. \A k \in Key : k # rkey[r] => store'[k] = store[k]
  BY <1>0 DEF TypeOK
<1>1. TypeOK' BY <1>0 DEF TypeOK
<1>2. CallInv' BY DEF CallInv, TypeOK
<1>3. VersionInv' BY DEF VersionInv
<1>4. FreshInv' BY <1>0, <1>a, <1>b DEF FreshInv, TypeOK
<1>5. ReadYourWrites' BY <1>0 DEF ReadYourWrites, FreshInv, CallInv, TypeOK
<1>6. StaleFillExplained' BY DEF StaleFillExplained, DeleteToCome, TypeOK
<1>7. StaleEntryExplained'
  BY <1>0, <1>a, <1>b DEF StaleEntryExplained, StaleFillExplained, DeleteToCome, TypeOK
<1> QED BY <1>1, <1>2, <1>3, <1>4, <1>5, <1>6, <1>7

LEMMA StoreFailsIInv ==
    ASSUME IInv, NEW r \in Readers, StoreFails(r) PROVE IInv'
<1> USE DEF IInv, StoreFails, Return, writeVars
<1>0. rkey[r] \in Key /\ fetched[r] \in Nat BY DEF CallInv, TypeOK
<1>1. TypeOK' BY <1>0 DEF TypeOK
<1>2. CallInv' BY DEF CallInv, TypeOK
<1>3. VersionInv' BY DEF VersionInv
<1>4. FreshInv' BY DEF FreshInv, TypeOK
<1>5. ReadYourWrites' BY <1>0 DEF ReadYourWrites, FreshInv, CallInv, TypeOK
<1>6. StaleFillExplained' BY DEF StaleFillExplained, DeleteToCome, TypeOK
<1>7. StaleEntryExplained' BY DEF StaleEntryExplained
<1> QED BY <1>1, <1>2, <1>3, <1>4, <1>5, <1>6, <1>7
\* A commit makes entries of the written keys stale, and every one of those
\* keys is either about to be deleted or dirty.
LEMMA ExecuteFunctionIInv ==
    ASSUME IInv, NEW w \in Writers, NEW t \in Tenants, ExecuteFunction(w, t) PROVE IInv'
<1> DEFINE touched == {k \in KeysOf(Written) : k.tenant = t}
<1> USE DEF IInv, ExecuteFunction, readVars
<1>a. /\ db' \in [Key -> Nat]
      /\ \A k \in Key : db[k] <= db'[k] /\ (k \notin touched => db'[k] = db[k])
  BY DEF TypeOK
<1>b. KeysOf(Named) \in SUBSET Key /\ touched \in SUBSET Key
  BY DEF KeysOf
<1>c. \A k \in touched : DeleteToCome(k)'
  BY <1>b DEF DeleteToCome, TypeOK
<1>d. \A k \in Key : DeleteToCome(k) => DeleteToCome(k)'
  BY DEF DeleteToCome, TypeOK
<1>1. TypeOK' BY <1>a, <1>b DEF TypeOK
<1>2. CallInv' BY DEF CallInv, TypeOK
<1>3. VersionInv' BY <1>a DEF VersionInv, TypeOK
<1>4. FreshInv' BY DEF FreshInv, CallInv, TypeOK
<1>5. ReadYourWrites' BY DEF ReadYourWrites, CallInv, TypeOK
<1>6. StaleFillExplained' BY <1>a, <1>c, <1>d DEF StaleFillExplained, CallInv, TypeOK
<1>7. StaleEntryExplained'
  <2>1. \A k \in Key : store[k] # Empty /\ store[k].by \notin late /\ store[k].ver < db'[k]
                         => DeleteToCome(k)'
    BY <1>a, <1>c, <1>d DEF StaleEntryExplained, DeleteToCome, TypeOK
  <2> QED BY <2>1 DEF StaleEntryExplained, DeleteToCome
<1> QED BY <1>1, <1>2, <1>3, <1>4, <1>5, <1>6, <1>7

LEMMA ExecuteFailsIInv ==
    ASSUME IInv, NEW w \in Writers, ExecuteFails(w) PROVE IInv'
<1> USE DEF IInv, ExecuteFails, readVars
<1>1. TypeOK' BY DEF TypeOK
<1>2. CallInv' BY DEF CallInv, TypeOK
<1>3. VersionInv' BY DEF VersionInv
<1>4. FreshInv' BY DEF FreshInv
<1>5. ReadYourWrites' BY DEF ReadYourWrites
<1>6. StaleFillExplained' BY DEF StaleFillExplained, DeleteToCome, TypeOK
<1>7. StaleEntryExplained' BY DEF StaleEntryExplained, TypeOK
<1> QED BY <1>1, <1>2, <1>3, <1>4, <1>5, <1>6, <1>7

LEMMA InvalidateViewIInv ==
    ASSUME IInv, NEW w \in Writers, NEW S \in SUBSET Key, InvalidateView(w, S) PROVE IInv'
<1> USE DEF IInv, InvalidateView, readVars
<1>1. TypeOK' BY DEF TypeOK
<1>2. CallInv' BY DEF CallInv, TypeOK
<1>3. VersionInv' BY DEF VersionInv, TypeOK
<1>4. FreshInv' BY DEF FreshInv, CallInv, TypeOK
<1>5. ReadYourWrites' BY DEF ReadYourWrites, CallInv, TypeOK
<1>6. StaleFillExplained' BY DEF StaleFillExplained, DeleteToCome, TypeOK
<1>7. StaleEntryExplained' BY DEF StaleEntryExplained, TypeOK
<1> QED BY <1>1, <1>2, <1>3, <1>4, <1>5, <1>6, <1>7

\* A delete leaves no entry, and makes every value that waits to be stored
\* under that key late.
LEMMA DeletePatternIInv ==
    ASSUME IInv, NEW w \in Writers, NEW k \in Key, DeletePattern(w, k) PROVE IInv'
<1> USE DEF IInv, DeletePattern, readVars
<1>a. /\ store'[k] = Empty
      /\ \A j \in Key : j # k => store'[j] = store[j]
  BY DEF TypeOK
<1>b. /\ \A x \in Writers : x # w => deleted'[x] = deleted[x] /\ pending'[x] = pending[x]
      /\ deleted'[w] = deleted[w] \cup {k} /\ pending'[w] = pending[w] \ {k}
  BY DEF TypeOK
<1>c. \A j \in Key : j # k /\ DeleteToCome(j) => DeleteToCome(j)'
  BY <1>b DEF DeleteToCome
<1>1. TypeOK' BY DEF TypeOK
<1>2. CallInv' BY DEF CallInv, TypeOK
<1>3. VersionInv' BY DEF VersionInv
<1>4. FreshInv' BY <1>a, <1>b DEF FreshInv
<1>5. ReadYourWrites' BY <1>b DEF ReadYourWrites, CallInv, TypeOK
<1>6. StaleFillExplained' BY <1>c DEF StaleFillExplained, CallInv
<1>7. StaleEntryExplained'
  <2>1. \A j \in Key : store'[j] # Empty /\ store'[j].by \notin late /\ store'[j].ver < db[j]
                         => DeleteToCome(j)'
    BY <1>a, <1>c DEF StaleEntryExplained, DeleteToCome
  <2> QED BY <2>1 DEF StaleEntryExplained, DeleteToCome
<1> QED BY <1>1, <1>2, <1>3, <1>4, <1>5, <1>6, <1>7

\* A lost delete makes its key dirty.
LEMMA DeleteFailsIInv ==
    ASSUME IInv, NEW w \in Writers, NEW k \in Key, DeleteFails(w, k) PROVE IInv'
<1> USE DEF IInv, DeleteFails, readVars
<1>a. \A j \in Key : DeleteToCome(j) => DeleteToCome(j)'
  BY DEF DeleteToCome, TypeOK
<1>1. TypeOK' BY DEF TypeOK
<1>2. CallInv' BY DEF CallInv, TypeOK
<1>3. VersionInv' BY DEF VersionInv
<1>4. FreshInv' BY DEF FreshInv
<1>5. ReadYourWrites' BY DEF ReadYourWrites
<1>6. StaleFillExplained' BY <1>a DEF StaleFillExplained, CallInv
<1>7. StaleEntryExplained' BY <1>a DEF StaleEntryExplained, DeleteToCome
<1> QED BY <1>1, <1>2, <1>3, <1>4, <1>5, <1>6, <1>7

LEMMA WriteCancelledIInv ==
    ASSUME IInv, NEW w \in Writers, WriteCancelled(w) PROVE IInv'
<1> USE DEF IInv, WriteCancelled, readVars
<1>a. \A j \in Key : DeleteToCome(j) => DeleteToCome(j)'
  BY DEF DeleteToCome, TypeOK
<1>1. TypeOK' BY DEF TypeOK
<1>2. CallInv' BY DEF CallInv, TypeOK
<1>3. VersionInv' BY DEF VersionInv
<1>4. FreshInv' BY DEF FreshInv
<1>5. ReadYourWrites' BY DEF ReadYourWrites
<1>6. StaleFillExplained' BY <1>a DEF StaleFillExplained, CallInv
<1>7. StaleEntryExplained' BY <1>a DEF StaleEntryExplained, DeleteToCome
<1> QED BY <1>1, <1>2, <1>3, <1>4, <1>5, <1>6, <1>7

LEMMA WriteReturnsIInv ==
    ASSUME IInv, NEW w \in Writers, WriteReturns(w) PROVE IInv'
<1> USE DEF IInv, WriteReturns, readVars
<1>a. \A j \in Key : DeleteToCome(j) => DeleteToCome(j)'
  BY DEF DeleteToCome, TypeOK
<1>1. TypeOK' BY DEF TypeOK
<1>2. CallInv' BY DEF CallInv, TypeOK
<1>3. VersionInv' BY DEF VersionInv
<1>4. FreshInv' BY DEF FreshInv
<1>5. ReadYourWrites' BY DEF ReadYourWrites
<1>6. StaleFillExplained' BY <1>a DEF StaleFillExplained, CallInv
<1>7. StaleEntryExplained' BY <1>a DEF StaleEntryExplained, DeleteToCome
<1> QED BY <1>1, <1>2, <1>3, <1>4, <1>5, <1>6, <1>7

LEMMA OutsideWriteIInv ==
    ASSUME IInv, NEW k \in Key, OutsideWrite(k) PROVE IInv'
<1> USE DEF IInv, OutsideWrite, readVars, writeVars
<1>a. \A j \in Key : db[j] <= db'[j] /\ (j # k => db'[j] = db[j])
  BY DEF TypeOK
<1>b. DeleteToCome(k)' /\ \A j \in Key : DeleteToCome(j) => DeleteToCome(j)'
  BY DEF DeleteToCome
<1>1. TypeOK' BY DEF TypeOK
<1>2. CallInv' BY DEF CallInv
<1>3. VersionInv' BY <1>a DEF VersionInv, TypeOK
<1>4. FreshInv' BY DEF FreshInv
<1>5. ReadYourWrites' BY DEF ReadYourWrites
<1>6. StaleFillExplained' BY <1>a, <1>b DEF StaleFillExplained, CallInv
<1>7. StaleEntryExplained' BY <1>a, <1>b DEF StaleEntryExplained, DeleteToCome
<1> QED BY <1>1, <1>2, <1>3, <1>4, <1>5, <1>6, <1>7

LEMMA ForgetIInv ==
    ASSUME IInv, NEW S \in SUBSET Key, Forget(S) PROVE IInv'
<1> USE DEF IInv, Forget, readVars, writeVars
<1>a. \A k \in Key : store'[k] = Empty \/ store'[k] = store[k]
  OBVIOUS
<1>1. TypeOK' BY DEF TypeOK
<1>2. CallInv' BY DEF CallInv
<1>3. VersionInv' BY DEF VersionInv
<1>4. FreshInv' BY <1>a DEF FreshInv
<1>5. ReadYourWrites' BY DEF ReadYourWrites
<1>6. StaleFillExplained' BY DEF StaleFillExplained, DeleteToCome
<1>7. StaleEntryExplained' BY <1>a DEF StaleEntryExplained
<1> QED BY <1>1, <1>2, <1>3, <1>4, <1>5, <1>6, <1>7

\* Every step preserves the invariant.
LEMMA NextIInv == IInv /\ [Next]_vars => IInv'
<1> SUFFICES ASSUME IInv, [Next]_vars PROVE IInv'
  OBVIOUS
<1>1. ASSUME NEW r \in Readers, ReadNext(r) PROVE IInv'
  <2>1. ASSUME NEW k \in Key, NEW at \in {"lookup", "direct", "fetch"}, StartRead(r, k, at)
        PROVE  IInv'
    BY <2>1, StartReadIInv
  <2>2. CASE LookupHit(r) BY <2>2, LookupHitIInv
  <2>3. CASE LookupMiss(r) \/ LookupFails(r) \/ FetchFails(r) BY <2>3, ReadMovesIInv
  <2>4. CASE Fetch(r) BY <2>4, FetchIInv
  <2>5. CASE FetchDirect(r) BY <2>5, FetchDirectIInv
  <2>6. CASE Store(r) BY <2>6, StoreIInv
  <2>7. CASE StoreFails(r) BY <2>7, StoreFailsIInv
  <2> QED BY <1>1, <2>1, <2>2, <2>3, <2>4, <2>5, <2>6, <2>7 DEF ReadNext
<1>2. ASSUME NEW w \in Writers, WriteNext(w) PROVE IInv'
  <2>1. ASSUME NEW t \in Tenants, ExecuteFunction(w, t) PROVE IInv'
    BY <2>1, ExecuteFunctionIInv
  <2>2. CASE ExecuteFails(w) BY <2>2, ExecuteFailsIInv
  <2>3. ASSUME NEW v \in Views, InvalidateView(w, KeysOf({v})) PROVE IInv'
    <3>1. KeysOf({v}) \in SUBSET Key BY DEF KeysOf
    <3> QED BY <2>3, <3>1, InvalidateViewIInv
  <2>4. ASSUME NEW k \in Key, InvalidateView(w, {k}) PROVE IInv'
    <3>1. {k} \in SUBSET Key OBVIOUS
    <3> QED BY <2>4, <3>1, InvalidateViewIInv
  <2>5. ASSUME NEW k \in Key, DeletePattern(w, k) PROVE IInv'
    BY <2>5, DeletePatternIInv
  <2>6. ASSUME NEW k \in Key, DeleteFails(w, k) PROVE IInv'
    BY <2>6, DeleteFailsIInv
  <2>7. CASE WriteReturns(w) BY <2>7, WriteReturnsIInv
  <2>8. CASE WriteCancelled(w) BY <2>8, WriteCancelledIInv
  <2> QED BY <1>2, <2>1, <2>2, <2>3, <2>4, <2>5, <2>6, <2>7, <2>8 DEF WriteNext
<1>3. ASSUME NEW k \in Key, OutsideWrite(k) PROVE IInv'
  BY <1>3, OutsideWriteIInv
<1>4. ASSUME NEW k \in Key, Forget({k}) PROVE IInv'
  <2>1. {k} \in SUBSET Key OBVIOUS
  <2> QED BY <1>4, <2>1, ForgetIInv
<1>5. CASE Forget(Key)
  <2>1. Key \in SUBSET Key OBVIOUS
  <2> QED BY <1>5, <2>1, ForgetIInv
<1>6. CASE UNCHANGED vars
  BY <1>6 DEF IInv, TypeOK, CallInv, VersionInv, FreshInv, ReadYourWrites, StaleFillExplained,
              DeleteToCome, StaleEntryExplained, vars, readVars, writeVars
<1> QED BY <1>1, <1>2, <1>3, <1>4, <1>5, <1>6 DEF Next

\* The inductive invariant holds in every reachable state.
THEOREM InvariantHolds == Spec => []IInv
BY InitIInv, NextIInv, PTL DEF Spec

\* Every variable of the cache model keeps its type.
THEOREM TypeCorrect == Spec => []TypeOK
<1>1. IInv => TypeOK BY DEF IInv
<1> QED BY <1>1, InvariantHolds, PTL

\* A read that starts after a write returned shows that write, unless the value
\* was fetched before the delete and stored after it.
THEOREM ReadsSeeWrites == Spec => []ReadYourWrites
<1>1. IInv => ReadYourWrites BY DEF IInv
<1> QED BY <1>1, InvariantHolds, PTL

\* The four causes of a stale entry are the only ones.
THEOREM StalenessIsExplained == Spec => []StaleEntryExplained
<1>1. IInv => StaleEntryExplained BY DEF IInv
<1> QED BY <1>1, InvariantHolds, PTL

-----------------------------------------------------------------------------
\* The decision cache and the registry.
Items == [key : Keys, expires : Int, decision : {"allow", "deny"}]
Marks == {"allow", "deny", "exception"}

DecisionsOK ==
    /\ now \in Nat
    /\ policy \in [Keys -> {"allow", "deny"}]
    /\ entries \in Seq(Items)
    /\ asked \subseteq Calls
    /\ began \in [Calls -> Nat]
    /\ verdict \in [Calls -> {"none", "allow", "deny", "exception", "error"}]
    /\ last \in [Keys -> [Marks -> Nat \cup {Never}]]
    /\ pc \in [Calls -> {"idle", "operation", "field", "sql", "refused", "done"}]
    /\ caller \in [Calls -> Callers \cup {NoCaller}]
    /\ selects \subseteq Calls

RegistryOK ==
    /\ queries \in Seq(Hashes \X Queries)
    /\ apollo \in [Hashes -> Hashes \cup {NoHash}]
    /\ linked \subseteq Hashes \X Hashes
    /\ shared \subseteq Hashes

\* The policy of a key is so now; nothing is noted of the future.
Noted == \A k \in Keys : last[k][policy[k]] = now /\ \A d \in Marks : last[k][d] <= now

\* Whoever is at a gate has a caller; who awaits the authorizer is at a gate, and
\* not for longer than Patience.
Awaited ==
    \A c \in Calls :
        /\ pc[c] \in Gates => caller[c] \in Callers
        /\ c \in asked => AtGate(c) /\ began[c] <= now /\ now - began[c] <= Patience
        /\ verdict[c] # "none" => c \in asked

\* A verdict that may be cached was noted after the evaluation began.
Backed(c) ==
    \/ verdict[c] \in {"allow", "deny"}
    \/ verdict[c] = "exception" /\ pc[c] = "field" /\ make_key(KeyOf(c))

VerdictsHold == \A c \in asked : Backed(c) => last[KeyOf(c)][verdict[c]] >= began[c]

\* An entry expires at most a TTL and an evaluation after its policy was last so.
Until(e, d) == last[e.key][d] # Never /\ e.expires <= last[e.key][d] + TTL + Patience

ItemSound(e) ==
    \/ Until(e, e.decision)
    \/ e.decision = "deny" /\ e.key[2] = "field" /\ Until(e, "exception")

EntriesHold == \A i \in DOMAIN entries : ItemSound(entries[i])

\* The inductive invariant of the decision cache and the calls.
DInv == DecisionsOK /\ Noted /\ Awaited /\ VerdictsHold /\ EntriesHold

\* A primary hash is registered once.
Unique(s) == \A i, j \in DOMAIN s : s[i][1] = s[j][1] => i = j

\* What is linked is registered, and mapped unless it is shared.
LinksHold ==
    \A l \in linked :
        l[2] \in Primaries(queries) /\ (l[1] \notin shared => apollo[l[1]] = l[2])

\* An Apollo hash that is not shared has one owner.
SharedNoted == \A a \in Hashes : a \notin shared => \A g, h \in Owners(a) : g = h

\* The inductive invariant of the registry.
RInv == RegistryOK /\ Unique(queries) /\ LinksHold /\ SharedNoted

USE CallerAssumption, CacheAssumption, CacheBounds DEF Never

LEMMA DroppedSeq ==
  ASSUME NEW S, NEW s \in Seq(S), NEW p \in DOMAIN s
  PROVE  /\ Dropped(s, p) \in Seq(S)
         /\ Len(Dropped(s, p)) = Len(s) - 1
         /\ DOMAIN Dropped(s, p) = 1..(Len(s) - 1)
         /\ \A i \in 1..(Len(s) - 1) :
               Dropped(s, p)[i] = (IF i < p THEN s[i] ELSE s[i + 1])
<1>. DEFINE n == Len(s) - 1
<1>1. /\ n \in Nat /\ Len(s) \in Nat /\ DOMAIN s = 1..Len(s)
      /\ \A i \in 1..Len(s) : s[i] \in S
  OBVIOUS
<1>2. Dropped(s, p) \in [1..n -> S]
  BY <1>1 DEF Dropped
<1>3. Dropped(s, p) \in Seq(S)
  BY <1>1, <1>2, SeqDef
<1>. QED  BY <1>1, <1>2, <1>3 DEF Dropped

\* What is kept is a sequence of sound entries.
Sound(s) == s \in Seq(Items) /\ \A i \in DOMAIN s : ItemSound(s[i])

LEMMA AppendSound == ASSUME NEW s, Sound(s), NEW e \in Items, ItemSound(e) PROVE Sound(Append(s, e))
<1>1. /\ Append(s, e) \in Seq(Items) /\ DOMAIN Append(s, e) = 1..(Len(s) + 1)
      /\ DOMAIN s = 1..Len(s) /\ Len(s) \in Nat
      /\ \A i \in 1..Len(s) : Append(s, e)[i] = s[i]
      /\ Append(s, e)[Len(s) + 1] = e
  BY DEF Sound
<1>. QED  BY <1>1 DEF Sound

LEMMA TailSound == ASSUME NEW s, Sound(s), s # <<>> PROVE Sound(Tail(s))
<1>1. /\ Tail(s) \in Seq(Items) /\ DOMAIN Tail(s) = 1..(Len(s) - 1)
      /\ DOMAIN s = 1..Len(s) /\ Len(s) \in Nat
      /\ \A i \in 1..(Len(s) - 1) : Tail(s)[i] = s[i + 1]
  BY DEF Sound
<1>. QED  BY <1>1 DEF Sound

LEMMA DropSound == ASSUME NEW s, Sound(s), NEW p \in DOMAIN s PROVE Sound(Dropped(s, p))
<1>1. s \in Seq(Items) /\ DOMAIN s = 1..Len(s) /\ Len(s) \in Nat /\ p \in 1..Len(s)
  BY DEF Sound
<1>2. /\ Dropped(s, p) \in Seq(Items)
      /\ DOMAIN Dropped(s, p) = 1..(Len(s) - 1)
      /\ \A i \in 1..(Len(s) - 1) :
            Dropped(s, p)[i] = (IF i < p THEN s[i] ELSE s[i + 1])
  BY <1>1, DroppedSeq
<1>3. \A i \in 1..(Len(s) - 1) : ItemSound(s[i]) /\ ItemSound(s[i + 1])
  BY <1>1 DEF Sound
<1>. QED  BY <1>1, <1>2, <1>3 DEF Sound

LEMMA PlaceKnown == ASSUME NEW k, Known(k)
  PROVE  Place(k) \in DOMAIN entries /\ entries[Place(k)].key = k
  BY DEF Known, Place

LEMMA WithoutSound == ASSUME NEW k, Sound(entries) PROVE Sound(Without(k))
  BY DropSound, PlaceKnown DEF Without

LEMMA TouchSound == ASSUME NEW k, Sound(entries), Known(k)
  PROVE  /\ Sound(Append(Without(k), entries[Place(k)]))
         /\ entries[Place(k)] \in Items /\ ItemSound(entries[Place(k)])
<1>1. entries[Place(k)] \in Items /\ ItemSound(entries[Place(k)])
  BY PlaceKnown DEF Sound
<1>. QED  BY <1>1, WithoutSound, AppendSound

-----------------------------------------------------------------------------
LEMMA Stamped ==
  ASSUME DecisionsOK, Noted, NEW p \in [Keys -> {"allow", "deny"}], NEW t \in Nat, t >= now
  PROVE  /\ Stamp(p, t) \in [Keys -> [Marks -> Nat \cup {Never}]]
         /\ \A k \in Keys : /\ Stamp(p, t)[k][p[k]] = t
                            /\ \A d \in Marks : Stamp(p, t)[k][d] <= t /\ Stamp(p, t)[k][d] >= last[k][d]
<1>. DEFINE L == Stamp(p, t)
<1>1. \A k \in Keys : /\ L[k] = [last[k] EXCEPT ![p[k]] = t]
                      /\ last[k] \in [Marks -> Nat \cup {Never}] /\ p[k] \in Marks
  BY DEF Stamp, DecisionsOK, Marks
<1>2. DOMAIN L = Keys /\ L = [k \in Keys |-> L[k]]
  BY DEF Stamp
<1>. HIDE DEF L
<1>3. \A k \in Keys : /\ L[k] \in [Marks -> Nat \cup {Never}]
                      /\ L[k][p[k]] = t
                      /\ \A d \in Marks : L[k][d] <= t /\ L[k][d] >= last[k][d]
  <2>. SUFFICES ASSUME NEW k \in Keys
                PROVE  /\ L[k] \in [Marks -> Nat \cup {Never}]
                       /\ L[k][p[k]] = t
                       /\ \A d \in Marks : L[k][d] <= t /\ L[k][d] >= last[k][d]
    OBVIOUS
  <2>0. /\ L[k] = [last[k] EXCEPT ![p[k]] = t] /\ p[k] \in Marks
        /\ last[k] \in [Marks -> Nat \cup {Never}]
    BY <1>1
  <2>1. L[k][p[k]] = t /\ L[k] \in [Marks -> Nat \cup {Never}]
    BY <2>0
  <2>2. ASSUME NEW d \in Marks PROVE L[k][d] <= t /\ L[k][d] >= last[k][d]
    <3>1. now \in Nat /\ last[k][d] <= now /\ last[k][d] \in Nat \cup {Never}
      BY <2>0 DEF Noted, DecisionsOK
    <3>2. CASE d = p[k]
      BY <2>1, <3>1, <3>2
    <3>3. CASE d # p[k]
      BY <2>0, <3>1, <3>3
    <3>. QED  BY <3>2, <3>3
  <2>. QED  BY <2>1, <2>2
<1>4. L \in [Keys -> [Marks -> Nat \cup {Never}]]
  BY <1>2, <1>3
<1>. QED  BY <1>3, <1>4 DEF L

\* What is noted later leaves sound what was sound.
LEMMA LaterIsSound ==
  ASSUME DecisionsOK, last' \in [Keys -> [Marks -> Nat \cup {Never}]],
         \A k \in Keys, d \in Marks : last'[k][d] >= last[k][d],
         EntriesHold, UNCHANGED entries
  PROVE  EntriesHold'
<1>. SUFFICES ASSUME NEW i \in DOMAIN entries PROVE ItemSound(entries[i])'
  BY DEF EntriesHold
<1>. DEFINE e == entries[i]
<1>1. e \in Items /\ ItemSound(e)
  BY DEF DecisionsOK, EntriesHold
<1>. HIDE DEF e
<1>2. e.key \in Keys /\ e.decision \in Marks /\ e.expires \in Int
  BY <1>1 DEF Items, Marks
<1>3. \A d \in Marks : Until(e, d) => (last'[e.key][d] # Never /\ e.expires <= last'[e.key][d] + TTL + Patience)
  <2>. SUFFICES ASSUME NEW d \in Marks, Until(e, d)
                PROVE  last'[e.key][d] # Never /\ e.expires <= last'[e.key][d] + TTL + Patience
    OBVIOUS
  <2>1. /\ last[e.key][d] \in Nat \cup {Never} /\ last'[e.key][d] \in Nat \cup {Never}
        /\ last'[e.key][d] >= last[e.key][d]
    BY <1>2 DEF DecisionsOK
  <2>. QED  BY <1>2, <2>1 DEF Until
<1>4. \/ last'[e.key][e.decision] # Never /\ e.expires <= last'[e.key][e.decision] + TTL + Patience
      \/ /\ e.decision = "deny" /\ e.key[2] = "field"
         /\ last'[e.key]["exception"] # Never /\ e.expires <= last'[e.key]["exception"] + TTL + Patience
  BY <1>1, <1>2, <1>3 DEF ItemSound, Marks
<1>. QED  BY <1>4 DEF ItemSound, Until, e

\* A call goes on that does not await the authorizer, or no longer; the others stay.
LEMMA CallMoves ==
  ASSUME DInv, NEW c \in Calls, c \notin asked', verdict'[c] = "none",
         pc'[c] \in Gates => caller'[c] \in Callers,
         \A b \in Calls : b # c =>
            /\ pc'[b] = pc[b] /\ caller'[b] = caller[b] /\ (b \in selects' <=> b \in selects)
            /\ verdict'[b] = verdict[b] /\ began'[b] = began[b] /\ (b \in asked' <=> b \in asked),
         DecisionsOK', EntriesHold', UNCHANGED <<now, policy, last>>
  PROVE  DInv'
<1>1. Noted'
  BY DEF DInv, Noted
<1>2. Awaited'
  <2>. SUFFICES ASSUME NEW b \in Calls
                PROVE  /\ pc'[b] \in Gates => caller'[b] \in Callers
                       /\ b \in asked' => AtGate(b)' /\ began'[b] <= now' /\ now' - began'[b] <= Patience
                       /\ verdict'[b] # "none" => b \in asked'
    BY DEF Awaited
  <2>1. CASE b = c
    BY <2>1
  <2>2. CASE b # c
    BY <2>2 DEF DInv, Awaited, AtGate
  <2>. QED  BY <2>1, <2>2
<1>3. VerdictsHold'
  <2>. SUFFICES ASSUME NEW b \in Calls, b \in asked', Backed(b)'
                PROVE  last'[KeyOf(b)'][verdict'[b]] >= began'[b]
    BY DEF VerdictsHold, DecisionsOK
  <2>1. b # c /\ b \in asked /\ KeyOf(b)' = KeyOf(b) /\ verdict'[b] = verdict[b] /\ began'[b] = began[b]
    BY DEF KeyOf
  <2>2. Backed(b)
    BY <2>1 DEF Backed, make_key
  <2>. QED  BY <2>1, <2>2 DEF DInv, VerdictsHold
<1>. QED  BY <1>1, <1>2, <1>3 DEF DInv

LEMMA DecideMoves ==
  ASSUME DInv, NEW c \in Calls, AtGate(c), NEW d, Decide(c, d)
  PROVE  /\ pc' \in [Calls -> {"idle", "operation", "field", "sql", "refused", "done"}]
         /\ caller' \in [Calls -> Callers \cup {NoCaller}]
         /\ selects' \subseteq Calls
         /\ pc'[c] \in Gates => caller'[c] \in Callers
         /\ \A b \in Calls : b # c =>
               pc'[b] = pc[b] /\ caller'[b] = caller[b] /\ (b \in selects' <=> b \in selects)
         /\ pc'[c] = "refused" <=> d = "deny"
         /\ pc'[c] # "refused" => d = "allow"
<1>1. /\ pc \in [Calls -> {"idle", "operation", "field", "sql", "refused", "done"}]
      /\ caller \in [Calls -> Callers \cup {NoCaller}] /\ selects \subseteq Calls
      /\ pc[c] \in Gates /\ caller[c] \in Callers
  BY DEF DInv, DecisionsOK, Awaited, AtGate
<1>2. CASE d = "deny" /\ Finish(c, "refused")
  BY <1>1, <1>2 DEF Finish, Gates
<1>3. CASE /\ d = "allow"
           /\ pc' = [pc EXCEPT ![c] = IF @ = "operation" THEN "field" ELSE "sql"]
           /\ UNCHANGED <<selects, caller>>
  BY <1>1, <1>3 DEF Gates
<1>. QED  BY <1>2, <1>3 DEF Decide

LEMMA ReplayInv == ASSUME DInv, NEW c \in Calls, ReplayFor(c) PROVE DInv'
<1>. USE DEF ReplayFor, Replay
<1>0. DecisionsOK /\ Sound(entries)
  BY DEF DInv, Sound, DecisionsOK, EntriesHold
<1>1. Known(KeyOf(c)) /\ entries' = Append(Without(KeyOf(c)), entries[Place(KeyOf(c))])
  BY DEF get_hit, Fresh
<1>2. Sound(entries')
  BY <1>0, <1>1, TouchSound
<1>3. EntriesHold' /\ DecisionsOK'
  <2>1. EntriesHold'
    BY <1>2 DEF EntriesHold, Sound, ItemSound, Until
  <2>2. DecisionsOK'
    BY <1>0, <1>2, DecideMoves DEF Sound, DecisionsOK
  <2>. QED  BY <2>1, <2>2
<1>4. c \notin asked /\ verdict[c] = "none"
  BY DEF DInv, Awaited
<1>. QED  BY <1>3, <1>4, DecideMoves, CallMoves

LEMMA AskInv == ASSUME DInv, NEW c \in Calls, AskFor(c) PROVE DInv'
<1>. USE DEF AskFor, Ask, calls
<1>0. DecisionsOK /\ Sound(entries)
  BY DEF DInv, Sound, DecisionsOK, EntriesHold
<1>1. Sound(entries')
  BY <1>0, WithoutSound DEF get_miss
<1>2. EntriesHold'
  BY <1>1 DEF EntriesHold, Sound, ItemSound, Until
<1>3. DecisionsOK' /\ began'[c] = now /\ \A b \in Calls : b # c => began'[b] = began[b]
  BY <1>0, <1>1 DEF DecisionsOK, Sound
<1>4. Noted'
  BY DEF DInv, Noted
<1>5. Awaited'
  BY <1>0, <1>3 DEF DInv, DecisionsOK, Awaited, AtGate
<1>6. verdict[c] = "none"
  BY DEF DInv, Awaited
<1>7. VerdictsHold'
  <2>. SUFFICES ASSUME NEW b \in asked', Backed(b)'
                PROVE  last'[KeyOf(b)'][verdict'[b]] >= began'[b]
    BY DEF VerdictsHold
  <2>1. b # c /\ b \in asked /\ b \in Calls /\ Backed(b) /\ KeyOf(b)' = KeyOf(b)
    BY <1>0, <1>6 DEF Backed, KeyOf, DecisionsOK
  <2>. QED  BY <1>3, <2>1 DEF DInv, VerdictsHold
<1>. QED  BY <1>2, <1>3, <1>4, <1>5, <1>7 DEF DInv

\* The key of a call at a gate.
LEMMA GateKey == ASSUME DInv, NEW c \in Calls, AtGate(c)
  PROVE  KeyOf(c) \in Keys /\ KeyOf(c)[2] = pc[c]
  BY DEF DInv, Awaited, AtGate, KeyOf, Keys

\* Notes that grow, of verdicts and entries that stay.
LEMMA LaterHolds ==
  ASSUME DInv, last' \in [Keys -> [Marks -> Nat \cup {Never}]],
         \A k \in Keys, d \in Marks : last'[k][d] >= last[k][d],
         UNCHANGED <<asked, began, pc, caller>>,
         NEW b \in asked, verdict'[b] = verdict[b], Backed(b)'
  PROVE  last'[KeyOf(b)'][verdict'[b]] >= began'[b]
<1>1. b \in Calls /\ KeyOf(b)' = KeyOf(b) /\ Backed(b) /\ KeyOf(b) \in Keys
  BY GateKey DEF DInv, DecisionsOK, Awaited, Backed, KeyOf
<1>2. last[KeyOf(b)][verdict[b]] >= began[b] /\ verdict[b] \in Marks
  BY <1>1 DEF DInv, VerdictsHold, Backed, Marks
<1>3. /\ last[KeyOf(b)][verdict[b]] \in Int /\ last'[KeyOf(b)][verdict[b]] \in Int
      /\ began[b] \in Int
  BY <1>1, <1>2 DEF DInv, DecisionsOK
<1>4. last'[KeyOf(b)][verdict[b]] >= last[KeyOf(b)][verdict[b]]
  BY <1>1, <1>2
<1>. QED  BY <1>1, <1>2, <1>3, <1>4

LEMMA JudgeInv == ASSUME DInv, NEW c \in Calls, JudgeFor(c) PROVE DInv'
<1>. USE DEF JudgeFor, Judge, calls
<1>. DEFINE k == KeyOf(c)
<1>0. DecisionsOK /\ Noted /\ k \in Keys /\ k[2] = pc[c] /\ now \in Nat /\ c \in asked
  BY GateKey DEF DInv, DecisionsOK
<1>. HIDE DEF k
<1>1. PICK d \in {policy[k], "exception"} \cup (IF k[2] = "field" THEN {"error"} ELSE {}) :
        /\ verdict' = [verdict EXCEPT ![c] = d]
        /\ last' = IF d = "exception" /\ k[2] = "field" /\ make_key(k)
                   THEN [last EXCEPT ![k][d] = now] ELSE last
  BY DEF k
<1>2. d \in {"allow", "deny", "exception", "error"} /\ (d \in {"allow", "deny"} => d = policy[k])
  BY <1>0, <1>1 DEF DecisionsOK
<1>3. /\ last' \in [Keys -> [Marks -> Nat \cup {Never}]]
      /\ \A j \in Keys, m \in Marks : last'[j][m] <= now /\ last'[j][m] >= last[j][m]
      /\ \A j \in Keys : last'[j][policy[j]] = now
  <2>1. /\ last \in [Keys -> [Marks -> Nat \cup {Never}]]
        /\ \A j \in Keys, m \in Marks : last[j][m] <= now /\ last[j][m] \in Int
        /\ \A j \in Keys : last[j][policy[j]] = now /\ policy[j] \in {"allow", "deny"}
    BY <1>0 DEF DecisionsOK, Noted
  <2>2. CASE last' = last
    <3>1. \A j \in Keys, m \in Marks : last[j][m] >= last[j][m]
      BY <2>1
    <3>. QED  BY <2>1, <2>2, <3>1, Zenon
  <2>3. CASE d = "exception" /\ last' = [last EXCEPT ![k][d] = now]
    <3>1. /\ last'[k] = [last[k] EXCEPT !["exception"] = now]
          /\ \A j \in Keys : j # k => last'[j] = last[j]
          /\ "exception" \in Marks
      BY <1>0, <2>1, <2>3 DEF Marks
    <3>2. last'[k] \in [Marks -> Nat \cup {Never}]
      BY <1>0, <2>1, <3>1
    <3>3. \A m \in Marks : last'[k][m] = (IF m = "exception" THEN now ELSE last[k][m])
      BY <1>0, <2>1, <3>1
    <3>4. last' \in [Keys -> [Marks -> Nat \cup {Never}]]
      BY <1>0, <2>1, <2>3, <3>2
    <3>. QED  BY <1>0, <2>1, <3>1, <3>3, <3>4 DEF Marks
  <2>. QED  BY <1>1, <2>2, <2>3
<1>4. DecisionsOK'
  BY <1>0, <1>1, <1>2, <1>3 DEF DecisionsOK
<1>5. Noted'
  BY <1>3 DEF Noted
<1>6. Awaited'
  BY <1>0, <1>1 DEF DInv, DecisionsOK, Awaited, AtGate
<1>7. EntriesHold'
  BY <1>0, <1>3, LaterIsSound DEF DInv
<1>8. VerdictsHold'
  <2>. SUFFICES ASSUME NEW b \in asked, Backed(b)'
                PROVE  last'[KeyOf(b)'][verdict'[b]] >= began'[b]
    BY DEF VerdictsHold
  <2>1. b \in Calls /\ KeyOf(b)' = KeyOf(b) /\ UNCHANGED began
    BY <1>0 DEF DecisionsOK, KeyOf
  <2>2. CASE b # c
    BY <1>0, <1>1, <1>3, <2>1, <2>2, LaterHolds DEF DecisionsOK
  <2>3. CASE b = c
    <3>1. /\ began[c] \in Nat /\ now - began[c] <= Patience /\ began[c] <= now
          /\ verdict'[c] = d /\ KeyOf(c)' = k
      BY <1>0, <1>1, <2>1, <2>3 DEF DInv, DecisionsOK, Awaited, k
    <3>2. last'[k][d] = now
      <4>1. CASE d \in {"allow", "deny"}
        BY <1>0, <1>2, <1>3, <4>1
      <4>2. CASE d = "exception"
        <5>1. k[2] = "field" /\ make_key(k)
          BY <1>0, <2>3, <3>1, <4>2 DEF Backed, make_key
        <5>2. last' = [last EXCEPT ![k][d] = now]
          BY <1>1, <4>2, <5>1
        <5>. QED  BY <1>0, <4>2, <5>2 DEF DecisionsOK, Marks
      <4>3. d # "error"
        BY <2>3, <3>1 DEF Backed
      <4>. QED  BY <1>2, <4>1, <4>2, <4>3
    <3>. QED  BY <1>0, <2>1, <2>3, <3>1, <3>2
  <2>. QED  BY <2>2, <2>3
<1>. QED  BY <1>4, <1>5, <1>6, <1>7, <1>8 DEF DInv

\* An answer that is cached was so when the evaluation began, and is now.
LEMMA PutSound ==
  ASSUME DInv, NEW c \in Calls, AtGate(c), c \in asked, Cacheable(c, KeyOf(c)),
         put(KeyOf(c), Outcome(c))
  PROVE  Sound(entries')
<1>. DEFINE k == KeyOf(c)
            e == [key |-> k, expires |-> now + TTL, decision |-> Outcome(c)]
            s == Append(Without(k), e)
<1>0. DecisionsOK /\ Sound(entries) /\ k \in Keys /\ k[2] = pc[c]
  BY GateKey DEF DInv, Sound, DecisionsOK, EntriesHold
<1>1. e \in Items
  BY <1>0 DEF Items, Outcome, DecisionsOK
<1>2. Backed(c) /\ verdict[c] \in Marks
  BY <1>0 DEF Cacheable, Backed, Marks
<1>3. /\ last[k][verdict[c]] >= began[c] /\ now - began[c] <= Patience
      /\ last[k][verdict[c]] \in Nat \cup {Never} /\ began[c] \in Nat /\ now \in Nat
  BY <1>0, <1>2 DEF DInv, VerdictsHold, Awaited, DecisionsOK
<1>4. Until(e, verdict[c])
  BY <1>0, <1>3 DEF Until
<1>5. \/ e.decision = verdict[c]
      \/ e.decision = "deny" /\ e.key[2] = "field" /\ verdict[c] = "exception"
  BY <1>0 DEF Outcome, Cacheable
<1>6. ItemSound(e)
  BY <1>4, <1>5 DEF ItemSound
<1>7. Sound(s) /\ s # <<>> /\ s \in Seq(Items)
  <2>1. Sound(Without(k))
    BY <1>0, WithoutSound
  <2>2. Sound(s)
    BY <1>1, <1>6, <2>1, AppendSound
  <2>3. Without(k) \in Seq(Items)
    BY <2>1 DEF Sound
  <2>. QED  BY <1>1, <2>2, <2>3 DEF Sound
<1>8. entries' = IF Len(s) > MaxEntries THEN Tail(s) ELSE s
  BY DEF put
<1>. HIDE DEF s
<1>. QED  BY <1>7, <1>8, TailSound

LEMMA ReturnInv == ASSUME DInv, NEW c \in Calls, ReturnFor(c) PROVE DInv'
<1>. USE DEF ReturnFor, Answered
<1>0. DecisionsOK /\ Sound(entries)
  BY DEF DInv, Sound, DecisionsOK, EntriesHold
<1>1. Sound(entries')
  BY <1>0, PutSound
<1>2. EntriesHold'
  BY <1>1 DEF EntriesHold, Sound, ItemSound, Until
<1>3. /\ asked' \subseteq Calls
      /\ began' \in [Calls -> Nat]
      /\ verdict' \in [Calls -> {"none", "allow", "deny", "exception", "error"}]
      /\ verdict'[c] = "none" /\ c \notin asked'
      /\ \A b \in Calls : b # c => /\ verdict'[b] = verdict[b] /\ began'[b] = began[b]
                                   /\ b \in asked' <=> b \in asked
  BY <1>0 DEF DecisionsOK
<1>4. DecisionsOK'
  BY <1>0, <1>1, <1>3, DecideMoves DEF Sound, DecisionsOK
<1>. QED  BY <1>2, <1>3, <1>4, DecideMoves, CallMoves

\* A call moves while the cache stays as it is.
LEMMA StepInv ==
  ASSUME DInv, NEW c \in Calls, c \notin asked, UNCHANGED cacheVars,
         NEW to \in {"operation", "sql", "done"}, NEW who \in Callers \cup {NoCaller},
         to = "operation" => who \in Callers,
         pc' = [pc EXCEPT ![c] = to], caller' = [caller EXCEPT ![c] = who],
         selects' \in {selects, selects \cup {c}, selects \ {c}}
  PROVE  DInv'
<1>. USE DEF cacheVars
<1>0. DecisionsOK /\ verdict[c] = "none"
  BY DEF DInv, Awaited
<1>1. DecisionsOK'
  BY <1>0 DEF DecisionsOK
<1>2. EntriesHold'
  BY DEF DInv, EntriesHold, ItemSound, Until
<1>3. /\ pc'[c] \in Gates => caller'[c] \in Callers
      /\ \A b \in Calls : b # c =>
           pc'[b] = pc[b] /\ caller'[b] = caller[b] /\ (b \in selects' <=> b \in selects)
  BY <1>0 DEF DecisionsOK, Gates
<1>. QED  BY <1>0, <1>1, <1>2, <1>3, CallMoves

LEMMA PathInv ==
  ASSUME DInv, NEW c \in Calls,
         PassFields(c) \/ RunSql(c) \/ \E x \in Shapes : Execute(c, x[1], x[2])
  PROVE  DInv'
<1>0. DecisionsOK /\ (c \in asked => AtGate(c))
  BY DEF DInv, Awaited
<1>1. CASE PassFields(c)
  <2>1. c \notin asked
    BY <1>0, <1>1 DEF PassFields, AtGate
  <2>2. caller' = [caller EXCEPT ![c] = caller[c]] /\ caller[c] \in Callers \cup {NoCaller}
    BY <1>0, <1>1 DEF PassFields, DecisionsOK
  <2>. QED  BY <1>1, <2>1, <2>2, StepInv DEF PassFields
<1>2. CASE RunSql(c)
  <2>1. c \notin asked
    BY <1>0, <1>2 DEF RunSql, AtGate, Gates
  <2>. QED  BY <1>2, <2>1, StepInv DEF RunSql, Finish
<1>3. ASSUME NEW x \in Shapes, Execute(c, x[1], x[2]) PROVE DInv'
  <2>1. c \notin asked
    BY <1>0, <1>3 DEF Execute, AtGate, Gates
  <2>2. x[2] \in Callers
    BY RegistryAssumption
  <2>3. selects' \in {selects, selects \cup {c}, selects \ {c}}
    BY <1>3 DEF Execute
  <2>. QED  BY <1>3, <2>1, <2>2, <2>3, StepInv DEF Execute
<1>. QED  BY <1>1, <1>2, <1>3

LEMMA StampInv ==
  ASSUME DInv, NEW p \in [Keys -> {"allow", "deny"}], policy' = p,
         now' \in Nat, now' >= now, last' = Stamp(p, now'),
         \A c \in asked : now' - began[c] <= Patience,
         UNCHANGED <<entries, asked, began, verdict, calls>>
  PROVE  DInv'
<1>. USE DEF calls
<1>0. DecisionsOK /\ Noted
  BY DEF DInv
<1>1. /\ last' \in [Keys -> [Marks -> Nat \cup {Never}]]
      /\ \A k \in Keys : /\ last'[k][p[k]] = now'
                         /\ \A d \in Marks : last'[k][d] <= now' /\ last'[k][d] >= last[k][d]
  BY <1>0, Stamped
<1>2. DecisionsOK' /\ Noted'
  BY <1>0, <1>1 DEF DecisionsOK, Noted
<1>3. Awaited'
  BY <1>0 DEF DInv, DecisionsOK, Awaited, AtGate
<1>4. EntriesHold'
  BY <1>0, <1>1, LaterIsSound DEF DInv
<1>5. VerdictsHold'
  BY <1>1, LaterHolds DEF VerdictsHold
<1>. QED  BY <1>2, <1>3, <1>4, <1>5 DEF DInv

LEMMA ClockInv ==
  ASSUME DInv, UNCHANGED calls, Tick \/ \E k \in Keys : ChangePolicy(k)
  PROVE  DInv'
<1>0. DecisionsOK /\ now \in Nat /\ policy \in [Keys -> {"allow", "deny"}]
  BY DEF DInv, DecisionsOK
<1>1. CASE Tick
  <2>1. \A c \in asked : now' - began[c] <= Patience
    BY <1>0, <1>1 DEF Tick, DecisionsOK
  <2>. QED  BY <1>0, <1>1, <2>1, StampInv DEF Tick
<1>2. ASSUME NEW k \in Keys, ChangePolicy(k) PROVE DInv'
  <2>1. policy' \in [Keys -> {"allow", "deny"}]
    BY <1>0, <1>2 DEF ChangePolicy
  <2>2. \A c \in asked : now' - began[c] <= Patience
    BY <1>0, <1>2 DEF ChangePolicy, DInv, Awaited, DecisionsOK
  <2>3. /\ now' \in Nat /\ now' >= now /\ last' = Stamp(policy', now')
        /\ UNCHANGED <<entries, asked, began, verdict, calls>>
    BY <1>0, <1>2 DEF ChangePolicy
  <2>. QED  BY <2>1, <2>2, <2>3, StampInv
<1>. QED  BY <1>1, <1>2

LEMMA DFrame == ASSUME DInv, UNCHANGED <<cacheVars, calls>> PROVE DInv'
<1>. USE DEF cacheVars, calls
<1>1. DecisionsOK' /\ Noted'
  BY DEF DInv, DecisionsOK, Noted
<1>2. Awaited' /\ EntriesHold'
  BY DEF DInv, Awaited, AtGate, EntriesHold, ItemSound, Until
<1>3. VerdictsHold'
  BY DEF DInv, VerdictsHold, Backed, KeyOf
<1>. QED  BY <1>1, <1>2, <1>3 DEF DInv

-----------------------------------------------------------------------------
\* The registry.

LEMMA PlaceOfHash == ASSUME NEW s, NEW h \in Primaries(s)
  PROVE  PlaceOf(s, h) \in DOMAIN s /\ s[PlaceOf(s, h)][1] = h
  BY DEF Primaries, PlaceOf

LEMMA PlaceUnique == ASSUME NEW s, Unique(s), NEW i \in DOMAIN s
  PROVE  s[i][1] \in Primaries(s) /\ PlaceOf(s, s[i][1]) = i
<1>1. s[i][1] \in Primaries(s)
  BY DEF Primaries
<1>. QED  BY <1>1, PlaceOfHash DEF Unique

\* Where the item that is at i once item p of n has gone to the end was before.
Origin(n, p, i) == IF i = n THEN p ELSE IF i < p THEN i ELSE i + 1

LEMMA Origins ==
  ASSUME NEW n \in Nat, NEW p \in 1..n
  PROVE  /\ \A i \in 1..n : Origin(n, p, i) \in 1..n
         /\ \A i, j \in 1..n : Origin(n, p, i) = Origin(n, p, j) => i = j
         /\ \A i \in 1..n : \E j \in 1..n : Origin(n, p, j) = i
<1>1. /\ \A i \in 1..n : Origin(n, p, i) \in 1..n
      /\ \A i, j \in 1..n : Origin(n, p, i) = Origin(n, p, j) => i = j
  BY DEF Origin
<1>2. ASSUME NEW i \in 1..n PROVE \E j \in 1..n : Origin(n, p, j) = i
  <2>1. CASE i = p
    BY <2>1 DEF Origin
  <2>2. CASE i < p
    BY <2>2 DEF Origin
  <2>3. CASE i > p
    <3>1. i - 1 \in 1..n /\ Origin(n, p, i - 1) = i
      BY <2>3 DEF Origin
    <3>. QED  BY <3>1
  <2>. QED  BY <2>1, <2>2, <2>3
<1>. QED  BY <1>1, <1>2

LEMMA AppendFacts ==
  ASSUME NEW S, NEW d \in Seq(S), NEW e \in S
  PROVE  /\ Append(d, e) \in Seq(S) /\ DOMAIN Append(d, e) = 1..(Len(d) + 1)
         /\ \A i \in 1..Len(d) : Append(d, e)[i] = d[i]
         /\ Append(d, e)[Len(d) + 1] = e
  OBVIOUS

Moved(s, p) == Append(Dropped(s, p), s[p])

IsMoved(S, m, s, p) ==
    /\ m \in Seq(S) /\ DOMAIN m = DOMAIN s
    /\ \A i \in DOMAIN s : m[i] = s[Origin(Len(s), p, i)]

LEMMA MovedSeq ==
  ASSUME NEW S, NEW s \in Seq(S), NEW p \in DOMAIN s
  PROVE  IsMoved(S, Moved(s, p), s, p)
<1>. DEFINE m == Moved(s, p)
            d == Dropped(s, p)
            n == Len(s)
            e == s[p]
<1>1. DOMAIN s = 1..n /\ n \in Nat /\ e \in S /\ p \in 1..n
  OBVIOUS
<1>2. /\ d \in Seq(S) /\ Len(d) = n - 1
      /\ \A i \in 1..(n - 1) : d[i] = (IF i < p THEN s[i] ELSE s[i + 1])
  BY DroppedSeq
<1>3. m = Append(d, e)
  BY DEF Moved
<1>. HIDE DEF m, d, n, e
<1>4. /\ m \in Seq(S) /\ DOMAIN m = 1..(Len(d) + 1)
      /\ \A i \in 1..Len(d) : m[i] = d[i]
      /\ m[Len(d) + 1] = e
  BY <1>1, <1>2, <1>3, AppendFacts
<1>5. /\ DOMAIN m = 1..n /\ m[n] = e
      /\ \A i \in 1..(n - 1) : m[i] = (IF i < p THEN s[i] ELSE s[i + 1])
  BY <1>1, <1>2, <1>4
<1>6. ASSUME NEW i \in 1..n PROVE m[i] = s[Origin(n, p, i)]
  <2>1. CASE i = n
    BY <1>5, <2>1 DEF Origin, e
  <2>2. CASE i # n
    <3>1. i \in 1..(n - 1)
      BY <1>1, <2>2
    <3>2. m[i] = (IF i < p THEN s[i] ELSE s[i + 1])
      BY <1>5, <3>1
    <3>. QED  BY <2>2, <3>2 DEF Origin
  <2>. QED  BY <2>1, <2>2
<1>. QED  BY <1>1, <1>4, <1>5, <1>6 DEF m, n, IsMoved

\* Using an item changes its place and nothing else.
LEMMA MoveToEnd ==
  ASSUME NEW s \in Seq(Hashes \X Queries), Unique(s), NEW h \in Primaries(s),
         NEW m, m = move_to_end(s, h)
  PROVE  /\ m \in Seq(Hashes \X Queries)
         /\ Unique(m)
         /\ Primaries(m) = Primaries(s)
         /\ \A g \in Primaries(s) : QueryAt(m, g) = QueryAt(s, g)
<1>. DEFINE p == PlaceOf(s, h)
            n == Len(s)
            old(i) == Origin(n, p, i)
<1>1. p \in DOMAIN s /\ DOMAIN s = 1..n /\ n \in Nat
  BY PlaceOfHash
<1>2. m \in Seq(Hashes \X Queries) /\ DOMAIN m = 1..n /\ \A i \in 1..n : m[i] = s[old(i)]
  <2>1. m = Moved(s, p)
    BY DEF move_to_end, Moved
  <2>2. /\ m \in Seq(Hashes \X Queries) /\ DOMAIN m = DOMAIN s
        /\ \A i \in DOMAIN s : m[i] = s[Origin(Len(s), p, i)]
    <3>. DEFINE S == Hashes \X Queries
    <3>1. s \in Seq(S)
      OBVIOUS
    <3>. HIDE DEF p, S
    <3>2. IsMoved(S, m, s, p)
      BY <1>1, <2>1, <3>1, MovedSeq
    <3>. QED  BY <3>2 DEF S, IsMoved
  <2>. QED  BY <1>1, <2>2
<1>3. /\ \A i \in 1..n : old(i) \in 1..n
      /\ \A i, j \in 1..n : old(i) = old(j) => i = j
      /\ \A i \in 1..n : \E j \in 1..n : old(j) = i
  BY <1>1, Origins
<1>. HIDE DEF p, n, old
<1>4. Unique(m)
  <2>. SUFFICES ASSUME NEW i \in 1..n, NEW j \in 1..n, m[i][1] = m[j][1] PROVE i = j
    BY <1>2 DEF Unique
  <2>1. old(i) \in DOMAIN s /\ old(j) \in DOMAIN s /\ s[old(i)][1] = s[old(j)][1]
    BY <1>1, <1>2, <1>3
  <2>2. old(i) = old(j)
    BY <2>1 DEF Unique
  <2>. QED  BY <1>3, <2>2
<1>5. Primaries(m) = Primaries(s)
  <2>1. ASSUME NEW i \in 1..n PROVE m[i][1] \in Primaries(s)
    <3>1. old(i) \in DOMAIN s /\ m[i] = s[old(i)]
      BY <1>1, <1>2, <1>3
    <3>. QED  BY <3>1 DEF Primaries
  <2>2. ASSUME NEW i \in 1..n PROVE s[i][1] \in Primaries(m)
    <3>1. PICK j \in 1..n : old(j) = i
      BY <1>3
    <3>2. m[j] = s[i] /\ j \in DOMAIN m
      BY <1>2, <3>1
    <3>. QED  BY <3>2 DEF Primaries
  <2>3. \A g : g \in Primaries(s) <=> \E i \in 1..n : s[i][1] = g
    BY <1>1 DEF Primaries
  <2>4. \A g : g \in Primaries(m) <=> \E i \in 1..n : m[i][1] = g
    BY <1>2 DEF Primaries
  <2>. QED  BY <2>1, <2>2, <2>3, <2>4
<1>6. ASSUME NEW g \in Primaries(s) PROVE QueryAt(m, g) = QueryAt(s, g)
  <2>. DEFINE a == PlaceOf(m, g)
  <2>1. a \in 1..n /\ m[a][1] = g
    BY <1>2, <1>5, PlaceOfHash
  <2>. HIDE DEF a
  <2>2. s[old(a)][1] = g /\ m[a] = s[old(a)] /\ old(a) \in DOMAIN s
    BY <1>1, <1>2, <1>3, <2>1
  <2>3. PlaceOf(s, g) = old(a)
    BY <2>2, PlaceUnique
  <2>. QED  BY <2>2, <2>3 DEF QueryAt, a
<1>. QED  BY <1>2, <1>4, <1>5, <1>6

\* A new item, and the first one gone if there is no room.
Grown(s, k, x) == Append(IF k = 1 THEN Tail(s) ELSE s, x)

IsGrown(S, r, s, k, x) ==
    /\ r \in Seq(S)
    /\ DOMAIN r = 1..((Len(s) - k) + 1)
    /\ \A i \in 1..(Len(s) - k) : r[i] = s[i + k] /\ i + k \in DOMAIN s
    /\ r[(Len(s) - k) + 1] = x

LEMMA GrownSeq ==
  ASSUME NEW S, NEW s \in Seq(S), NEW x \in S, NEW k \in {0, 1}, k <= Len(s)
  PROVE  IsGrown(S, Grown(s, k, x), s, k, x)
<1>. USE DEF IsGrown
<1>1. CASE k = 1
  <2>. DEFINE t == Tail(s)
  <2>1. /\ t \in Seq(S) /\ Len(t) = Len(s) - 1
        /\ \A i \in 1..(Len(s) - 1) : t[i] = s[i + 1] /\ i + 1 \in DOMAIN s
    BY <1>1
  <2>. HIDE DEF t
  <2>2. Grown(s, k, x) = Append(t, x)
    BY <1>1 DEF Grown, t
  <2>3. /\ Append(t, x) \in Seq(S) /\ DOMAIN Append(t, x) = 1..(Len(t) + 1)
        /\ \A i \in 1..Len(t) : Append(t, x)[i] = t[i]
        /\ Append(t, x)[Len(t) + 1] = x
    BY <2>1, AppendFacts
  <2>. QED  BY <1>1, <2>1, <2>2, <2>3
<1>2. CASE k = 0
  <2>1. Grown(s, k, x) = Append(s, x)
    BY <1>2 DEF Grown
  <2>. QED  BY <1>2, <2>1, AppendFacts
<1>. QED  BY <1>1, <1>2

IsAdded(r, s, k, h, q) ==
    /\ r \in Seq(Hashes \X Queries)
    /\ Unique(r)
    /\ Primaries(r) \subseteq Primaries(s) \cup {h}
    /\ h \in Primaries(r) /\ QueryAt(r, h) = q
    /\ k = 1 => s[1][1] \notin Primaries(r)
    /\ \A g \in Primaries(r) : g # h => QueryAt(r, g) = QueryAt(s, g)

LEMMA AddItem ==
  ASSUME NEW s \in Seq(Hashes \X Queries), Unique(s), NEW q \in Queries, NEW h \in Hashes,
         h \notin Primaries(s), NEW k \in {0, 1}, k <= Len(s),
         NEW r, r = Grown(s, k, <<h, q>>)
  PROVE  IsAdded(r, s, k, h, q)
<1>. DEFINE n == Len(s) - k
            S == Hashes \X Queries
            x == <<h, q>>
<1>1. n \in Nat /\ k \in {0, 1} /\ DOMAIN s = 1..(n + k)
  OBVIOUS
<1>2. s \in Seq(S) /\ x \in S /\ r = Grown(s, k, x)
  OBVIOUS
<1>. HIDE DEF S, x
<1>3. /\ r \in Seq(Hashes \X Queries) /\ DOMAIN r = 1..(n + 1)
      /\ \A i \in 1..n : r[i] = s[i + k] /\ i + k \in DOMAIN s
      /\ r[n + 1] = <<h, q>>
  <2>1. /\ r \in Seq(S)
        /\ DOMAIN r = 1..((Len(s) - k) + 1)
        /\ \A i \in 1..(Len(s) - k) : r[i] = s[i + k] /\ i + k \in DOMAIN s
        /\ r[(Len(s) - k) + 1] = x
    <3>1. IsGrown(S, r, s, k, x)
      BY <1>2, GrownSeq
    <3>. QED  BY <3>1 DEF IsGrown
  <2>. QED  BY <2>1 DEF S, x
<1>. HIDE DEF n
<1>4. /\ \A i \in 1..n : r[i][1] \in Primaries(s) /\ r[i][1] # h
      /\ r[n + 1][1] = h
  <2>1. \A i \in 1..n : r[i][1] \in Primaries(s) /\ r[i][1] # h
    BY <1>3 DEF Primaries
  <2>2. r[n + 1][1] = h
    BY <1>1, <1>3
  <2>. QED  BY <2>1, <2>2
<1>5. Unique(r)
  <2>. SUFFICES ASSUME NEW i \in 1..(n + 1), NEW j \in 1..(n + 1), r[i][1] = r[j][1]
                PROVE  i = j
    BY <1>3 DEF Unique
  <2>1. CASE i \in 1..n /\ j \in 1..n
    <3>1. i + k \in DOMAIN s /\ j + k \in DOMAIN s /\ s[i + k][1] = s[j + k][1]
      BY <1>3, <2>1
    <3>2. i + k = j + k
      BY <3>1 DEF Unique
    <3>. QED  BY <1>1, <2>1, <3>2
  <2>2. CASE i = n + 1 /\ j \in 1..n
    <3>1. r[i][1] = h /\ r[j][1] # h
      BY <1>4, <2>2
    <3>. QED  BY <3>1
  <2>3. CASE j = n + 1 /\ i \in 1..n
    <3>1. r[j][1] = h /\ r[i][1] # h
      BY <1>4, <2>3
    <3>. QED  BY <3>1
  <2>. QED  BY <1>1, <2>1, <2>2, <2>3
<1>6. h \in Primaries(r) /\ QueryAt(r, h) = q
  <2>1. n + 1 \in DOMAIN r /\ r[n + 1][1] = h /\ r[n + 1][2] = q
    BY <1>1, <1>3
  <2>2. r[n + 1][1] \in Primaries(r) /\ PlaceOf(r, r[n + 1][1]) = n + 1
    BY <1>5, <2>1, PlaceUnique
  <2>. QED  BY <2>1, <2>2 DEF QueryAt
<1>7. ASSUME NEW g \in Primaries(r), g # h
      PROVE  /\ g \in Primaries(s) /\ QueryAt(r, g) = QueryAt(s, g)
             /\ k = 1 => g # s[1][1]
  <2>. DEFINE a == PlaceOf(r, g)
  <2>1. a \in 1..(n + 1) /\ r[a][1] = g
    BY <1>3, PlaceOfHash
  <2>2. a \in 1..n
    BY <1>1, <1>3, <1>7, <2>1
  <2>. HIDE DEF a
  <2>3. r[a] = s[a + k] /\ a + k \in DOMAIN s /\ s[a + k][1] = g
    BY <1>3, <2>1, <2>2
  <2>4. PlaceOf(s, g) = a + k /\ g \in Primaries(s)
    BY <2>3, PlaceUnique
  <2>5. ASSUME k = 1 PROVE g # s[1][1]
    <3>1. 1 \in DOMAIN s /\ a + k # 1
      BY <1>1, <2>2, <2>5
    <3>. QED  BY <2>3, <3>1 DEF Unique
  <2>. QED  BY <2>3, <2>4, <2>5 DEF QueryAt, a
<1>8. k = 1 => s[1][1] # h
  <2>1. k = 1 => 1 \in DOMAIN s
    BY <1>1
  <2>. QED  BY <2>1 DEF Primaries
<1>. QED  BY <1>3, <1>5, <1>6, <1>7, <1>8 DEF IsAdded

\* What a registration does to the registry: the hash is there, the evicted is not.
LEMMA Registered ==
  ASSUME RInv, NEW q \in Queries, NEW h \in Hashes,
         queries' = IF h \in Primaries(queries) THEN move_to_end(queries, h) ELSE Added(q, h)
  PROVE  /\ queries' \in Seq(Hashes \X Queries) /\ Unique(queries')
         /\ h \in Primaries(queries')
         /\ h \notin Primaries(queries) /\ Full =>
               queries[1] \in Hashes \X Queries /\ queries[1][1] \in Primaries(queries)
               /\ queries[1][1] \notin Primaries(queries')
<1>. DEFINE old == queries
            new == queries'
<1>0. old \in Seq(Hashes \X Queries) /\ Unique(old)
  BY DEF RInv, RegistryOK
<1>1. CASE h \in Primaries(queries)
  <2>1. new = move_to_end(old, h)
    BY <1>1
  <2>. HIDE DEF old, new
  <2>2. new \in Seq(Hashes \X Queries) /\ Unique(new) /\ Primaries(new) = Primaries(old)
    BY <1>0, <1>1, <2>1, MoveToEnd DEF old
  <2>. QED  BY <1>1, <2>2 DEF old, new
<1>2. CASE h \notin Primaries(queries)
  <2>1. new = Append(IF Full THEN Tail(old) ELSE old, <<h, q>>)
    BY <1>2 DEF Added
  <2>2. Full \in BOOLEAN /\ (Full => Len(old) > 0 /\ 1 \in DOMAIN old) /\ Len(old) \in Nat
    BY <1>0, RegistryAssumption DEF Full
  <2>3. h \notin Primaries(old)
    BY <1>2
  <2>. HIDE DEF old, new
  <2>4. PICK k \in {0, 1} : k = 1 <=> Full
    BY <2>2
  <2>5. new = Grown(old, k, <<h, q>>) /\ k <= Len(old)
    BY <2>1, <2>2, <2>4 DEF Grown
  <2>6. IsAdded(new, old, k, h, q)
    BY <1>0, <2>3, <2>5, AddItem
  <2>7. /\ new \in Seq(Hashes \X Queries) /\ Unique(new) /\ h \in Primaries(new)
        /\ k = 1 => old[1][1] \notin Primaries(new)
    BY <2>6 DEF IsAdded
  <2>8. Full => old[1] \in Hashes \X Queries /\ old[1][1] \in Primaries(old)
    BY <1>0, <2>2 DEF Primaries
  <2>. QED  BY <2>4, <2>7, <2>8 DEF old, new
<1>. QED  BY <1>1, <1>2

LEMMA SharedIsNoted ==
  ASSUME RInv, NoteShared
  PROVE  shared' \subseteq Hashes /\ shared \subseteq shared' /\ SharedNoted'
<1>1. shared' \subseteq Hashes /\ shared \subseteq shared'
  BY DEF NoteShared, RInv, RegistryOK
<1>2. SharedNoted'
  BY DEF NoteShared, SharedNoted
<1>. QED  BY <1>1, <1>2

LEMMA OwnerByLink == ASSUME NEW l \in linked PROVE l[2] \in Owners(l[1])
  BY DEF Owners

LEMMA OwnerByQuery ==
  ASSUME Unique(queries), NEW i \in DOMAIN queries
  PROVE  queries[i][1] \in Owners(Apollo[queries[i][2]])
<1>1. queries[i][1] \in Primaries(queries) /\ PlaceOf(queries, queries[i][1]) = i
  BY PlaceUnique
<1>. QED  BY <1>1 DEF Owners, QueryAt

LEMMA RegisterInv == ASSUME RInv, NEW q \in Queries, Register(q) PROVE RInv'
<1>. DEFINE h == hash_query[TextOf[q]]
<1>1. h \in Hashes
  BY RegistryAssumption
<1>2. queries' \in Seq(Hashes \X Queries) /\ Unique(queries')
  <2>1. queries' = IF h \in Primaries(queries) THEN move_to_end(queries, h) ELSE Added(q, h)
    BY DEF Register
  <2>. HIDE DEF h
  <2>. QED  BY <1>1, <2>1, Registered
<1>3. shared' \subseteq Hashes /\ shared \subseteq shared' /\ SharedNoted'
  BY SharedIsNoted DEF Register
<1>4. /\ linked' = Kept(queries') /\ apollo' = apollo
  BY DEF Register
<1>5. LinksHold'
  BY <1>3, <1>4 DEF RInv, LinksHold, Kept
<1>6. RegistryOK'
  BY <1>2, <1>3, <1>4 DEF RInv, RegistryOK, Kept
<1>. QED  BY <1>2, <1>3, <1>5, <1>6 DEF RInv

\* Whoever is evicted and whoever stays do not own the same hash unless it is
\* shared, so a mapping that is removed is that of nobody who stays.
LEMMA RawInv ==
  ASSUME RInv, NEW q \in Queries, NEW h \in Hashes, register_with_raw_hash(q, h)
  PROVE  RInv'
<1>. DEFINE a == Apollo[q]
            gone == Apollo[queries[1][2]]
            evicts == h \notin Primaries(queries) /\ Full
<1>1. /\ queries' \in Seq(Hashes \X Queries) /\ Unique(queries') /\ h \in Primaries(queries')
      /\ evicts => queries[1] \in Hashes \X Queries /\ queries[1][1] \in Primaries(queries)
                   /\ queries[1][1] \notin Primaries(queries')
  BY Registered DEF register_with_raw_hash
<1>2. shared' \subseteq Hashes /\ shared \subseteq shared' /\ SharedNoted'
  BY SharedIsNoted DEF register_with_raw_hash
<1>3. /\ linked' = Kept(queries') \cup (IF a \in {NoHash, h} THEN {} ELSE {<<a, h>>})
      /\ apollo' = Mapped(q, h)
  BY DEF register_with_raw_hash
<1>4. apollo \in [Hashes -> Hashes \cup {NoHash}] /\ linked \subseteq Hashes \X Hashes
  BY DEF RInv, RegistryOK
<1>5. a \in Hashes \cup {NoHash} /\ NoHash \notin Hashes /\ (evicts => gone \in Hashes \cup {NoHash})
  BY <1>1, RegistryAssumption
<1>6. Unmapped(h) \in [Hashes -> Hashes \cup {NoHash}]
  BY <1>4, <1>5 DEF Unmapped
<1>7. apollo' \in [Hashes -> Hashes \cup {NoHash}] /\ linked' \subseteq Hashes \X Hashes
  BY <1>3, <1>4, <1>5, <1>6 DEF Mapped, Kept
<1>8. ASSUME NEW l \in linked' 
      PROVE  l[2] \in Primaries(queries') /\ (l[1] \notin shared' => apollo'[l[1]] = l[2])
  <2>1. CASE a \notin {NoHash, h} /\ l = <<a, h>>
    BY <1>1, <1>3, <1>5, <1>6, <2>1 DEF Mapped
  <2>2. CASE l \in Kept(queries')
    <3>1. l \in linked /\ l[2] \in Primaries(queries')
      BY <2>2 DEF Kept
    <3>. SUFFICES ASSUME l[1] \notin shared' PROVE apollo'[l[1]] = l[2]
      BY <3>1
    <3>2. l[1] \in Hashes /\ l[1] \notin shared /\ apollo[l[1]] = l[2]
      BY <1>2, <1>4, <3>1 DEF RInv, LinksHold
    <3>3. Unmapped(h)[l[1]] = l[2]
      <4>1. ASSUME evicts, gone = l[1] PROVE FALSE
        <5>1. 1 \in DOMAIN queries /\ Unique(queries) /\ SharedNoted
          BY <4>1, RegistryAssumption DEF RInv, RegistryOK, Full
        <5>2. queries[1][1] \in Owners(gone)
          BY <5>1, OwnerByQuery
        <5>3. l[2] \in Owners(l[1])
          BY <3>1, OwnerByLink
        <5>4. l[2] = queries[1][1]
          BY <3>2, <4>1, <5>1, <5>2, <5>3 DEF SharedNoted
        <5>. QED  BY <1>1, <3>1, <4>1, <5>4
      <4>. QED  BY <1>4, <3>2, <4>1 DEF Unmapped
    <3>4. CASE a \notin {NoHash, h} /\ a = l[1]
      <4>1. <<a, h>> \in linked'
        BY <1>3, <3>4
      <4>2. l[2] \in Owners(l[1])' /\ h \in Owners(a)'
        <5>1. l[2] \in Owners(l[1])'
          BY DEF Owners
        <5>2. h \in Owners(a)'
          BY <4>1 DEF Owners
        <5>. QED  BY <5>1, <5>2
      <4>3. l[2] = h
        BY <1>2, <3>2, <3>4, <4>2 DEF SharedNoted
      <4>. QED  BY <1>3, <1>6, <3>2, <3>4, <4>3 DEF Mapped
    <3>5. CASE a \in {NoHash, h} \/ a # l[1]
      BY <1>3, <1>5, <1>6, <3>2, <3>3, <3>5 DEF Mapped
    <3>. QED  BY <3>4, <3>5
  <2>. QED  BY <1>3, <2>1, <2>2
<1>. QED  BY <1>1, <1>2, <1>7, <1>8 DEF RInv, RegistryOK, LinksHold

LEMMA ClearInv == ASSUME RInv, Clear PROVE RInv'
<1>1. RegistryOK'
  BY DEF Clear, RegistryOK
<1>2. Unique(queries') /\ LinksHold' /\ SharedNoted'
  BY DEF Clear, Unique, LinksHold, SharedNoted, Owners, Primaries
<1>. QED  BY <1>1, <1>2 DEF RInv

LEMMA RFrame == ASSUME RInv, UNCHANGED registry PROVE RInv'
  BY DEF registry, RInv, RegistryOK, LinksHold, SharedNoted, Owners

LEMMA TouchInv ==
  ASSUME RInv, NEW h \in Primaries(queries) \cup {NoHash}, Touch(h),
         UNCHANGED <<apollo, linked, shared>>
  PROVE  RInv'
<1>. DEFINE old == queries
            new == queries'
<1>0. old \in Seq(Hashes \X Queries) /\ Unique(old)
  BY DEF RInv, RegistryOK
<1>1. CASE h = NoHash
  BY <1>1, RFrame DEF Touch, registry
<1>2. CASE h # NoHash
  <2>1. new = move_to_end(old, h) /\ h \in Primaries(old)
    BY <1>2 DEF Touch
  <2>. HIDE DEF old, new
  <2>2. /\ new \in Seq(Hashes \X Queries) /\ Unique(new) /\ Primaries(new) = Primaries(old)
        /\ \A g \in Primaries(old) : QueryAt(new, g) = QueryAt(old, g)
    BY <1>0, <2>1, MoveToEnd
  <2>3. ASSUME NEW a \in Hashes PROVE Owners(a)' = Owners(a)
    BY <2>2 DEF Owners, old, new
  <2>4. SharedNoted'
    BY <2>3 DEF RInv, SharedNoted
  <2>5. LinksHold'
    BY <2>2 DEF RInv, LinksHold, old, new
  <2>. QED  BY <2>2, <2>4, <2>5 DEF RInv, RegistryOK, new
<1>. QED  BY <1>1, <1>2

LEMMA LookupsLead ==
  /\ \A h : LookupHash(h) \in Primaries(queries) \cup {NoHash}
  /\ \A t : LookupText(t) \in Primaries(queries) \cup {NoHash}
<1>1. \A h : Direct(h) \in Primaries(queries) \cup {NoHash}
  BY DEF Direct
<1>2. \A h : ByApollo(h) \in Primaries(queries) \cup {NoHash}
  BY <1>1 DEF ByApollo
<1>3. \A h : LookupHash(h) \in Primaries(queries) \cup {NoHash}
  BY <1>1, <1>2 DEF LookupHash, OrElse
<1>4. \A t : LookupText(t) \in Primaries(queries) \cup {NoHash}
  BY <1>1, <1>2 DEF LookupText, OrElse
<1>. QED  BY <1>3, <1>4

LEMMA LinksLead == RInv => FoundByApollo
<1>. SUFFICES ASSUME RInv, NEW l \in linked, l[1] \notin shared \cup Primaries(queries)
              PROVE  LookupHash(l[1]) = l[2]
  BY DEF FoundByApollo
<1>1. l[2] \in Primaries(queries) /\ apollo[l[1]] = l[2] /\ l[2] # NoHash
  BY RegistryAssumption DEF RInv, LinksHold, RegistryOK
<1>. QED  BY <1>1 DEF LookupHash, OrElse, Direct, ByApollo

-----------------------------------------------------------------------------
LEMMA TurboStarts == TurboInit => DInv /\ RInv
<1>. SUFFICES ASSUME TurboInit PROVE DInv /\ RInv
  OBVIOUS
<1>. USE DEF TurboInit, CacheInit
<1>1. DecisionsOK
  BY DEF DecisionsOK, Marks
<1>2. Noted
  BY DEF Noted, Marks
<1>3. Awaited /\ VerdictsHold /\ EntriesHold
  BY DEF Awaited, Gates, VerdictsHold, EntriesHold
<1>4. RegistryOK
  BY DEF RegistryOK
<1>5. Unique(queries) /\ LinksHold /\ SharedNoted
  BY DEF Unique, LinksHold, SharedNoted, Owners, Primaries
<1>. QED  BY <1>1, <1>2, <1>3, <1>4, <1>5 DEF DInv, RInv

LEMMA TurboSteps == DInv /\ RInv /\ [TurboNext]_turboVars => DInv' /\ RInv'
<1>. SUFFICES ASSUME DInv, RInv, [TurboNext]_turboVars PROVE DInv' /\ RInv'
  OBVIOUS
<1>1. ASSUME NEW q \in Queries, Register(q) PROVE DInv' /\ RInv'
  BY <1>1, RegisterInv, DFrame DEF Register
<1>2. ASSUME NEW x \in Stored, register_with_raw_hash(x[1], x[2]) PROVE DInv' /\ RInv'
  <2>1. x[1] \in Queries /\ x[2] \in Hashes
    BY RegistryAssumption
  <2>. QED  BY <1>2, <2>1, RawInv, DFrame DEF register_with_raw_hash
<1>3. CASE Clear
  BY <1>3, ClearInv, DFrame DEF Clear
<1>4. ASSUME NEW h \in Hashes, get_by_hash(h) PROVE DInv' /\ RInv'
  BY <1>4, LookupsLead, TouchInv, DFrame DEF get_by_hash
<1>5. ASSUME NEW c \in Calls, NEW x \in Shapes, Execute(c, x[1], x[2]) PROVE DInv' /\ RInv'
  <2>1. DInv'
    BY <1>5, PathInv
  <2>2. RInv'
    BY <1>5, LookupsLead, TouchInv DEF Execute
  <2>. QED  BY <2>1, <2>2
<1>6. ASSUME NEW c \in Calls, ReplayFor(c) \/ AskFor(c) \/ JudgeFor(c) \/ ReturnFor(c)
      PROVE  DInv' /\ RInv'
  <2>1. DInv'
    BY <1>6, ReplayInv, AskInv, JudgeInv, ReturnInv
  <2>2. UNCHANGED registry
    BY <1>6 DEF ReplayFor, AskFor, JudgeFor, ReturnFor, Decide
  <2>. QED  BY <2>1, <2>2, RFrame
<1>7. ASSUME NEW c \in Calls, PassFields(c) \/ RunSql(c) PROVE DInv' /\ RInv'
  <2>1. DInv'
    BY <1>7, PathInv
  <2>2. UNCHANGED registry
    BY <1>7 DEF PassFields, RunSql
  <2>. QED  BY <2>1, <2>2, RFrame
<1>8. CASE (Tick \/ \E k \in Keys : ChangePolicy(k)) /\ UNCHANGED <<registry, calls>>
  BY <1>8, ClockInv, RFrame
<1>9. CASE UNCHANGED turboVars
  BY <1>9, DFrame, RFrame DEF turboVars
<1>. QED  BY <1>1, <1>2, <1>3, <1>4, <1>5, <1>6, <1>7, <1>8, <1>9 DEF TurboNext

LEMMA TurboInvariant == TurboSpec => [](DInv /\ RInv)
  BY TurboStarts, TurboSteps, PTL DEF TurboSpec

\* FoundByApollo: a query registered with an Apollo hash is found by it for as long
\* as it is registered (TurboRegistry.register_with_raw_hash, get_by_hash).
THEOREM ApolloHashesLead == TurboSpec => []FoundByApollo
  BY TurboInvariant, LinksLead, PTL

-----------------------------------------------------------------------------
\* What DecisionIsRecent says of a call that leaves a gate.
Justified(c) ==
    IF pc'[c] # "refused" THEN Recently(KeyOf(c), "allow")
    ELSE \/ Recently(KeyOf(c), "deny")
         \/ verdict[c] \in {"error", "exception"}
         \/ pc[c] = "field" /\ Recently(KeyOf(c), "exception")

LEMMA ReplayJustified == ASSUME DInv, NEW c \in Calls, ReplayFor(c) PROVE Justified(c)
<1>. DEFINE k == KeyOf(c)
            e == entries[Place(k)]
<1>1. k \in Keys /\ k[2] = pc[c] /\ AtGate(c)
  BY GateKey DEF ReplayFor
<1>2. Known(k) /\ now < e.expires
  BY DEF ReplayFor, Replay, get_hit, Fresh
<1>3. Place(k) \in DOMAIN entries /\ e.key = k
  BY <1>2 DEF Known, Place
<1>4. e \in Items /\ ItemSound(e)
  BY <1>3 DEF DInv, DecisionsOK, EntriesHold
<1>5. pc'[c] = "refused" <=> e.decision = "deny"
  BY <1>1, DecideMoves DEF ReplayFor, Decision
<1>6. now \in Nat /\ last[k] \in [Marks -> Nat \cup {Never}]
  BY <1>1 DEF DInv, DecisionsOK
<1>. HIDE DEF k, e
<1>7. ASSUME NEW d \in Marks, Until(e, d) PROVE Recently(k, d)
  BY <1>2, <1>3, <1>4, <1>6, <1>7 DEF Until, Recently, Items
<1>8. /\ e.decision \in {"allow", "deny"}
      /\ \/ Until(e, e.decision)
         \/ e.decision = "deny" /\ pc[c] = "field" /\ Until(e, "exception")
  BY <1>1, <1>3, <1>4 DEF ItemSound, Items
<1>. QED  BY <1>5, <1>7, <1>8 DEF Justified, Marks, k

LEMMA ReturnJustified == ASSUME DInv, NEW c \in Calls, ReturnFor(c) PROVE Justified(c)
<1>. DEFINE k == KeyOf(c)
<1>1. k \in Keys /\ AtGate(c) /\ c \in asked /\ verdict[c] # "none"
  BY GateKey DEF ReturnFor, Answered
<1>2. pc'[c] = "refused" <=> Outcome(c) = "deny"
  BY <1>1, DecideMoves DEF ReturnFor
<1>3. /\ now \in Nat /\ began[c] \in Nat /\ last[k] \in [Marks -> Nat \cup {Never}]
      /\ verdict[c] \in {"allow", "deny", "exception", "error"}
      /\ now - began[c] <= Patience
  BY <1>1 DEF DInv, DecisionsOK, Awaited
<1>4. ASSUME verdict[c] \in {"allow", "deny"} PROVE Recently(k, verdict[c])
  <2>1. last[k][verdict[c]] >= began[c]
    BY <1>1, <1>4 DEF DInv, VerdictsHold, Backed
  <2>2. last[k][verdict[c]] \in Nat \cup {Never}
    BY <1>3, <1>4 DEF Marks
  <2>. HIDE DEF k
  <2>. QED  BY <1>3, <2>1, <2>2 DEF Recently
<1>. QED  BY <1>2, <1>3, <1>4 DEF Justified, Outcome

LEMMA DecisionsJustified ==
  ASSUME DInv, TurboNext, NEW c \in Calls, AtGate(c), pc'[c] # pc[c]
  PROVE  Justified(c)
<1>0. pc \in [Calls -> {"idle", "operation", "field", "sql", "refused", "done"}]
  BY DEF DInv, DecisionsOK
<1>1. pc' # pc
  OBVIOUS
<1>2. PICK b \in Calls : \/ \E s \in Shapes : Execute(b, s[1], s[2])
                         \/ ReplayFor(b) \/ AskFor(b) \/ JudgeFor(b) \/ ReturnFor(b)
                         \/ PassFields(b) \/ RunSql(b)
  BY <1>1 DEF TurboNext, Register, register_with_raw_hash, Clear, get_by_hash, calls
<1>3. CASE ReplayFor(b) \/ ReturnFor(b)
  <2>1. AtGate(b) /\ \E d : Decide(b, d)
    BY <1>3 DEF ReplayFor, ReturnFor
  <2>2. b # c => pc'[c] = pc[c]
    BY <2>1, DecideMoves
  <2>. QED  BY <1>3, <2>2, ReplayJustified, ReturnJustified
<1>4. CASE AskFor(b) \/ JudgeFor(b)
  BY <1>1, <1>4 DEF AskFor, JudgeFor, calls
<1>5. CASE \/ \E s \in Shapes : Execute(b, s[1], s[2])
           \/ PassFields(b) \/ RunSql(b)
  <2>1. /\ b = c => ~ AtGate(b)
        /\ \E to : pc' = [pc EXCEPT ![b] = to]
    BY <1>5 DEF Execute, PassFields, RunSql, Finish, AtGate, Gates
  <2>. QED  BY <1>0, <2>1
<1>. QED  BY <1>2, <1>3, <1>4, <1>5

\* DecisionIsRecent: nobody passes a gate, or is refused at it, by a decision that
\* was last so a TTL and an evaluation ago (enforce_operation_value,
\* _authorize_field_value).
THEOREM DecisionsAreRecent == TurboSpec => DecisionIsRecent
<1>1. DInv /\ [TurboNext]_turboVars =>
         [\A c \in Calls : AtGate(c) /\ pc'[c] # pc[c] => Justified(c)]_turboVars
  <2>. SUFFICES ASSUME DInv, TurboNext, NEW c \in Calls, AtGate(c), pc'[c] # pc[c]
                PROVE  Justified(c)
    OBVIOUS
  <2>. QED  BY DecisionsJustified
<1>2. DInv /\ [TurboNext]_turboVars =>
         [\A c \in Calls : AtGate(c) /\ pc'[c] # pc[c] =>
            IF pc'[c] # "refused" THEN Recently(KeyOf(c), "allow")
            ELSE \/ Recently(KeyOf(c), "deny")
                 \/ verdict[c] \in {"error", "exception"}
                 \/ pc[c] = "field" /\ Recently(KeyOf(c), "exception")]_turboVars
  BY <1>1, Zenon DEF Justified
<1>. QED  BY <1>2, TurboInvariant, PTL DEF TurboSpec, DecisionIsRecent
=============================================================================
