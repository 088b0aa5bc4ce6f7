-------------------------- MODULE DataLoaderProofs --------------------------
(***************************************************************************)
(* The safety properties of DataLoader hold for every set of loads and     *)
(* keys, every chunk size and both cache settings.                         *)
(***************************************************************************)
EXTENDS DataLoader, TLAPS

\* A call that has not started owns no future and has no result; a waiting call waits on a
\* future that exists; the promise of the dispatch is neither settled nor dropped yet.
FutureInv ==
    /\ \A c \in Loads : pc[c] = "new" => future[c] = "none" /\ result[c] = "unknown"
    /\ \A c \in Loads :
          pc[c] = "waiting" =>
              waitsOn[c] \in Loads /\ key[c] \in Keys /\ future[waitsOn[c]] # "none"
    /\ promise # NoLoad => future[promise] \in {"pending", "cancelled"} /\ promise \notin aborted
    /\ \A p \in aborted : future[p] # "none"

\* Where the value of a waiting load is: its key is still in the queue of a
\* pending dispatch, or in a chunk the running dispatch has not loaded, or
\* already in the cache.
Covered(c) ==
    \/ dispatch = "yielding" /\ key[c] \in queue
    \/ dispatch = "loading" /\ (key[c] \in batch \cup todo \/ cache[key[c]] # "absent")

CoverInv ==
    \A c \in Loads :
        pc[c] = "waiting" /\ CacheEnabled /\ c \notin late \cup cleared /\ key[c] \in Rows =>
            /\ future[waitsOn[c]] = "pending" /\ waitsOn[c] \notin aborted => Covered(c)
            /\ future[waitsOn[c]] = "resolved" => cache[key[c]] # "absent"

\* A cancelled future was cancelled through one of the loads that waited on it.
CancelInv ==
    /\ \A c \in cancelled : pc[c] = "done"
    /\ \A p \in Loads : future[p] = "cancelled" => \E d \in cancelled : waitsOn[d] = p

\* The inductive invariant.
IInv ==
    /\ TypeOK
    /\ SingleDispatch
    /\ FutureInv
    /\ NoLostWakeup
    /\ CoverInv
    /\ NoneOnlyWhenMissing
    /\ CancelInv
    /\ CancelStaysInBatch

USE NoneAssumption, RowsAssumption, CacheAssumption

\* A chunk is a part of the keys it is cut from.
LEMMA ChunkSubset == \A S : \A b \in Chunks(S) : b \subseteq S
BY DEF Chunks

\* The state the constructor leaves satisfies the invariant.
LEMMA InitIInv == Init => IInv
<1> SUFFICES ASSUME Init PROVE IInv
  OBVIOUS
<1> USE DEF Init
<1>1. TypeOK BY DEF TypeOK, Cached
<1>2. SingleDispatch BY DEF SingleDispatch
<1>3. FutureInv BY DEF FutureInv
<1>4. NoLostWakeup BY DEF NoLostWakeup
<1>5. CoverInv BY DEF CoverInv
<1>6. NoneOnlyWhenMissing BY DEF NoneOnlyWhenMissing
<1>7. CancelInv BY DEF CancelInv
<1>8. CancelStaysInBatch BY DEF CancelStaysInBatch
<1> QED BY <1>1, <1>2, <1>3, <1>4, <1>5, <1>6, <1>7, <1>8 DEF IInv

\* A call answered from the cache disturbs no other call.
LEMMA LoadHitIInv ==
    ASSUME IInv, NEW c \in Loads, NEW k \in Keys, LoadHit(c, k) PROVE IInv'
<1> USE DEF IInv, LoadHit, Finish, loader, dispatcher, history
<1>1. TypeOK' BY DEF TypeOK, Cached
<1>2. SingleDispatch' BY DEF SingleDispatch
<1>3. FutureInv' BY DEF FutureInv, TypeOK
<1>4. NoLostWakeup' BY DEF NoLostWakeup, TypeOK
<1>5. CoverInv' BY DEF CoverInv, Covered, TypeOK
<1>6. NoneOnlyWhenMissing' BY DEF NoneOnlyWhenMissing, TypeOK, Cached
<1>7. CancelInv' BY DEF CancelInv, TypeOK
<1>8. CancelStaysInBatch' BY DEF CancelStaysInBatch, TypeOK, Cached
<1> QED BY <1>1, <1>2, <1>3, <1>4, <1>5, <1>6, <1>7, <1>8

\* A call that misses joins the promise of the dispatch it scheduled or found.
LEMMA LoadMissIInv ==
    ASSUME IInv, NEW c \in Loads, NEW k \in Keys, LoadMiss(c, k) PROVE IInv'
<1> USE DEF IInv, LoadMiss, Finish
<1>1. TypeOK' BY DEF TypeOK, Cached
<1>2. SingleDispatch' BY DEF SingleDispatch, TypeOK
<1>3. FutureInv' BY DEF FutureInv, TypeOK, SingleDispatch
<1>4. NoLostWakeup' BY DEF NoLostWakeup, TypeOK, SingleDispatch, FutureInv
<1>5. CoverInv' BY DEF CoverInv, Covered, TypeOK, SingleDispatch, FutureInv
<1>6. NoneOnlyWhenMissing' BY DEF NoneOnlyWhenMissing, TypeOK, Cached, FutureInv
<1>7. CancelInv' BY DEF CancelInv, TypeOK
<1>8. CancelStaysInBatch'
  <2>1. \A d \in cancelled : waitsOn'[d] = waitsOn[d]
    BY DEF CancelInv, TypeOK
  <2>2. ASSUME NEW d \in Loads, d # c, result'[d] = "cancelled"
        PROVE  \E e \in cancelled' : waitsOn'[e] = waitsOn'[d]
    BY <2>1, <2>2 DEF CancelStaysInBatch, TypeOK
  <2>3. ASSUME result'[c] = "cancelled"
        PROVE  \E e \in cancelled' : waitsOn'[e] = waitsOn'[c]
    BY <2>1, <2>3 DEF CancelInv, FutureInv, TypeOK
  <2> QED BY <2>2, <2>3 DEF CancelStaysInBatch
<1> QED BY <1>1, <1>2, <1>3, <1>4, <1>5, <1>6, <1>7, <1>8

\* A woken call reads the cache; CoverInv says what it finds there.
LEMMA WakeIInv ==
    ASSUME IInv, NEW c \in Loads, Wake(c) PROVE IInv'
<1> USE DEF IInv, Wake, Finish, loader, dispatcher, history
<1>1. TypeOK' BY DEF TypeOK, Cached, FutureInv
<1>2. SingleDispatch' BY DEF SingleDispatch
<1>3. FutureInv' BY DEF FutureInv, TypeOK
<1>4. NoLostWakeup' BY DEF NoLostWakeup, TypeOK
<1>5. CoverInv' BY DEF CoverInv, Covered, TypeOK
<1>6. NoneOnlyWhenMissing' BY DEF NoneOnlyWhenMissing, CoverInv, FutureInv, TypeOK, Cached
<1>7. CancelInv' BY DEF CancelInv, TypeOK
<1>8. CancelStaysInBatch' BY DEF CancelStaysInBatch, CancelInv, FutureInv, TypeOK, Cached
<1> QED BY <1>1, <1>2, <1>3, <1>4, <1>5, <1>6, <1>7, <1>8

\* Cancelling a call cancels the future it shares.
LEMMA CancelIInv ==
    ASSUME IInv, NEW c \in Loads, Cancel(c) PROVE IInv'
<1> USE DEF IInv, Cancel, Finish, loader, dispatcher
<1>1. TypeOK' BY DEF TypeOK, Cached
<1>2. SingleDispatch' BY DEF SingleDispatch
<1>3. FutureInv' BY DEF FutureInv, TypeOK
<1>4. NoLostWakeup' BY DEF NoLostWakeup, FutureInv, TypeOK
<1>5. CoverInv' BY DEF CoverInv, Covered, FutureInv, TypeOK
<1>6. NoneOnlyWhenMissing' BY DEF NoneOnlyWhenMissing, TypeOK, Cached
<1>7. CancelInv' BY DEF CancelInv, FutureInv, TypeOK
<1>8. CancelStaysInBatch' BY DEF CancelStaysInBatch, TypeOK, Cached
<1> QED BY <1>1, <1>2, <1>3, <1>4, <1>5, <1>6, <1>7, <1>8

\* prime() only adds to the cache.
LEMMA PrimeIInv ==
    ASSUME IInv, NEW k \in Keys, Prime(k) PROVE IInv'
<1> USE DEF IInv, Prime, dispatcher, calls, history
<1>1. TypeOK' BY DEF TypeOK, Cached
<1>2. SingleDispatch' BY DEF SingleDispatch
<1>3. FutureInv' BY DEF FutureInv
<1>4. NoLostWakeup' BY DEF NoLostWakeup
<1>5. CoverInv' BY DEF CoverInv, Covered, TypeOK, FutureInv
<1>6. NoneOnlyWhenMissing' BY DEF NoneOnlyWhenMissing
<1>7. CancelInv' BY DEF CancelInv
<1>8. CancelStaysInBatch' BY DEF CancelStaysInBatch
<1> QED BY <1>1, <1>2, <1>3, <1>4, <1>5, <1>6, <1>7, <1>8

\* clear() removes values of waiting loads only into the exempt set `cleared`.
LEMMA ClearIInv ==
    ASSUME IInv, NEW S \in SUBSET Keys, Clear(S) PROVE IInv'
<1> USE DEF IInv, Clear, dispatcher, calls
<1>1. TypeOK' BY DEF TypeOK, Cached
<1>2. SingleDispatch' BY DEF SingleDispatch
<1>3. FutureInv' BY DEF FutureInv
<1>4. NoLostWakeup' BY DEF NoLostWakeup
<1>5. CoverInv' BY DEF CoverInv, Covered, TypeOK, FutureInv
<1>6. NoneOnlyWhenMissing' BY DEF NoneOnlyWhenMissing
<1>7. CancelInv' BY DEF CancelInv
<1>8. CancelStaysInBatch' BY DEF CancelStaysInBatch
<1> QED BY <1>1, <1>2, <1>3, <1>4, <1>5, <1>6, <1>7, <1>8

\* Taking the queue moves its keys, all of them, into the chunks.
LEMMA TakeQueueIInv ==
    ASSUME IInv, TakeQueue PROVE IInv'
<1> USE DEF IInv, TakeQueue, calls, history
<1>0. queue # {} /\ dispatch' = "loading" /\ queue' = {} /\ scheduled' = scheduled
  BY DEF SingleDispatch
<1>b. PICK b \in Chunks(queue) : batch' = b /\ todo' = queue \ b
  BY <1>0
<1>c. batch' \cup todo' = queue /\ batch' \subseteq Keys /\ todo' \subseteq Keys
  BY <1>b, ChunkSubset DEF TypeOK
<1>1. TypeOK' BY <1>0, <1>c DEF TypeOK
<1>2. SingleDispatch' BY <1>0 DEF SingleDispatch
<1>3. FutureInv' BY DEF FutureInv
<1>4. NoLostWakeup' BY <1>0 DEF NoLostWakeup
<1>5. CoverInv' BY <1>0, <1>c DEF CoverInv, Covered
<1>6. NoneOnlyWhenMissing' BY DEF NoneOnlyWhenMissing
<1>7. CancelInv' BY DEF CancelInv
<1>8. CancelStaysInBatch' BY DEF CancelStaysInBatch
<1> QED BY <1>1, <1>2, <1>3, <1>4, <1>5, <1>6, <1>7, <1>8

\* The rows of a loaded chunk are in the cache before the next one starts.
LEMMA BatchLoadedIInv ==
    ASSUME IInv, BatchLoaded PROVE IInv'
<1> USE DEF IInv, BatchLoaded, CacheBatch, calls, history
<1>b. PICK b \in Chunks(todo) : batch' = b /\ todo' = todo \ b
  OBVIOUS
<1>c. batch' \cup todo' = todo /\ batch' \subseteq Keys /\ todo' \subseteq Keys
  BY <1>b, ChunkSubset DEF TypeOK
<1>1. TypeOK' BY <1>c DEF TypeOK, Cached
<1>2. SingleDispatch' BY DEF SingleDispatch
<1>3. FutureInv' BY DEF FutureInv
<1>4. NoLostWakeup' BY DEF NoLostWakeup
<1>5. CoverInv' BY <1>c DEF CoverInv, Covered, TypeOK, FutureInv
<1>6. NoneOnlyWhenMissing' BY DEF NoneOnlyWhenMissing
<1>7. CancelInv' BY DEF CancelInv
<1>8. CancelStaysInBatch' BY DEF CancelStaysInBatch
<1> QED BY <1>1, <1>2, <1>3, <1>4, <1>5, <1>6, <1>7, <1>8

\* The last chunk settles the promise of every load that waits on it.
LEMMA LastBatchLoadedIInv ==
    ASSUME IInv, LastBatchLoaded PROVE IInv'
<1> USE DEF IInv, LastBatchLoaded, CacheBatch, Settle, Reset, calls, history
<1>1. TypeOK' BY DEF TypeOK, Cached
<1>2. SingleDispatch' BY DEF SingleDispatch
<1>3. FutureInv' BY DEF FutureInv, TypeOK, SingleDispatch
<1>4. NoLostWakeup' BY DEF NoLostWakeup, TypeOK, FutureInv
<1>5. CoverInv' BY DEF CoverInv, Covered, NoLostWakeup, TypeOK, FutureInv
<1>6. NoneOnlyWhenMissing' BY DEF NoneOnlyWhenMissing
<1>7. CancelInv' BY DEF CancelInv, TypeOK
<1>8. CancelStaysInBatch' BY DEF CancelStaysInBatch
<1> QED BY <1>1, <1>2, <1>3, <1>4, <1>5, <1>6, <1>7, <1>8

\* A failed chunk rejects the promise: its loads raise and answer nothing.
LEMMA BatchFailedIInv ==
    ASSUME IInv, BatchFailed PROVE IInv'
<1> USE DEF IInv, BatchFailed, Settle, Reset, calls, history
<1>1. TypeOK' BY DEF TypeOK, Cached
<1>2. SingleDispatch' BY DEF SingleDispatch
<1>3. FutureInv' BY DEF FutureInv, TypeOK, SingleDispatch
<1>4. NoLostWakeup' BY DEF NoLostWakeup, TypeOK, FutureInv
<1>5. CoverInv' BY DEF CoverInv, Covered, NoLostWakeup, TypeOK, FutureInv
<1>6. NoneOnlyWhenMissing' BY DEF NoneOnlyWhenMissing
<1>7. CancelInv' BY DEF CancelInv, TypeOK
<1>8. CancelStaysInBatch' BY DEF CancelStaysInBatch
<1> QED BY <1>1, <1>2, <1>3, <1>4, <1>5, <1>6, <1>7, <1>8

\* An aborted chunk drops the promise unsettled: its loads are in `aborted`.
LEMMA BatchAbortedIInv ==
    ASSUME IInv, BatchAborted PROVE IInv'
<1> USE DEF IInv, BatchAborted, Reset, calls
<1>1. TypeOK' BY DEF TypeOK, SingleDispatch
<1>2. SingleDispatch' BY DEF SingleDispatch
<1>3. FutureInv' BY DEF FutureInv, SingleDispatch
<1>4. NoLostWakeup' BY DEF NoLostWakeup
<1>5. CoverInv' BY DEF CoverInv, Covered, NoLostWakeup, TypeOK, FutureInv
<1>6. NoneOnlyWhenMissing' BY DEF NoneOnlyWhenMissing
<1>7. CancelInv' BY DEF CancelInv
<1>8. CancelStaysInBatch' BY DEF CancelStaysInBatch
<1> QED BY <1>1, <1>2, <1>3, <1>4, <1>5, <1>6, <1>7, <1>8

\* Every step of the loader, its callers and its dispatch task preserves IInv.
LEMMA NextIInv == IInv /\ [Next]_vars => IInv'
<1> SUFFICES ASSUME IInv, [Next]_vars PROVE IInv'
  OBVIOUS
<1>1. ASSUME NEW c \in Loads, NEW k \in Keys, LoadHit(c, k) PROVE IInv'
  BY <1>1, LoadHitIInv
<1>2. ASSUME NEW c \in Loads, NEW k \in Keys, LoadMiss(c, k) PROVE IInv'
  BY <1>2, LoadMissIInv
<1>3. ASSUME NEW c \in Loads, Wake(c) PROVE IInv'
  BY <1>3, WakeIInv
<1>4. ASSUME NEW c \in Loads, Cancel(c) PROVE IInv'
  BY <1>4, CancelIInv
<1>5. ASSUME NEW k \in Keys, Prime(k) PROVE IInv'
  BY <1>5, PrimeIInv
<1>6. ASSUME NEW k \in Keys, Clear({k}) PROVE IInv'
  <2>1. {k} \in SUBSET Keys OBVIOUS
  <2> QED BY <1>6, <2>1, ClearIInv
<1>7. CASE Clear(Keys)
  <2>1. Keys \in SUBSET Keys OBVIOUS
  <2> QED BY <1>7, <2>1, ClearIInv
<1>8. CASE TakeQueue BY <1>8, TakeQueueIInv
<1>9. CASE BatchLoaded BY <1>9, BatchLoadedIInv
<1>10. CASE LastBatchLoaded BY <1>10, LastBatchLoadedIInv
<1>11. CASE BatchFailed BY <1>11, BatchFailedIInv
<1>12. CASE BatchAborted BY <1>12, BatchAbortedIInv
<1>13. CASE UNCHANGED vars
  BY <1>13 DEF IInv, TypeOK, SingleDispatch, FutureInv, NoLostWakeup, CoverInv, Covered,
               NoneOnlyWhenMissing, CancelInv, CancelStaysInBatch,
               vars, loader, dispatcher, calls, history
<1> QED
  BY <1>1, <1>2, <1>3, <1>4, <1>5, <1>6, <1>7, <1>8, <1>9, <1>10, <1>11, <1>12, <1>13 DEF Next

\* The inductive invariant holds in every reachable state.
THEOREM InvariantHolds == Spec => []IInv
BY InitIInv, NextIInv, PTL DEF Spec

\* Every variable of the loader keeps its type.
THEOREM TypeCorrect == Spec => []TypeOK
<1>1. IInv => TypeOK BY DEF IInv
<1> QED BY <1>1, InvariantHolds, PTL

\* load() never starts a second dispatch task, and no dispatch finds an empty queue.
THEOREM DispatchIsSingle == Spec => []SingleDispatch
<1>1. IInv => SingleDispatch BY DEF IInv
<1> QED BY <1>1, InvariantHolds, PTL

\* A load waits on a future that no dispatch will settle only when batch_load
\* raised past `except Exception` in its own dispatch.
THEOREM NoCallIsStranded == Spec => []NoLostWakeup
<1>1. IInv => NoLostWakeup BY DEF IInv
<1> QED BY <1>1, InvariantHolds, PTL

\* Only a late or a cleared load is answered None for a key that has a row.
THEOREM NoneIsJustified == Spec => []NoneOnlyWhenMissing
<1>1. IInv => NoneOnlyWhenMissing BY DEF IInv
<1> QED BY <1>1, InvariantHolds, PTL

\* A cancellation reaches only the loads that share its promise.
THEOREM CancelIsContained == Spec => []CancelStaysInBatch
<1>1. IInv => CancelStaysInBatch BY DEF IInv
<1> QED BY <1>1, InvariantHolds, PTL
=============================================================================
