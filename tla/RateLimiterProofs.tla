-------------------------- MODULE RateLimiterProofs --------------------------
(***************************************************************************)
(* Proofs about RateLimiter for any number of keys and calls, any limits   *)
(* and any size of the connection pool.                                    *)
(*                                                                         *)
(* A call takes part in the limit of a window from the moment it has       *)
(* counted it, before anything of it can be seen: the invariants speak of  *)
(* those calls too.  When a call counts, the calls let through in its      *)
(* window are the ones it sees and the ones that hold a connection, its    *)
(* own included.                                                           *)
(*                                                                         *)
(* A refused client was told to wait by the oldest entry; the second       *)
(* invariant keeps, of each refusal, how many entries stay until then and  *)
(* how many are left a second later.                                       *)
(***************************************************************************)
EXTENDS RateLimiter, FiniteSetTheorems, TLAPS

-----------------------------------------------------------------------------
(* The inductive invariant                                                 *)

\* Calls that may be let through as far as the minute goes.
PassedMinute ==
    {r \in Calls : \/ verdict[r] = "allowed"
                   \/ pc[r] \in {"counted", "decided"} /\ Cardinality(inMinute[r]) < PerMinute}

MinuteLoad(k, t) ==
    {r \in PassedMinute : key[r] = k /\ stamp[r] > t - Minute /\ start[r] <= t}

HourAge == IF backend = "memory" THEN Hour ELSE Hour - Patience

\* Times and steps of a call.
CallsSound ==
    \A r \in Calls :
        /\ stamp[r] <= clock /\ start[r] <= clock
        /\ pc[r] \notin {"new", "waiting"} => stamp[r] <= start[r]
        /\ backend = "memory" => pc[r] \in {"new", "done"}
        /\ r \in Open => clock <= start[r] + Patience
        /\ verdict[r] # "none" <=> pc[r] = "done"
        /\ pc[r] \in {"waiting", "open", "counted", "decided", "done"} => key[r] \in Keys

\* The entry of a call that was let through stays until it is old.
EntriesSound ==
    \A r \in Calls :
        verdict[r] = "allowed" =>
            /\ r \in minute \/ stamp[r] < clock - (IF backend = "memory" THEN Minute ELSE Hour)
            /\ r \in hour \/ stamp[r] < clock - Hour

MinuteBound == \A k \in Keys, t \in 0..clock : Cardinality(MinuteLoad(k, t)) <= PerMinute + Overshoot

IInv == TypeOK /\ CallsSound /\ Cardinality(Open) <= Conns /\ EntriesSound
        /\ MinuteBound /\ AdmittedPerHour

-----------------------------------------------------------------------------
(* Counting                                                                *)

LEMMA CallSets == ASSUME NEW S, S \subseteq Calls
                  PROVE  IsFiniteSet(S) /\ Cardinality(S) \in Nat
  BY CallAssumption, FS_Subset, FS_CardinalityType

LEMMA Fewer == ASSUME NEW S, NEW T, T \subseteq Calls, S \subseteq T
               PROVE  Cardinality(S) <= Cardinality(T)
  BY CallAssumption, FS_Subset

LEMMA OneMore == ASSUME NEW S, NEW T, T \subseteq Calls, NEW r \in Calls, S \subseteq T \cup {r}
                 PROVE  Cardinality(S) <= Cardinality(T) + 1
<1>1. IsFiniteSet(T)
  BY CallSets
<1>2. Cardinality(T \cup {r}) <= Cardinality(T) + 1
  <2>1. CASE r \in T
    <3>1. T \cup {r} = T
      BY <2>1
    <3>. QED  BY <3>1, CallSets
  <2>2. CASE r \notin T
    BY <1>1, <2>2, FS_AddElement, CallSets
  <2>. QED  BY <2>1, <2>2
<1>3. T \cup {r} \subseteq Calls
  OBVIOUS
<1>4. Cardinality(S) <= Cardinality(T \cup {r})
  BY <1>3, Fewer
<1>. QED  BY <1>2, <1>3, <1>4, CallSets

LEMMA Sum == ASSUME NEW S, NEW T, NEW U, T \subseteq Calls, U \subseteq Calls, S \subseteq T \cup U
             PROVE  Cardinality(S) <= Cardinality(T) + Cardinality(U)
<1>1. IsFiniteSet(T) /\ IsFiniteSet(U) /\ Cardinality(T \cap U) \in Nat
  BY CallSets
<1>2. Cardinality(T \cup U) = Cardinality(T) + Cardinality(U) - Cardinality(T \cap U)
  BY <1>1, FS_Union
<1>3. Cardinality(S) <= Cardinality(T \cup U)
  BY Fewer
<1>. QED  BY <1>1, <1>2, <1>3, CallSets

LEMMA Limits == ASSUME TypeOK
                PROVE  /\ PerMinute \in Nat /\ config.perHour \in Nat
                       /\ Overshoot \in Nat
  BY ConfigAssumption, ConnAssumption DEF TypeOK, PerMinute, AtLeast, Overshoot

\* A step that lets no call through that was not counted keeps the bounds.
LEMMA BoundsKept ==
  ASSUME IInv, TypeOK', UNCHANGED <<backend, config, clock>>,
         \A k \in Keys, t \in 0..clock : MinuteLoad(k, t)' \subseteq MinuteLoad(k, t),
         \A k \in Keys, t \in 0..clock :
             Within(k, HourAge, t)' \subseteq Within(k, HourAge, t)
  PROVE  MinuteBound' /\ AdmittedPerHour'
<1>1. PerMinute' = PerMinute /\ Overshoot' = Overshoot /\ HourAge' = HourAge
  BY DEF PerMinute, Overshoot, HourAge
<1>2. MinuteBound'
  <2>. SUFFICES ASSUME NEW k \in Keys, NEW t \in 0..clock
                PROVE  Cardinality(MinuteLoad(k, t)') <= PerMinute + Overshoot
    BY <1>1 DEF MinuteBound
  <2>1. MinuteLoad(k, t) \subseteq Calls
    BY DEF MinuteLoad, PassedMinute
  <2>2. MinuteLoad(k, t)' \subseteq Calls
    BY <2>1
  <2>3. Cardinality(MinuteLoad(k, t)') <= Cardinality(MinuteLoad(k, t))
    BY <2>1, Fewer
  <2>4. Cardinality(MinuteLoad(k, t)) <= PerMinute + Overshoot
    BY DEF IInv, MinuteBound
  <2>. QED  BY <2>1, <2>2, <2>3, <2>4, CallSets, Limits DEF IInv
<1>3. AdmittedPerHour'
  <2>. SUFFICES ASSUME NEW k \in Keys, NEW t \in 0..clock
                PROVE  Cardinality(Within(k, HourAge, t)') <= config.perHour + Overshoot
    BY <1>1 DEF AdmittedPerHour, HourAge
  <2>1. Within(k, HourAge, t) \subseteq Calls
    BY DEF Within, Of, Admitted
  <2>2. Within(k, HourAge, t)' \subseteq Calls
    BY <2>1
  <2>3. Cardinality(Within(k, HourAge, t)') <= Cardinality(Within(k, HourAge, t))
    BY <2>1, Fewer
  <2>4. Cardinality(Within(k, HourAge, t)) <= config.perHour + Overshoot
    BY DEF IInv, AdmittedPerHour, HourAge
  <2>. QED  BY <2>1, <2>2, <2>3, <2>4, CallSets, Limits DEF IInv
<1>. QED  BY <1>2, <1>3

LEMMA OpenKept == ASSUME IInv, Open' \subseteq Open PROVE Cardinality(Open') <= Conns
<1>1. Open \subseteq Calls /\ Open' \subseteq Calls
  BY DEF Open
<1>2. Cardinality(Open') <= Cardinality(Open)
  BY <1>1, Fewer
<1>. QED  BY <1>1, <1>2, CallSets, ConnAssumption DEF IInv

-----------------------------------------------------------------------------
(* The steps                                                               *)

LEMMA Waits == ASSUME NEW x \in Int PROVE Seconds(x) \in Int
  BY TimeAssumption DEF Seconds

LEMMA CleanupExpiredInv ==
  ASSUME IInv, CleanupExpired
  PROVE  IInv'
<1>. USE DEF IInv, CleanupExpired, stores, call, result
<1>1. TypeOK'
  BY TimeAssumption DEF TypeOK
<1>2. CallsSound'
  BY TimeAssumption DEF TypeOK, CallsSound, Open
<1>3. Open' \subseteq Open
  BY DEF TypeOK, Open
<1>4. EntriesSound'
  BY TimeAssumption DEF TypeOK, CallsSound, EntriesSound, Open
<1>5. ASSUME NEW k0 \in Keys, NEW t0 \in 0..clock
      PROVE  MinuteLoad(k0, t0)' \subseteq MinuteLoad(k0, t0)
  BY DEF TypeOK, CallsSound, MinuteLoad, PassedMinute, PerMinute, AtLeast
<1>6. ASSUME NEW k0 \in Keys, NEW t0 \in 0..clock
      PROVE  Within(k0, HourAge, t0)' \subseteq Within(k0, HourAge, t0)
  BY DEF TypeOK, CallsSound, Within, Of, Admitted, Fits, IsAllowed, HourAge, PerMinute, AtLeast
<1>7. UNCHANGED <<backend, config, clock>>
  OBVIOUS
<1>. QED  BY <1>1, <1>2, <1>3, <1>4, <1>5, <1>6, <1>7, BoundsKept, OpenKept

LEMMA MemoryCleanInv ==
  ASSUME IInv, NEW k \in Keys, MemoryClean(k)
  PROVE  IInv'
<1>. USE DEF IInv, MemoryClean, Clean, stores, call, result
<1>1. TypeOK'
  BY TimeAssumption DEF TypeOK
<1>2. CallsSound'
  BY TimeAssumption DEF TypeOK, CallsSound, Open
<1>3. Open' \subseteq Open
  BY DEF TypeOK, Open
<1>4. EntriesSound'
  BY TimeAssumption DEF TypeOK, CallsSound, EntriesSound, Open
<1>5. ASSUME NEW k0 \in Keys, NEW t0 \in 0..clock
      PROVE  MinuteLoad(k0, t0)' \subseteq MinuteLoad(k0, t0)
  BY DEF TypeOK, CallsSound, MinuteLoad, PassedMinute, PerMinute, AtLeast
<1>6. ASSUME NEW k0 \in Keys, NEW t0 \in 0..clock
      PROVE  Within(k0, HourAge, t0)' \subseteq Within(k0, HourAge, t0)
  BY DEF TypeOK, CallsSound, Within, Of, Admitted, Fits, IsAllowed, HourAge, PerMinute, AtLeast
<1>7. UNCHANGED <<backend, config, clock>>
  OBVIOUS
<1>. QED  BY <1>1, <1>2, <1>3, <1>4, <1>5, <1>6, <1>7, BoundsKept, OpenKept

LEMMA PgStartInv ==
  ASSUME IInv, NEW r \in Calls, NEW k \in Keys, PgStart(r, k)
  PROVE  IInv'
<1>. USE DEF IInv, PgStart, Begin, stores, result
<1>1. TypeOK'
  BY TimeAssumption DEF TypeOK
<1>2. CallsSound'
  BY TimeAssumption DEF TypeOK, CallsSound, Open
<1>3. Open' \subseteq Open
  BY DEF TypeOK, Open
<1>4. EntriesSound'
  BY TimeAssumption DEF TypeOK, CallsSound, EntriesSound, Open
<1>5. ASSUME NEW k0 \in Keys, NEW t0 \in 0..clock
      PROVE  MinuteLoad(k0, t0)' \subseteq MinuteLoad(k0, t0)
  BY DEF TypeOK, CallsSound, MinuteLoad, PassedMinute, PerMinute, AtLeast
<1>6. ASSUME NEW k0 \in Keys, NEW t0 \in 0..clock
      PROVE  Within(k0, HourAge, t0)' \subseteq Within(k0, HourAge, t0)
  BY DEF TypeOK, CallsSound, Within, Of, Admitted, Fits, IsAllowed, HourAge, PerMinute, AtLeast
<1>7. UNCHANGED <<backend, config, clock>>
  OBVIOUS
<1>. QED  BY <1>1, <1>2, <1>3, <1>4, <1>5, <1>6, <1>7, BoundsKept, OpenKept

LEMMA PgAdmitInv ==
  ASSUME IInv, NEW r \in Calls, PgAdmit(r)
  PROVE  IInv'
<1>. USE DEF IInv, PgAdmit, Answer, call
<1>1. TypeOK'
  BY TimeAssumption DEF TypeOK, Told
<1>2. CallsSound'
  BY TimeAssumption DEF TypeOK, CallsSound, Open, Outdated, Fits, IsAllowed
<1>3. Open' \subseteq Open
  BY DEF TypeOK, Open
<1>4. EntriesSound'
  BY TimeAssumption DEF TypeOK, CallsSound, EntriesSound, Open, Outdated, Fits, IsAllowed
<1>5. ASSUME NEW k0 \in Keys, NEW t0 \in 0..clock
      PROVE  MinuteLoad(k0, t0)' \subseteq MinuteLoad(k0, t0)
  BY DEF TypeOK, CallsSound, MinuteLoad, PassedMinute, PerMinute, AtLeast, Outdated, Fits, IsAllowed
<1>6. ASSUME NEW k0 \in Keys, NEW t0 \in 0..clock
      PROVE  Within(k0, HourAge, t0)' \subseteq Within(k0, HourAge, t0)
  BY DEF TypeOK, CallsSound, Within, Of, Admitted, Fits, IsAllowed, HourAge, PerMinute, AtLeast, Outdated, Fits, IsAllowed
<1>7. UNCHANGED <<backend, config, clock>>
  OBVIOUS
<1>. QED  BY <1>1, <1>2, <1>3, <1>4, <1>5, <1>6, <1>7, BoundsKept, OpenKept

LEMMA PgFailInv ==
  ASSUME IInv, NEW r \in Calls, PgFail(r)
  PROVE  IInv'
<1>. USE DEF IInv, PgFail, Forget, stores, result
<1>1. TypeOK'
  BY TimeAssumption DEF TypeOK
<1>2. CallsSound'
  BY TimeAssumption DEF TypeOK, CallsSound, Open
<1>3. Open' \subseteq Open
  BY DEF TypeOK, Open
<1>4. EntriesSound'
  BY TimeAssumption DEF TypeOK, CallsSound, EntriesSound, Open
<1>5. ASSUME NEW k0 \in Keys, NEW t0 \in 0..clock
      PROVE  MinuteLoad(k0, t0)' \subseteq MinuteLoad(k0, t0)
  BY DEF TypeOK, CallsSound, MinuteLoad, PassedMinute, PerMinute, AtLeast
<1>6. ASSUME NEW k0 \in Keys, NEW t0 \in 0..clock
      PROVE  Within(k0, HourAge, t0)' \subseteq Within(k0, HourAge, t0)
  BY DEF TypeOK, CallsSound, Within, Of, Admitted, Fits, IsAllowed, HourAge, PerMinute, AtLeast
<1>7. UNCHANGED <<backend, config, clock>>
  OBVIOUS
<1>. QED  BY <1>1, <1>2, <1>3, <1>4, <1>5, <1>6, <1>7, BoundsKept, OpenKept

\* The client is told the wait in seconds, and one at least.
LEMMA ToldWait ==
  ASSUME NEW v, NEW w \in Int
  PROVE  /\ Told(v, w) \in Int
         /\ v # "allowed" => Told(v, w) >= w /\ (Told(v, w) > 1 => Told(v, w) = w)
  BY DEF Told, AtLeast

LEMMA PgRefuseInv ==
  ASSUME IInv, NEW r \in Calls, PgRefuse(r)
  PROVE  IInv'
<1>. USE DEF IInv
<1>1. PICK v \in {"minute", "hour"}, w \in Int : Answer(r, v, w)
  <2>1. ASSUME NEW S, S \subseteq Calls, NEW age \in Nat, NEW w \in WaitFor(r, S, age)
        PROVE  w \in Int
    BY <2>1, Waits, TimeAssumption DEF WaitFor, Until, Oldest, Of, TypeOK
  <2>2. \A w \in WaitFor(r, minute, Minute) : w \in Int
    BY <2>1, TimeAssumption DEF TypeOK
  <2>3. \A w \in WaitFor(r, hour, Hour) : w \in Int
    BY <2>1, TimeAssumption DEF TypeOK
  <2>. QED  BY <2>2, <2>3 DEF PgRefuse
<1>. USE <1>1 DEF PgRefuse, Answer, call
<1>2. TypeOK'
  BY ToldWait DEF TypeOK
<1>3. CallsSound'
  BY TimeAssumption DEF TypeOK, CallsSound, Open
<1>4. Open' \subseteq Open
  BY DEF TypeOK, Open
<1>5. EntriesSound'
  BY TimeAssumption DEF TypeOK, CallsSound, EntriesSound, Open, Outdated
<1>6. ASSUME NEW k \in Keys, NEW t \in 0..clock
      PROVE  MinuteLoad(k, t)' \subseteq MinuteLoad(k, t)
  BY DEF TypeOK, CallsSound, MinuteLoad, PassedMinute, PerMinute, AtLeast
<1>7. ASSUME NEW k \in Keys, NEW t \in 0..clock
      PROVE  Within(k, HourAge, t)' \subseteq Within(k, HourAge, t)
  BY DEF TypeOK, CallsSound, Within, Of, Admitted, Fits, IsAllowed, HourAge, PerMinute, AtLeast
<1>8. UNCHANGED <<backend, config, clock>>
  OBVIOUS
<1>. QED  BY <1>2, <1>3, <1>4, <1>5, <1>6, <1>7, <1>8, BoundsKept, OpenKept

LEMMA PgConnectInv ==
  ASSUME IInv, NEW r \in Calls, PgConnect(r)
  PROVE  IInv'
<1>. USE DEF IInv, PgConnect, stores, call, result
<1>1. TypeOK'
  BY DEF TypeOK
<1>2. CallsSound'
  BY TimeAssumption DEF TypeOK, CallsSound, Open
<1>3. Cardinality(Open') <= Conns
  <2>1. Open \subseteq Calls /\ Open' \subseteq Open \cup {r}
    BY DEF TypeOK, Open
  <2>2. Cardinality(Open') <= Cardinality(Open) + 1
    BY <2>1, OneMore
  <2>3. Open' \subseteq Calls
    BY <2>1
  <2>. QED  BY <2>1, <2>2, <2>3, CallSets, ConnAssumption
<1>4. EntriesSound'
  BY TimeAssumption DEF TypeOK, CallsSound, EntriesSound
<1>5. ASSUME NEW k \in Keys, NEW t \in 0..clock
      PROVE  MinuteLoad(k, t)' \subseteq MinuteLoad(k, t)
  BY DEF TypeOK, CallsSound, MinuteLoad, PassedMinute, PerMinute, AtLeast
<1>6. ASSUME NEW k \in Keys, NEW t \in 0..clock
      PROVE  Within(k, HourAge, t)' \subseteq Within(k, HourAge, t)
  BY DEF TypeOK, CallsSound, Within, Of, Admitted, Fits, IsAllowed, HourAge, PerMinute, AtLeast
<1>7. UNCHANGED <<backend, config, clock>>
  OBVIOUS
<1>. QED  BY <1>1, <1>2, <1>3, <1>4, <1>5, <1>6, <1>7, BoundsKept

\* What call r counts, the calls that hold a connection, and no other.
LEMMA PgCountMinuteInv ==
  ASSUME IInv, NEW r \in Calls, PgCountMinute(r)
  PROVE  IInv'
<1>. USE DEF IInv, PgCountMinute, stores, call, result
<1>1. TypeOK'
  BY DEF TypeOK, Recent, Of
<1>2. CallsSound'
  BY TimeAssumption DEF TypeOK, CallsSound, Open
<1>3. Open' = Open /\ Open \subseteq Calls /\ r \in Open
  BY DEF TypeOK, Open
<1>4. EntriesSound'
  BY TimeAssumption DEF TypeOK, CallsSound, EntriesSound
<1>5. UNCHANGED <<PerMinute, Overshoot, HourAge>>
  BY DEF PerMinute, Overshoot, HourAge
<1>6. MinuteBound'
  <2>. SUFFICES ASSUME NEW k \in Keys, NEW t \in 0..clock
                PROVE  Cardinality(MinuteLoad(k, t)') <= PerMinute + Overshoot
    BY <1>5 DEF MinuteBound
  <2>0. /\ MinuteLoad(k, t) \subseteq Calls
        /\ MinuteLoad(k, t)' \subseteq Calls
        /\ Recent(r, minute, Minute) \subseteq Calls
    BY DEF MinuteLoad, PassedMinute, Recent, Of, TypeOK
  <2>1. CASE MinuteLoad(k, t)' \subseteq MinuteLoad(k, t)
    <3>1. Cardinality(MinuteLoad(k, t)') <= Cardinality(MinuteLoad(k, t))
      BY <2>0, <2>1, Fewer
    <3>2. Cardinality(MinuteLoad(k, t)) <= PerMinute + Overshoot
      BY DEF MinuteBound
    <3>. QED  BY <3>1, <3>2, <2>0, CallSets, Limits
  <2>2. CASE ~ (MinuteLoad(k, t)' \subseteq MinuteLoad(k, t))
    <3>1. /\ Cardinality(Recent(r, minute, Minute)) < PerMinute
          /\ key[r] = k /\ start[r] <= t
      BY <2>2, <1>5 DEF TypeOK, MinuteLoad, PassedMinute
    <3>2. MinuteLoad(k, t)' \subseteq Recent(r, minute, Minute) \cup Open
      <4>. SUFFICES ASSUME NEW q \in MinuteLoad(k, t)', q \notin Open
                    PROVE  q \in Recent(r, minute, Minute)
        OBVIOUS
      <4>1. q \in Calls /\ verdict[q] = "allowed" /\ key[q] = k /\ stamp[q] > t - Minute
        BY <1>3 DEF TypeOK, MinuteLoad, PassedMinute, Open
      <4>2. clock <= start[r] + Patience /\ backend # "memory"
        BY <1>3 DEF CallsSound, Open
      <4>3. q \in minute
        BY <3>1, <4>1, <4>2, TimeAssumption DEF EntriesSound, TypeOK
      <4>. QED  BY <3>1, <4>1, <4>3, TimeAssumption DEF Recent, Of, TypeOK
    <3>3. Cardinality(MinuteLoad(k, t)') <= Cardinality(Recent(r, minute, Minute)) + Cardinality(Open)
      BY <3>2, <2>0, <1>3, Sum
    <3>4. Overshoot = Conns - 1
      BY DEF Overshoot, CallsSound
    <3>. QED  BY <3>1, <3>3, <3>4, <2>0, <1>3, CallSets, Limits, ConnAssumption
  <2>. QED  BY <2>1, <2>2
<1>7. AdmittedPerHour'
  <2>1. ASSUME NEW k \in Keys, NEW t \in 0..clock
        PROVE  Within(k, HourAge, t)' = Within(k, HourAge, t)
    BY DEF TypeOK, CallsSound, Within, Of, Admitted, Fits, IsAllowed, HourAge, PerMinute, AtLeast
  <2>2. ASSUME NEW k \in Keys, NEW t \in 0..clock
        PROVE  Cardinality(Within(k, HourAge, t)') <= config.perHour + Overshoot
    BY <2>1 DEF AdmittedPerHour, HourAge
  <2>. QED  BY <1>5, <2>2 DEF AdmittedPerHour, HourAge
<1>. QED  BY <1>1, <1>2, <1>3, <1>4, <1>6, <1>7

LEMMA PgCountHourInv ==
  ASSUME IInv, NEW r \in Calls, PgCountHour(r)
  PROVE  IInv'
<1>. USE DEF IInv, PgCountHour, stores, call, result
<1>1. TypeOK'
  BY DEF TypeOK, Recent, Of
<1>2. CallsSound'
  BY TimeAssumption DEF TypeOK, CallsSound, Open
<1>3. Open' = Open /\ Open \subseteq Calls /\ r \in Open
  BY DEF TypeOK, Open
<1>4. EntriesSound'
  BY TimeAssumption DEF TypeOK, CallsSound, EntriesSound
<1>5. UNCHANGED <<PerMinute, Overshoot, HourAge>>
  BY DEF PerMinute, Overshoot, HourAge
<1>6. MinuteBound'
  <2>1. ASSUME NEW k \in Keys, NEW t \in 0..clock
        PROVE  MinuteLoad(k, t)' = MinuteLoad(k, t)
    BY DEF TypeOK, MinuteLoad, PassedMinute, PerMinute, AtLeast
  <2>2. ASSUME NEW k \in Keys, NEW t \in 0..clock
        PROVE  Cardinality(MinuteLoad(k, t)') <= PerMinute + Overshoot
    BY <2>1 DEF MinuteBound
  <2>. QED  BY <1>5, <2>2 DEF MinuteBound
<1>7. AdmittedPerHour'
  <2>. SUFFICES ASSUME NEW k \in Keys, NEW t \in 0..clock
                PROVE  Cardinality(Within(k, HourAge, t)') <= config.perHour + Overshoot
    BY <1>5 DEF AdmittedPerHour, HourAge
  <2>0. /\ Within(k, HourAge, t) \subseteq Calls
        /\ Within(k, HourAge, t)' \subseteq Calls
        /\ Recent(r, hour, Hour) \subseteq Calls
    BY DEF Within, Of, Admitted, Recent, TypeOK
  <2>1. CASE Within(k, HourAge, t)' \subseteq Within(k, HourAge, t)
    <3>1. Cardinality(Within(k, HourAge, t)') <= Cardinality(Within(k, HourAge, t))
      BY <2>0, <2>1, Fewer
    <3>2. Cardinality(Within(k, HourAge, t)) <= config.perHour + Overshoot
      BY DEF AdmittedPerHour, HourAge
    <3>. QED  BY <3>1, <3>2, <2>0, CallSets, Limits
  <2>2. CASE ~ (Within(k, HourAge, t)' \subseteq Within(k, HourAge, t))
    <3>1. /\ Cardinality(Recent(r, hour, Hour)) < config.perHour
          /\ key[r] = k /\ start[r] <= t
      BY <2>2, <1>5 DEF TypeOK, Within, Of, Admitted, Fits, IsAllowed, PerMinute, AtLeast
    <3>2. Within(k, HourAge, t)' \subseteq Recent(r, hour, Hour) \cup Open
      <4>. SUFFICES ASSUME NEW q \in Within(k, HourAge, t)', q \notin Open
                    PROVE  q \in Recent(r, hour, Hour)
        OBVIOUS
      <4>1. clock <= start[r] + Patience /\ HourAge = Hour - Patience
        BY <1>3 DEF CallsSound, Open, HourAge
      <4>2. q \in Calls /\ verdict[q] = "allowed" /\ key[q] = k /\ stamp[q] > t - (Hour - Patience)
        BY <1>3, <1>5, <4>1 DEF TypeOK, Within, Of, Admitted, Open
      <4>3. q \in hour
        BY <3>1, <4>1, <4>2, TimeAssumption DEF EntriesSound, TypeOK
      <4>. QED  BY <3>1, <4>2, <4>3, TimeAssumption DEF Recent, Of, TypeOK
    <3>3. Cardinality(Within(k, HourAge, t)') <= Cardinality(Recent(r, hour, Hour)) + Cardinality(Open)
      BY <3>2, <2>0, <1>3, Sum
    <3>4. Overshoot = Conns - 1
      BY DEF Overshoot, CallsSound
    <3>. QED  BY <3>1, <3>3, <3>4, <2>0, <1>3, CallSets, Limits, ConnAssumption
  <2>. QED  BY <2>1, <2>2
<1>. QED  BY <1>1, <1>2, <1>3, <1>4, <1>6, <1>7

LEMMA TickInv ==
  ASSUME IInv, Tick
  PROVE  IInv'
<1>. USE DEF IInv, Tick, stores, call, result
<1>1. TypeOK'
  BY TimeAssumption DEF TypeOK
<1>2. CallsSound'
  BY TimeAssumption DEF TypeOK, CallsSound, Open
<1>3. Open' = Open
  BY DEF Open
<1>4. EntriesSound'
  BY TimeAssumption DEF TypeOK, CallsSound, EntriesSound
<1>5. UNCHANGED <<PerMinute, Overshoot, HourAge>>
  BY DEF PerMinute, Overshoot, HourAge
\* A window that ends at the new time holds nothing the last one did not.
<1>6. MinuteBound'
  <2>. SUFFICES ASSUME NEW k \in Keys, NEW t \in 0..clock'
                PROVE  Cardinality(MinuteLoad(k, t)') <= PerMinute + Overshoot
    BY <1>5 DEF MinuteBound
  <2>1. PICK u \in 0..clock : u <= t /\ (t <= clock => u = t) /\ (t > clock => u = clock)
    <3>0. clock \in Nat /\ t \in Nat
      BY TimeAssumption DEF TypeOK
    <3>1. CASE t <= clock
      <4>1. t \in 0..clock /\ t <= t /\ ~ (t > clock)
        BY <3>0, <3>1
      <4>. QED  BY <4>1
    <3>2. CASE t > clock
      <4>1. clock \in 0..clock /\ clock <= t /\ ~ (t <= clock)
        BY <3>0, <3>2
      <4>. QED  BY <4>1
    <3>. QED  BY <3>0, <3>1, <3>2
  <2>2. MinuteLoad(k, t)' \subseteq MinuteLoad(k, u)
    BY <1>5, <2>1, TimeAssumption DEF TypeOK, CallsSound, MinuteLoad, PassedMinute
  <2>3. MinuteLoad(k, u) \subseteq Calls
    BY DEF MinuteLoad, PassedMinute
  <2>4. Cardinality(MinuteLoad(k, t)') <= Cardinality(MinuteLoad(k, u))
    BY <2>2, <2>3, Fewer
  <2>5. Cardinality(MinuteLoad(k, u)) <= PerMinute + Overshoot
    BY DEF MinuteBound
  <2>6. MinuteLoad(k, t)' \subseteq Calls
    BY <2>2, <2>3
  <2>. QED  BY <2>3, <2>4, <2>5, <2>6, CallSets, Limits
<1>7. AdmittedPerHour'
  <2>. SUFFICES ASSUME NEW k \in Keys, NEW t \in 0..clock'
                PROVE  Cardinality(Within(k, HourAge, t)') <= config.perHour + Overshoot
    BY <1>5 DEF AdmittedPerHour, HourAge
  <2>1. PICK u \in 0..clock : u <= t /\ (t <= clock => u = t) /\ (t > clock => u = clock)
    <3>0. clock \in Nat /\ t \in Nat
      BY TimeAssumption DEF TypeOK
    <3>1. CASE t <= clock
      <4>1. t \in 0..clock /\ t <= t /\ ~ (t > clock)
        BY <3>0, <3>1
      <4>. QED  BY <4>1
    <3>2. CASE t > clock
      <4>1. clock \in 0..clock /\ clock <= t /\ ~ (t <= clock)
        BY <3>0, <3>2
      <4>. QED  BY <4>1
    <3>. QED  BY <3>0, <3>1, <3>2
  <2>2. HourAge \in Int
    BY TimeAssumption DEF HourAge
  <2>3. Within(k, HourAge, t)' \subseteq Within(k, HourAge, u)
    BY <1>5, <2>1, <2>2, TimeAssumption
       DEF TypeOK, CallsSound, Within, Of, Admitted, Fits, IsAllowed
  <2>4. Within(k, HourAge, u) \subseteq Calls
    BY DEF Within, Of, Admitted
  <2>5. Cardinality(Within(k, HourAge, t)') <= Cardinality(Within(k, HourAge, u))
    BY <2>3, <2>4, Fewer
  <2>6. Cardinality(Within(k, HourAge, u)) <= config.perHour + Overshoot
    BY DEF AdmittedPerHour, HourAge
  <2>7. Within(k, HourAge, t)' \subseteq Calls
    BY <2>3, <2>4
  <2>. QED  BY <2>4, <2>5, <2>6, <2>7, CallSets, Limits
<1>. QED  BY <1>1, <1>2, <1>3, <1>4, <1>6, <1>7

\* A call under the lock sees every other call of its window.
LEMMA MemoryCheckInv ==
  ASSUME IInv, NEW r \in Calls, NEW k0 \in Keys, MemoryCheck(r, k0)
  PROVE  IInv'
<1>. DEFINE M == Of(Clean(minute, k0, Minute), k0)
            H == Of(Clean(hour, k0, Hour), k0)
            own == IF IsAllowed(Cardinality(M), Cardinality(H)) THEN {r} ELSE {}
<1>. USE DEF IInv
<1>0. M \subseteq Calls /\ H \subseteq Calls
  BY DEF Of, Clean, TypeOK
<1>1. /\ Begin(r, k0, "memory")
      /\ start' = [start EXCEPT ![r] = clock]
      /\ minute' = Clean(minute, k0, Minute) \cup own
      /\ hour' = Clean(hour, k0, Hour) \cup own
  BY DEF MemoryCheck
<1>2. PICK v \in {"allowed", "minute", "hour"}, w \in Int :
          /\ Answer(r, v, w)
          /\ v = "allowed" <=> IsAllowed(Cardinality(M), Cardinality(H))
  <2>1. ASSUME NEW S, S \subseteq Calls, NEW age \in Nat, NEW t \in Oldest(S)
        PROVE  Until(t, age, clock) \in Int
    BY <2>1, Waits DEF Until, Oldest, TypeOK
  <2>2. \A t \in Oldest(M) : Until(t, Minute, clock) \in Int
    BY <2>1, <1>0, TimeAssumption
  <2>3. \A t \in Oldest(H) : Until(t, Hour, clock) \in Int
    BY <2>1, <1>0, TimeAssumption
  <2>4. CASE IsAllowed(Cardinality(M), Cardinality(H)) /\ Answer(r, "allowed", 0)
    BY <2>4
  <2>5. CASE /\ ~ IsAllowed(Cardinality(M), Cardinality(H))
             /\ \E t \in Oldest(M) : Answer(r, "minute", Until(t, Minute, clock))
    BY <2>2, <2>5
  <2>6. CASE /\ Cardinality(H) >= config.perHour
             /\ \E t \in Oldest(H) : Answer(r, "hour", Until(t, Hour, clock))
    <3>1. ~ IsAllowed(Cardinality(M), Cardinality(H))
      BY <2>6, <1>0, CallSets, Limits DEF IsAllowed
    <3>. QED  BY <2>3, <2>6, <3>1
  <2>. QED  BY <2>4, <2>5, <2>6 DEF MemoryCheck
<1>. HIDE DEF M, H
<1>3. backend = "memory" /\ pc[r] = "new" /\ UNCHANGED <<backend, config, clock>>
  BY <1>1 DEF Begin
<1>4. TypeOK'
  BY <1>1, <1>2, ToldWait DEF TypeOK, Begin, Answer, Clean
<1>5. CallsSound'
  BY <1>1, <1>2, TimeAssumption DEF TypeOK, CallsSound, Open, Begin, Answer
<1>6. Open' \subseteq Open
  BY <1>2 DEF TypeOK, Open, Answer
<1>7. EntriesSound'
  BY <1>1, <1>2, TimeAssumption DEF TypeOK, CallsSound, EntriesSound, Begin, Answer, Clean
<1>8. UNCHANGED <<PerMinute, Overshoot, HourAge>> /\ Overshoot = 0 /\ HourAge = Hour
  BY <1>3 DEF PerMinute, Overshoot, HourAge
<1>9. MinuteBound'
  <2>. SUFFICES ASSUME NEW k \in Keys, NEW t \in 0..clock
                PROVE  Cardinality(MinuteLoad(k, t)') <= PerMinute
    BY <1>3, <1>8, Limits DEF MinuteBound
  <2>0. MinuteLoad(k, t) \subseteq Calls /\ MinuteLoad(k, t)' \subseteq Calls
    BY DEF MinuteLoad, PassedMinute
  <2>1. CASE MinuteLoad(k, t)' \subseteq MinuteLoad(k, t)
    <3>1. Cardinality(MinuteLoad(k, t)') <= Cardinality(MinuteLoad(k, t))
      BY <2>0, <2>1, Fewer
    <3>2. Cardinality(MinuteLoad(k, t)) <= PerMinute
      BY <1>8, Limits DEF MinuteBound
    <3>. QED  BY <3>1, <3>2, <2>0, CallSets, Limits
  <2>2. CASE ~ (MinuteLoad(k, t)' \subseteq MinuteLoad(k, t))
    <3>1. v = "allowed" /\ k = k0 /\ t = clock
      BY <2>2, <1>1, <1>2, <1>3, <1>8
         DEF TypeOK, CallsSound, MinuteLoad, PassedMinute, Begin, Answer
    <3>2. MinuteLoad(k, t)' \subseteq M \cup {r}
      BY <3>1, <1>1, <1>2, <1>3, <1>5, TimeAssumption
         DEF TypeOK, CallsSound, EntriesSound, MinuteLoad, PassedMinute, Begin, Answer, M, Of, Clean
    <3>3. Cardinality(MinuteLoad(k, t)') <= Cardinality(M) + 1
      BY <3>2, <1>0, OneMore
    <3>4. Cardinality(M) < PerMinute
      BY <3>1, <1>2 DEF IsAllowed
    <3>. QED  BY <3>3, <3>4, <2>0, <1>0, CallSets, Limits
  <2>. QED  BY <2>1, <2>2
<1>10. AdmittedPerHour'
  <2>. SUFFICES ASSUME NEW k \in Keys, NEW t \in 0..clock
                PROVE  Cardinality(Within(k, Hour, t)') <= config.perHour
    BY <1>3, <1>8, Limits DEF AdmittedPerHour
  <2>0. Within(k, Hour, t) \subseteq Calls /\ Within(k, Hour, t)' \subseteq Calls
    BY DEF Within, Of, Admitted
  <2>1. CASE Within(k, Hour, t)' \subseteq Within(k, Hour, t)
    <3>1. Cardinality(Within(k, Hour, t)') <= Cardinality(Within(k, Hour, t))
      BY <2>0, <2>1, Fewer
    <3>2. Cardinality(Within(k, Hour, t)) <= config.perHour
      BY <1>3, <1>8, Limits DEF AdmittedPerHour
    <3>. QED  BY <3>1, <3>2, <2>0, CallSets, Limits
  <2>2. CASE ~ (Within(k, Hour, t)' \subseteq Within(k, Hour, t))
    <3>1. v = "allowed" /\ k = k0 /\ t = clock
      BY <2>2, <1>1, <1>2, <1>3, <1>8
         DEF TypeOK, CallsSound, Within, Of, Admitted, Begin, Answer
    <3>2. Within(k, Hour, t)' \subseteq H \cup {r}
      BY <3>1, <1>1, <1>2, <1>3, <1>5, TimeAssumption
         DEF TypeOK, CallsSound, EntriesSound, Within, Of, Admitted, Begin, Answer, H, Clean
    <3>3. Cardinality(Within(k, Hour, t)') <= Cardinality(H) + 1
      BY <3>2, <1>0, OneMore
    <3>4. Cardinality(H) < config.perHour
      BY <3>1, <1>2 DEF IsAllowed
    <3>. QED  BY <3>3, <3>4, <2>0, <1>0, CallSets, Limits
  <2>. QED  BY <2>1, <2>2
<1>. QED  BY <1>4, <1>5, <1>6, <1>7, <1>9, <1>10, OpenKept

-----------------------------------------------------------------------------
(* The theorems                                                            *)

LEMMA InitInv == Init => IInv
<1>. SUFFICES ASSUME Init PROVE IInv
  OBVIOUS
<1>1. TypeOK /\ CallsSound /\ EntriesSound
  BY TimeAssumption DEF Init, TypeOK, CallsSound, EntriesSound, Open
<1>2. Open = {} /\ PassedMinute = {} /\ Admitted = {}
  BY DEF Init, Open, PassedMinute, Admitted
<1>3. \A k \in Keys, t \in 0..clock : MinuteLoad(k, t) = {} /\ Within(k, HourAge, t) = {}
  BY <1>2 DEF MinuteLoad, Within, Of
<1>4. MinuteBound /\ AdmittedPerHour
  BY <1>1, <1>3, FS_EmptySet, Limits DEF MinuteBound, AdmittedPerHour, HourAge
<1>. QED  BY <1>1, <1>2, <1>4, FS_EmptySet, ConnAssumption DEF IInv

LEMMA Stutter == ASSUME IInv, UNCHANGED vars PROVE IInv'
  BY DEF vars, stores, call, result, IInv, TypeOK, CallsSound, EntriesSound, Open, MinuteBound,
         MinuteLoad, PassedMinute, AdmittedPerHour, Within, Of, Admitted, Fits, IsAllowed,
         PerMinute, AtLeast, Overshoot

LEMMA Invariance == Spec => []IInv
<1>1. IInv /\ [Next]_vars => IInv'
  BY Stutter, CleanupExpiredInv, TickInv, MemoryCleanInv, PgConnectInv, PgCountMinuteInv,
     PgCountHourInv, PgAdmitInv, PgRefuseInv, PgFailInv, MemoryCheckInv, PgStartInv DEF Next
<1>. QED  BY <1>1, InitInv, PTL DEF Spec

\* Type correctness of both limiters.
THEOREM TypeCorrect == Spec => []TypeOK
  BY Invariance, PTL DEF IInv

\* In no minute more calls of a key are let through than its limit and, with
\* PostgreSQL, one less than the connections of the pool.
THEOREM MinuteLimitHolds == Spec => []AdmittedPerMinute
<1>1. IInv => AdmittedPerMinute
  <2>. SUFFICES ASSUME IInv, NEW k \in Keys, NEW t \in 0..clock
                PROVE  Cardinality(Within(k, Minute, t)) <= PerMinute + Overshoot
    BY DEF AdmittedPerMinute
  <2>1. Within(k, Minute, t) \subseteq MinuteLoad(k, t)
    BY DEF Within, Of, Admitted, Fits, IsAllowed, MinuteLoad, PassedMinute
  <2>2. MinuteLoad(k, t) \subseteq Calls
    BY DEF MinuteLoad, PassedMinute
  <2>3. Cardinality(Within(k, Minute, t)) <= Cardinality(MinuteLoad(k, t))
    BY <2>1, <2>2, Fewer
  <2>4. Cardinality(MinuteLoad(k, t)) <= PerMinute + Overshoot
    BY DEF IInv, MinuteBound
  <2>5. Within(k, Minute, t) \subseteq Calls
    BY <2>1, <2>2
  <2>. QED  BY <2>2, <2>3, <2>4, <2>5, CallSets, Limits DEF IInv
<1>. QED  BY <1>1, Invariance, PTL

\* In no hour more calls of a key are let through than its limit, with the same
\* excess.
THEOREM HourLimitHolds == Spec => []AdmittedPerHour
  BY Invariance, PTL DEF IInv

-----------------------------------------------------------------------------
(* The waiting times                                                       *)

\* What a refusal may be about, with its entries, its window and its limit.
Windows == {"minute", "hour"}
EntriesOf(v) == IF v = "minute" THEN minute ELSE hour
AgeOf(v) == IF v = "minute" THEN Minute ELSE Hour
LimitOf(v) == IF v = "minute" THEN PerMinute ELSE config.perHour

\* Until when a refused client was told to wait, and a second more.
Due(r) == stamp[r] + wait[r] * Second
Late(r) == stamp[r] + (wait[r] + 1) * Second

\* The entries of a key that count under the lock.
Window(v, k) == {q \in Of(EntriesOf(v), k) : stamp[q] >= clock - AgeOf(v)}

\* Entries that stay in the window for as long as r was told to wait.
Blocking(v, r) == {q \in Of(EntriesOf(v), key[r]) : stamp[q] + AgeOf(v) >= Due(r)}

\* Calls let through before the refusal of r that are in the window a second later.
Left(v, r) ==
    {q \in Calls : /\ verdict[q] = "allowed" /\ key[q] = key[r]
                   /\ stamp[q] <= stamp[r] /\ stamp[q] + AgeOf(v) >= Late(r)}

\* An entry is that of a call that was let through.
EntriesAllowed == \A v \in Windows : \A q \in EntriesOf(v) : verdict[q] = "allowed"

\* What a transaction has counted for the minute stays until it ends.
CountsHeld ==
    \A r \in Calls : pc[r] \in {"counted", "decided"} =>
        \A q \in inMinute[r] : q \in Of(minute, key[r]) /\ stamp[q] > start[r] - Minute

\* Of a refused call that was told more than the least: until it is due, enough
\* entries refuse it (under PostgreSQL this is so of the minute only).
Blocked(r) ==
    \A v \in Windows :
        /\ verdict[r] = v /\ (backend = "memory" \/ v = "minute")
        /\ wait[r] > 1 /\ clock < Due(r)
        =>
            Cardinality(Blocking(v, r)) >= LimitOf(v)

\* Under the lock a window never holds more than its limit,
WindowsBound ==
    backend = "memory" =>
        \A v \in Windows, k \in Keys : Cardinality(Window(v, k)) <= LimitOf(v)

\* at the time of a refusal it holds as many, so that nobody else passes then,
FullAt(r) ==
    backend = "memory" =>
        \A v \in Windows :
            verdict[r] = v /\ stamp[r] = clock => Cardinality(Window(v, key[r])) >= LimitOf(v)

\* and one less remains when the wait is over.
Room(r) ==
    backend = "memory" =>
        \A v \in Windows : verdict[r] = v => Cardinality(Left(v, r)) < LimitOf(v)

WaitInv ==
    /\ EntriesAllowed /\ CountsHeld /\ WindowsBound
    /\ \A r \in Calls : Blocked(r) /\ FullAt(r) /\ Room(r)

LEMMA Ages == /\ \A v \in Windows : AgeOf(v) \in Nat
              /\ AgeOf("minute") = Minute /\ AgeOf("hour") = Hour /\ Minute <= Hour
  BY TimeAssumption DEF AgeOf, Windows

LEMMA Entries == ASSUME TypeOK, NEW v \in Windows PROVE EntriesOf(v) \subseteq Calls
  BY DEF TypeOK, EntriesOf

LEMMA LimitType == ASSUME TypeOK, NEW v \in Windows PROVE LimitOf(v) \in Nat
  BY Limits DEF LimitOf

LEMMA LimitKept == ASSUME UNCHANGED config PROVE \A v \in Windows : LimitOf(v)' = LimitOf(v)
  BY DEF LimitOf, PerMinute

LEMMA DueType == ASSUME TypeOK, NEW r \in Calls
  PROVE  stamp[r] \in Nat /\ clock \in Nat /\ start[r] \in Nat /\ Due(r) \in Int /\ Late(r) \in Int
<1>1. stamp[r] \in Nat /\ clock \in Nat /\ start[r] \in Nat /\ wait[r] \in Int /\ Second \in Nat
  BY TimeAssumption DEF TypeOK
<1>2. wait[r] * Second \in Int /\ (wait[r] + 1) * Second \in Int
  BY <1>1
<1>. QED  BY <1>1, <1>2 DEF Due, Late

\* What every step does: it keeps an answered call as it is and every entry that
\* is in its window, and, under PostgreSQL, of the last hour.
Same(q) == verdict'[q] = verdict[q] /\ wait'[q] = wait[q] /\ key'[q] = key[q] /\ stamp'[q] = stamp[q]

Steady ==
    /\ UNCHANGED <<backend, config>> /\ clock' >= clock
    /\ \A q \in Calls : verdict[q] # "none" => Same(q)
    /\ \A v \in Windows : \A q \in EntriesOf(v) :
          stamp[q] >= clock - AgeOf(v) => q \in EntriesOf(v)'
    /\ backend = "postgres" => \A q \in minute : stamp[q] >= clock - Hour => q \in minute'

LEMMA BlockedKept ==
  ASSUME TypeOK, TypeOK', EntriesAllowed, Steady,
         NEW r \in Calls, verdict[r] # "none", Blocked(r)
  PROVE  Blocked(r)'
<1>. SUFFICES ASSUME NEW v \in Windows, verdict'[r] = v, backend' = "memory" \/ v = "minute",
                     wait'[r] > 1, clock' < Due(r)'
              PROVE  Cardinality(Blocking(v, r)') >= LimitOf(v)'
  BY DEF Blocked
<1>1. Same(r) /\ backend' = backend /\ clock' >= clock /\ LimitOf(v)' = LimitOf(v)
  BY LimitKept DEF Steady
<1>2. Due(r)' = Due(r)
  BY <1>1 DEF Due, Same
<1>3. clock \in Nat /\ clock' \in Nat /\ Due(r) \in Int /\ AgeOf(v) \in Nat
  BY DueType, Ages DEF TypeOK
<1>4. Cardinality(Blocking(v, r)) >= LimitOf(v)
  BY <1>1, <1>2, <1>3 DEF Blocked, Same
<1>5. ASSUME NEW q \in Blocking(v, r) PROVE q \in Blocking(v, r)'
  <2>1. q \in EntriesOf(v) /\ key[q] = key[r] /\ stamp[q] + AgeOf(v) >= Due(r) /\ q \in Calls
    BY Entries DEF Blocking, Of
  <2>2. Same(q)
    BY <2>1 DEF EntriesAllowed, Steady
  <2>3. stamp[q] \in Nat
    BY <2>1 DEF TypeOK
  <2>4. q \in EntriesOf(v)'
    BY <1>1, <1>2, <1>3, <2>1, <2>3 DEF Steady
  <2>. QED  BY <1>1, <1>2, <2>1, <2>2, <2>4 DEF Blocking, Of, Same
<1>6. Blocking(v, r)' \subseteq Calls /\ Blocking(v, r) \subseteq Calls
  BY Entries DEF Blocking, Of, EntriesOf, TypeOK
<1>7. Cardinality(Blocking(v, r)) <= Cardinality(Blocking(v, r)')
  BY <1>5, <1>6, Fewer
<1>. QED  BY <1>1, <1>4, <1>6, <1>7, CallSets, LimitType

LEMMA WindowGrows ==
  ASSUME TypeOK, EntriesAllowed, Steady, clock' = clock, NEW v \in Windows, NEW k
  PROVE  Window(v, k) \subseteq Window(v, k)'
<1>. SUFFICES ASSUME NEW q \in Window(v, k) PROVE q \in Window(v, k)'
  OBVIOUS
<1>1. q \in EntriesOf(v) /\ key[q] = k /\ stamp[q] >= clock - AgeOf(v) /\ q \in Calls
  BY Entries DEF Window, Of
<1>2. Same(q) /\ q \in EntriesOf(v)'
  BY <1>1 DEF EntriesAllowed, Steady
<1>. QED  BY <1>1, <1>2 DEF Window, Of, Same

LEMMA FullKept ==
  ASSUME TypeOK, TypeOK', CallsSound, EntriesAllowed, Steady,
         NEW r \in Calls, verdict[r] # "none", FullAt(r)
  PROVE  FullAt(r)'
<1>. SUFFICES ASSUME backend' = "memory", NEW v \in Windows, verdict'[r] = v, stamp'[r] = clock'
              PROVE  Cardinality(Window(v, key[r])') >= LimitOf(v)'
  <2>1. key'[r] = key[r]
    BY DEF Steady, Same
  <2>. QED  BY <2>1 DEF FullAt, Window
<1>1. Same(r) /\ backend' = backend /\ LimitOf(v)' = LimitOf(v)
  BY LimitKept DEF Steady
<1>2. clock' = clock
  BY <1>1 DEF Steady, Same, CallsSound, TypeOK
<1>3. Cardinality(Window(v, key[r])) >= LimitOf(v)
  BY <1>1, <1>2 DEF FullAt, Same
<1>4. Window(v, key[r])' \subseteq Calls /\ Window(v, key[r]) \subseteq Calls
  BY DEF Window, Of, EntriesOf, TypeOK
<1>5. Cardinality(Window(v, key[r])) <= Cardinality(Window(v, key[r])')
  <2>1. PICK k : k = key[r]
    OBVIOUS
  <2>2. Window(v, k) \subseteq Window(v, k)'
    BY <1>2, WindowGrows
  <2>3. Window(v, k) = Window(v, key[r]) /\ Window(v, k)' = Window(v, key[r])'
    BY <1>1, <2>1 DEF Window, Same
  <2>. QED  BY <1>4, <2>2, <2>3, Fewer
<1>. QED  BY <1>1, <1>3, <1>4, <1>5, CallSets, LimitType

\* A step that lets nobody through adds nothing to what is left of a window.
LEMMA RoomKept ==
  ASSUME TypeOK, TypeOK', Steady, NEW r \in Calls, verdict[r] # "none", Room(r),
         \A q \in Calls : verdict'[q] = "allowed" =>
             verdict[q] = "allowed" \/ key'[q] # key[r] \/ stamp'[q] > stamp[r]
  PROVE  Room(r)'
<1>. SUFFICES ASSUME backend' = "memory", NEW v \in Windows, verdict'[r] = v
              PROVE  Cardinality(Left(v, r)') < LimitOf(v)'
  BY DEF Room
<1>1. Same(r) /\ backend' = backend /\ LimitOf(v)' = LimitOf(v)
  BY LimitKept DEF Steady
<1>2. Late(r)' = Late(r)
  BY <1>1 DEF Late, Same
<1>3. Cardinality(Left(v, r)) < LimitOf(v)
  BY <1>1 DEF Room, Same
<1>4. ASSUME NEW q \in Left(v, r)' PROVE q \in Left(v, r)
  <2>1. /\ q \in Calls /\ verdict'[q] = "allowed" /\ key'[q] = key'[r]
        /\ stamp'[q] <= stamp'[r] /\ stamp'[q] + AgeOf(v) >= Late(r)'
    BY DEF Left, AgeOf
  <2>2. stamp'[q] \in Nat /\ stamp[r] \in Nat
    BY <2>1 DEF TypeOK
  <2>3. verdict[q] = "allowed"
    BY <1>1, <2>1, <2>2 DEF Same
  <2>4. Same(q)
    BY <2>1, <2>3 DEF Steady
  <2>. QED  BY <1>1, <1>2, <2>1, <2>3, <2>4 DEF Left, Same
<1>5. Left(v, r) \subseteq Calls /\ Left(v, r)' \subseteq Calls
  BY DEF Left
<1>6. Cardinality(Left(v, r)') <= Cardinality(Left(v, r))
  BY <1>4, <1>5, Fewer
<1>. QED  BY <1>1, <1>3, <1>5, <1>6, CallSets, LimitType

LEMMA WindowsKept ==
  ASSUME TypeOK, TypeOK', EntriesAllowed, WindowsBound, Steady,
         \A v \in Windows : EntriesOf(v)' \subseteq EntriesOf(v)
  PROVE  WindowsBound'
<1>. SUFFICES ASSUME backend' = "memory", NEW v \in Windows, NEW k \in Keys
              PROVE  Cardinality(Window(v, k)') <= LimitOf(v)'
  BY DEF WindowsBound
<1>1. backend' = backend /\ LimitOf(v)' = LimitOf(v) /\ clock' >= clock
  BY LimitKept DEF Steady
<1>2. ASSUME NEW q \in Window(v, k)' PROVE q \in Window(v, k)
  <2>1. q \in EntriesOf(v)' /\ key'[q] = k /\ stamp'[q] >= clock' - AgeOf(v)
    BY DEF Window, Of, AgeOf
  <2>2. q \in EntriesOf(v) /\ q \in Calls
    BY <2>1, Entries
  <2>3. Same(q)
    BY <2>2 DEF EntriesAllowed, Steady
  <2>4. stamp[q] \in Nat /\ clock \in Nat /\ clock' \in Nat /\ AgeOf(v) \in Nat
    BY <2>2, Ages DEF TypeOK
  <2>5. stamp[q] >= clock - AgeOf(v)
    BY <1>1, <2>1, <2>3, <2>4 DEF Same
  <2>. QED  BY <2>1, <2>2, <2>3, <2>5 DEF Window, Of, Same
<1>3. Window(v, k) \subseteq Calls /\ Window(v, k)' \subseteq Calls
  BY DEF Window, Of, EntriesOf, TypeOK
<1>4. Cardinality(Window(v, k)') <= Cardinality(Window(v, k))
  BY <1>2, <1>3, Fewer
<1>5. Cardinality(Window(v, k)) <= LimitOf(v)
  BY <1>1 DEF WindowsBound
<1>. QED  BY <1>1, <1>3, <1>4, <1>5, CallSets, LimitType

LEMMA CountKept ==
  ASSUME TypeOK, TypeOK', CallsSound, EntriesAllowed, CountsHeld, Steady, NEW r \in Calls,
         pc[r] \in {"counted", "decided"}, inMinute'[r] = inMinute[r],
         key'[r] = key[r], start'[r] = start[r]
  PROVE  \A q \in inMinute'[r] : q \in Of(minute, key[r])' /\ stamp'[q] > start'[r] - Minute
<1>. SUFFICES ASSUME NEW q \in inMinute[r]
              PROVE  q \in Of(minute, key[r])' /\ stamp'[q] > start'[r] - Minute
  OBVIOUS
<1>1. q \in minute /\ q \in Calls /\ key[q] = key[r] /\ stamp[q] > start[r] - Minute
  BY DEF CountsHeld, Of, TypeOK
<1>2. Same(q)
  <2>1. verdict[q] = "allowed"
    BY <1>1 DEF EntriesAllowed, EntriesOf, Windows
  <2>. QED  BY <1>1, <2>1 DEF Steady
<1>3. stamp[q] >= clock - Hour
  <2>1. clock <= start[r] + Patience
    BY DEF CallsSound, Open
  <2>2. clock \in Nat /\ start[r] \in Nat /\ stamp[q] \in Nat
    BY <1>1 DEF TypeOK
  <2>. QED  BY <1>1, <2>1, <2>2, TimeAssumption
<1>4. backend = "postgres"
  BY DEF CallsSound, TypeOK
<1>5. q \in minute'
  BY <1>1, <1>3, <1>4 DEF Steady
<1>. QED  BY <1>1, <1>2, <1>5 DEF Of, Same

\* Both windows at once.
LEMMA SteadyByWindow ==
  ASSUME UNCHANGED <<backend, config>>, clock' >= clock,
         \A q \in Calls : verdict[q] # "none" => Same(q),
         \A q \in minute : stamp[q] >= clock - Minute => q \in minute',
         \A q \in hour : stamp[q] >= clock - Hour => q \in hour',
         backend = "postgres" => \A q \in minute : stamp[q] >= clock - Hour => q \in minute'
  PROVE  Steady
<1>1. ASSUME NEW v \in Windows, NEW q \in EntriesOf(v), stamp[q] >= clock - AgeOf(v)
      PROVE  q \in EntriesOf(v)'
  BY <1>1 DEF Windows, EntriesOf, AgeOf
<1>. QED  BY <1>1 DEF Steady

LEMMA SteadyStep == ASSUME IInv, [Next]_vars PROVE Steady
<1>0. TypeOK /\ CallsSound
  BY DEF IInv
<1>1. /\ clock \in Nat /\ Minute \in Nat /\ Hour \in Nat /\ Minute <= Hour
      /\ stamp \in [Calls -> Nat] /\ start \in [Calls -> Nat]
      /\ minute \subseteq Calls /\ hour \subseteq Calls
      /\ \A q \in Calls : verdict[q] # "none" <=> pc[q] = "done"
      /\ \A q \in Calls : start[q] <= clock
  BY <1>0, TimeAssumption DEF TypeOK, CallsSound
<1>2. CASE CleanupExpired
  <2>1. UNCHANGED <<backend, config, clock, key, stamp, verdict, wait>>
    BY <1>2 DEF CleanupExpired, call, result
  <2>2. /\ \A q \in minute : stamp[q] >= clock - Minute => q \in minute'
        /\ \A q \in hour : stamp[q] >= clock - Hour => q \in hour'
        /\ backend = "postgres" => \A q \in minute : stamp[q] >= clock - Hour => q \in minute'
    BY <1>1, <1>2 DEF CleanupExpired
  <2>. QED  BY <1>1, <2>1, <2>2, SteadyByWindow DEF Same
<1>3. ASSUME NEW k \in Keys, MemoryClean(k) PROVE Steady
  <2>1. UNCHANGED <<backend, config, clock, key, stamp, verdict, wait>> /\ backend = "memory"
    BY <1>3 DEF MemoryClean, call, result
  <2>2. /\ \A q \in minute : stamp[q] >= clock - Minute => q \in minute'
        /\ \A q \in hour : stamp[q] >= clock - Hour => q \in hour'
    BY <1>3 DEF MemoryClean, Clean
  <2>. QED  BY <1>1, <2>1, <2>2, SteadyByWindow DEF Same
<1>4. CASE Tick \/ (\E r \in Calls : PgConnect(r) \/ PgCountMinute(r) \/ PgCountHour(r)) \/ UNCHANGED vars
  <2>1. UNCHANGED <<backend, config, key, stamp, verdict, wait, minute, hour>> /\ clock' >= clock
    BY <1>1, <1>4 DEF Tick, PgConnect, PgCountMinute, PgCountHour, vars, call, result, stores
  <2>. QED  BY <2>1, SteadyByWindow DEF Same
<1>5. ASSUME NEW r \in Calls, NEW k \in Keys, PgStart(r, k) PROVE Steady
  <2>1. UNCHANGED <<backend, config, clock, verdict, wait, minute, hour>>
    BY <1>5 DEF PgStart, Begin, result, stores
  <2>2. \A q \in Calls : verdict[q] # "none" => Same(q)
    BY <1>0, <1>1, <1>5 DEF PgStart, Begin, Same, TypeOK, result
  <2>. QED  BY <1>1, <2>1, <2>2, SteadyByWindow
<1>6. ASSUME NEW r \in Calls, PgFail(r) PROVE Steady
  <2>1. UNCHANGED <<backend, config, clock, verdict, wait, minute, hour>>
    BY <1>6 DEF PgFail, Forget, result, stores
  <2>2. \A q \in Calls : verdict[q] # "none" => Same(q)
    BY <1>0, <1>1, <1>6 DEF PgFail, Forget, Same, TypeOK, result
  <2>. QED  BY <1>1, <2>1, <2>2, SteadyByWindow
<1>7. ASSUME NEW r \in Calls, PgAdmit(r) \/ PgRefuse(r) PROVE Steady
  <2>1. /\ UNCHANGED <<backend, config, clock, key, stamp>> /\ pc[r] # "done"
        /\ \E v, w : Answer(r, v, w)
        /\ minute \ Outdated(r, minute) \subseteq minute'
        /\ hour \ Outdated(r, hour) \subseteq hour'
    BY <1>7 DEF PgAdmit, PgRefuse, call
  <2>2. \A q \in Calls : verdict[q] # "none" => Same(q)
    BY <1>0, <1>1, <2>1 DEF Answer, Same, TypeOK
  <2>3. /\ \A q \in minute : stamp[q] >= clock - Hour => q \in minute'
        /\ \A q \in hour : stamp[q] >= clock - Hour => q \in hour'
    BY <1>1, <2>1 DEF Outdated
  <2>4. \A q \in minute : stamp[q] >= clock - Minute => q \in minute'
    BY <1>1, <2>3
  <2>. QED  BY <1>1, <2>1, <2>2, <2>3, <2>4, SteadyByWindow
<1>8. ASSUME NEW r \in Calls, NEW k \in Keys, MemoryCheck(r, k) PROVE Steady
  <2>1. /\ UNCHANGED <<backend, config, clock>> /\ pc[r] = "new" /\ backend = "memory"
        /\ key' = [key EXCEPT ![r] = k] /\ stamp' = [stamp EXCEPT ![r] = clock]
        /\ \E v, w : Answer(r, v, w)
        /\ Clean(minute, k, Minute) \subseteq minute'
        /\ Clean(hour, k, Hour) \subseteq hour'
    BY <1>8 DEF MemoryCheck, Begin
  <2>2. \A q \in Calls : verdict[q] # "none" => Same(q)
    BY <1>0, <1>1, <2>1 DEF Answer, Same, TypeOK
  <2>3. /\ \A q \in minute : stamp[q] >= clock - Minute => q \in minute'
        /\ \A q \in hour : stamp[q] >= clock - Hour => q \in hour'
    BY <2>1 DEF Clean
  <2>. QED  BY <1>1, <2>1, <2>2, <2>3, SteadyByWindow
<1>. QED  BY <1>2, <1>3, <1>4, <1>5, <1>6, <1>7, <1>8 DEF Next

LEMMA CountsByCall ==
  ASSUME IInv, TypeOK', WaitInv, Steady,
         \A r \in Calls : pc'[r] \in {"counted", "decided"} =>
            \/ /\ pc[r] \in {"counted", "decided"} /\ inMinute'[r] = inMinute[r]
               /\ key'[r] = key[r] /\ start'[r] = start[r]
            \/ \A q \in inMinute'[r] : q \in Of(minute, key[r])' /\ stamp'[q] > start'[r] - Minute
  PROVE  CountsHeld'
<1>. SUFFICES ASSUME NEW r \in Calls, pc'[r] \in {"counted", "decided"}
              PROVE  \A q \in inMinute'[r] :
                        q \in Of(minute, key[r])' /\ stamp'[q] > start'[r] - Minute
  BY DEF CountsHeld
<1>1. TypeOK /\ CallsSound /\ EntriesAllowed /\ CountsHeld
  BY DEF IInv, WaitInv
<1>. QED  BY <1>1, CountKept

\* Steps that answer no call.
LEMMA CalmStep ==
  ASSUME IInv, TypeOK', WaitInv, Steady, CountsHeld', UNCHANGED result,
         minute' \subseteq minute, hour' \subseteq hour
  PROVE  WaitInv'
<1>1. TypeOK /\ CallsSound /\ EntriesAllowed /\ WindowsBound
  BY DEF IInv, WaitInv
<1>2. \A v \in Windows : EntriesOf(v)' \subseteq EntriesOf(v)
  BY DEF EntriesOf
<1>3. EntriesAllowed'
  BY <1>1, <1>2 DEF EntriesAllowed, result
<1>4. WindowsBound'
  BY <1>1, <1>2, WindowsKept
<1>5. ASSUME NEW r \in Calls PROVE Blocked(r)' /\ FullAt(r)' /\ Room(r)'
  <2>1. CASE verdict[r] = "none"
    BY <2>1 DEF Blocked, FullAt, Room, Windows, result
  <2>2. CASE verdict[r] # "none"
    <3>1. Blocked(r) /\ FullAt(r) /\ Room(r)
      BY DEF WaitInv
    <3>2. verdict' = verdict
      BY DEF result
    <3>. QED  BY <1>1, <2>2, <3>1, <3>2, BlockedKept, FullKept, RoomKept
  <2>. QED  BY <2>1, <2>2
<1>. QED  BY <1>3, <1>4, <1>5 DEF WaitInv

LEMMA CalmInv ==
  ASSUME IInv, IInv', WaitInv, Steady,
         \/ CleanupExpired \/ Tick \/ UNCHANGED vars
         \/ \E k \in Keys : MemoryClean(k)
         \/ \E r \in Calls : \/ PgConnect(r) \/ PgCountMinute(r) \/ PgCountHour(r) \/ PgFail(r)
                             \/ \E k \in Keys : PgStart(r, k)
  PROVE  WaitInv'
<1>0. TypeOK /\ TypeOK' /\ pc \in [Calls -> {"new", "waiting", "open", "counted", "decided", "done"}]
      /\ inMinute \in [Calls -> SUBSET Calls] /\ key \in [Calls -> Keys \cup {NoKey}]
      /\ start \in [Calls -> 0..MaxClock]
  BY DEF IInv, TypeOK
<1>1. UNCHANGED result /\ minute' \subseteq minute /\ hour' \subseteq hour
  BY DEF CleanupExpired, Tick, vars, MemoryClean, Clean, PgConnect, PgCountMinute, PgCountHour,
         PgFail, Forget, PgStart, result, stores
<1>2. CountsHeld'
  <2>1. CASE CleanupExpired \/ Tick \/ UNCHANGED vars \/ \E k \in Keys : MemoryClean(k)
    <3>1. UNCHANGED <<pc, inMinute, key, start>>
      BY <2>1 DEF CleanupExpired, Tick, vars, MemoryClean, call
    <3>. QED  BY <1>0, <3>1, CountsByCall
  <2>2. ASSUME NEW r \in Calls, PgConnect(r) \/ PgCountHour(r) \/ PgFail(r) \/ \E k \in Keys : PgStart(r, k)
        PROVE  CountsHeld'
    <3>1. ASSUME NEW a \in Calls, pc'[a] \in {"counted", "decided"}
          PROVE  /\ pc[a] \in {"counted", "decided"} /\ inMinute'[a] = inMinute[a]
                 /\ key'[a] = key[a] /\ start'[a] = start[a]
      BY <1>0, <2>2, <3>1 DEF PgConnect, PgCountHour, PgFail, Forget, PgStart, Begin, call
    <3>. QED  BY <1>0, <3>1, CountsByCall
  <2>3. ASSUME NEW r \in Calls, PgCountMinute(r) PROVE CountsHeld'
    <3>1. UNCHANGED <<minute, key, stamp, start>>
      BY <2>3 DEF PgCountMinute, stores, call
    <3>2. inMinute'[r] = {q \in Of(minute, key[r]) : stamp[q] > start[r] - Minute}
      BY <1>0, <2>3 DEF PgCountMinute, Recent
    <3>3. \A q \in inMinute'[r] : q \in Of(minute, key[r])' /\ stamp'[q] > start'[r] - Minute
      BY <3>1, <3>2 DEF Of
    <3>4. ASSUME NEW a \in Calls, a # r, pc'[a] \in {"counted", "decided"}
          PROVE  /\ pc[a] \in {"counted", "decided"} /\ inMinute'[a] = inMinute[a]
                 /\ key'[a] = key[a] /\ start'[a] = start[a]
      BY <1>0, <2>3, <3>1, <3>4 DEF PgCountMinute
    <3>. QED  BY <1>0, <3>3, <3>4, CountsByCall
  <2>. QED  BY <2>1, <2>2, <2>3
<1>. QED  BY <1>0, <1>1, <1>2, CalmStep

\* int() of a time that is to come, in seconds, is less than a second short of it.
LEMMA SecondsRound ==
  ASSUME NEW x \in Int
  PROVE  /\ Seconds(x) \in Int
         /\ x >= 0 => Seconds(x) * Second <= x /\ x < (Seconds(x) + 1) * Second
         /\ x < 0 => Seconds(x) * Second <= 0
<1>. DEFINE d == Second
<1>1. d \in Nat /\ d > 0
  BY TimeAssumption
<1>. HIDE DEF d
<1>2. ASSUME NEW y \in Nat PROVE y \div d \in Nat /\ (y \div d) * d <= y /\ y < ((y \div d) + 1) * d
  <2>1. y \div d \in Int /\ y % d \in 0..(d - 1) /\ y = d * (y \div d) + (y % d)
    BY <1>1
  <2>. QED  BY <1>1, <2>1
<1>3. CASE x >= 0
  BY <1>2, <1>3 DEF Seconds, d
<1>4. CASE x < 0
  <2>1. - x \in Nat
    BY <1>4
  <2>. DEFINE w == (- x) \div d
  <2>2. w \in Nat
    BY <1>2, <2>1
  <2>3. Seconds(x) = - w
    BY <1>4 DEF Seconds, d
  <2>. HIDE DEF w
  <2>4. (- w) * d <= 0
    BY <1>1, <2>2
  <2>. QED  BY <1>4, <2>2, <2>3, <2>4 DEF d
<1>. QED  BY <1>3, <1>4

LEMMA OldestOf ==
  ASSUME TypeOK, NEW S, S \subseteq Calls, NEW t \in Oldest(S)
  PROVE  t \in Nat /\ (\E o \in S : stamp[o] = t) /\ \A q \in S : t <= stamp[q]
<1>1. (\E o \in S : stamp[o] = t) /\ \A q \in S : t <= stamp[q]
  BY DEF Oldest
<1>. QED  BY <1>1 DEF TypeOK

\* The oldest of the entries a refused call has counted is in the window for as
\* long as the call is told to wait.
LEMMA TellsNotTooLong ==
  ASSUME NEW now \in Nat, NEW t \in Nat, NEW age \in Nat, NEW w, w = Until(t, age, now),
         NEW at \in Nat, at >= now, at < now + w * Second
  PROVE  now + w * Second <= t + age
<1>. DEFINE x == age - (now - t)
<1>1. x \in Int /\ w = Seconds(x)
  BY DEF Until
<1>2. w \in Int /\ (x >= 0 => w * Second <= x) /\ (x < 0 => w * Second <= 0)
  BY <1>1, SecondsRound
<1>3. w * Second \in Int
  BY <1>2, TimeAssumption
<1>. QED  BY <1>2, <1>3

LEMMA PgAnswered ==
  ASSUME IInv, IInv', WaitInv, Steady, NEW r \in Calls, pc[r] = "decided",
         NEW v, NEW w, Answer(r, v, w), UNCHANGED <<key, start>>,
         minute' \subseteq minute \cup {r}, hour' \subseteq hour \cup {r},
         v # "allowed" => minute' \subseteq minute /\ hour' \subseteq hour,
         Blocked(r)'
  PROVE  WaitInv'
<1>0. /\ TypeOK /\ TypeOK' /\ EntriesAllowed /\ CallsSound
      /\ pc \in [Calls -> {"new", "waiting", "open", "counted", "decided", "done"}]
      /\ inMinute \in [Calls -> SUBSET Calls]
      /\ verdict \in [Calls -> {"none", "allowed", "minute", "hour"}]
  BY DEF IInv, WaitInv, TypeOK
<1>1. backend' # "memory" /\ verdict[r] = "none"
  BY <1>0 DEF CallsSound, Steady
<1>2. EntriesAllowed'
  <2>. SUFFICES ASSUME NEW u \in Windows, NEW q \in EntriesOf(u)' PROVE verdict'[q] = "allowed"
    BY DEF EntriesAllowed
  <2>1. CASE q \in EntriesOf(u)
    <3>1. verdict[q] = "allowed" /\ q \in Calls
      BY <1>0, <2>1, Entries DEF EntriesAllowed
    <3>. QED  BY <3>1 DEF Steady, Same
  <2>2. CASE q \notin EntriesOf(u)
    <3>1. q = r /\ v = "allowed"
      BY <2>2 DEF EntriesOf
    <3>. QED  BY <1>0, <3>1 DEF Answer
  <2>. QED  BY <2>1, <2>2
<1>3. CountsHeld'
  <2>1. ASSUME NEW a \in Calls, pc'[a] \in {"counted", "decided"}
        PROVE  /\ pc[a] \in {"counted", "decided"} /\ inMinute'[a] = inMinute[a]
               /\ key'[a] = key[a] /\ start'[a] = start[a]
    BY <1>0, <2>1 DEF Answer
  <2>. QED  BY <1>0, <2>1, CountsByCall
<1>4. ASSUME NEW a \in Calls PROVE Blocked(a)'
  <2>1. CASE a = r
    BY <2>1
  <2>2. CASE a # r /\ verdict[a] = "none"
    <3>1. verdict'[a] = "none"
      BY <1>0, <2>2 DEF Answer
    <3>. QED  BY <3>1 DEF Blocked, Windows
  <2>3. CASE a # r /\ verdict[a] # "none"
    BY <1>0, <2>3, BlockedKept DEF WaitInv
  <2>. QED  BY <2>1, <2>2, <2>3
<1>. QED  BY <1>1, <1>2, <1>3, <1>4 DEF WaitInv, WindowsBound, FullAt, Room

LEMMA PgAdmitWaits ==
  ASSUME IInv, IInv', WaitInv, Steady, NEW r \in Calls, PgAdmit(r) PROVE WaitInv'
<1>1. /\ pc[r] = "decided" /\ Answer(r, "allowed", 0) /\ UNCHANGED <<key, start>>
      /\ minute' \subseteq minute \cup {r} /\ hour' \subseteq hour \cup {r}
  BY DEF PgAdmit, call
<1>2. verdict'[r] = "allowed"
  BY <1>1 DEF Answer, IInv, TypeOK
<1>3. Blocked(r)'
  BY <1>2 DEF Blocked, Windows
<1>. QED  BY <1>1, <1>3, PgAnswered

LEMMA PgRefuseWaits ==
  ASSUME IInv, IInv', WaitInv, Steady, NEW r \in Calls, PgRefuse(r) PROVE WaitInv'
<1>0. /\ TypeOK /\ TypeOK' /\ CallsSound /\ CountsHeld
  BY DEF IInv, WaitInv
<1>1. /\ pc[r] = "decided" /\ ~ Fits(r) /\ UNCHANGED <<key, start, stamp, clock, config>>
      /\ minute' = minute \ Outdated(r, minute) /\ hour' \subseteq hour
  BY DEF PgRefuse, call
<1>2. PICK v \in Windows : \E w : Answer(r, v, w) /\ (v = "minute" =>
           w \in WaitFor(r, minute, Minute) /\ Cardinality(inHour[r]) < config.perHour)
  BY DEF PgRefuse, Windows
<1>3. PICK w : Answer(r, v, w) /\ (v = "minute" =>
           w \in WaitFor(r, minute, Minute) /\ Cardinality(inHour[r]) < config.perHour)
  BY <1>2
<1>4. verdict'[r] = v /\ wait'[r] = Told(v, w)
  BY <1>0, <1>3 DEF Answer, TypeOK
<1>5. Blocked(r)'
  <2>1. backend' # "memory"
    BY <1>0, <1>1 DEF CallsSound, Steady
  <2>. SUFFICES ASSUME v = "minute", wait'[r] > 1, clock' < Due(r)'
                PROVE  Cardinality(Blocking("minute", r)') >= LimitOf("minute")'
    BY <1>4, <2>1 DEF Blocked
  <2>. DEFINE rows == Of(minute \ Outdated(r, minute), key[r])
              I == inMinute[r]
  <2>2. /\ stamp[r] \in Nat /\ clock \in Nat /\ start[r] \in Nat /\ stamp[r] <= clock
        /\ Minute \in Nat /\ Hour \in Nat /\ Minute <= Hour /\ minute \subseteq Calls /\ I \subseteq Calls
    BY <1>0, DueType, Ages, TimeAssumption DEF TypeOK, CallsSound
  <2>3. \A q \in I : q \in minute /\ key[q] = key[r] /\ stamp[q] > start[r] - Minute /\ stamp[q] \in Nat
    BY <1>0, <1>1, <2>2 DEF CountsHeld, Of, TypeOK
  <2>4. \A q \in I : q \in rows /\ q \in minute'
    BY <1>1, <2>2, <2>3 DEF Of, Outdated
  <2>5. Cardinality(I) >= PerMinute
    <3>1. Cardinality(I) \in Nat /\ PerMinute \in Nat /\ Cardinality(inHour[r]) < config.perHour
      BY <1>0, <1>3, <2>2, CallSets, Limits
    <3>. QED  BY <1>1, <3>1 DEF Fits, IsAllowed
  <2>w. w \in Int
    BY <1>0, <1>3, Waits, TimeAssumption DEF WaitFor, Until, Oldest, Of, TypeOK
  <2>6. Due(r)' = stamp[r] + w * Second
    BY <1>1, <1>4, <2>w, ToldWait DEF Due
  <2>7. ASSUME NEW q \in I PROVE q \in Blocking("minute", r)'
    <3>1. rows # {} /\ w \in {Until(t, Minute, stamp[r]) : t \in Oldest(rows)}
      <4>. HIDE DEF I
      <4>1. w \in WaitFor(r, minute, Minute)
        BY <1>3
      <4>2. rows # {}
        BY <2>4, <2>7
      <4>. QED  BY <4>1, <4>2 DEF WaitFor
    <3>. HIDE DEF I
    <3>2. PICK t \in Oldest(rows) : w = Until(t, Minute, stamp[r])
      BY <3>1
    <3>3. rows \subseteq Calls
      BY <2>2 DEF Of
    <3>4. t \in Nat /\ t <= stamp[q]
      <4>. HIDE DEF rows
      <4>. QED  BY <1>0, <2>4, <2>7, <3>2, <3>3, OldestOf
    <3>. HIDE DEF rows
    <3>5. stamp[r] + w * Second <= t + Minute
      <4>1. clock < stamp[r] + w * Second
        BY <1>1, <2>6
      <4>. QED  BY <2>2, <3>2, <3>4, <4>1, TellsNotTooLong
    <3>6. w * Second \in Int
      BY <2>w, TimeAssumption
    <3>7. stamp[q] + Minute >= Due(r)'
      BY <2>2, <2>3, <2>6, <3>4, <3>5, <3>6
    <3>. QED  BY <1>1, <2>3, <2>4, <3>7 DEF Blocking, Of, EntriesOf, AgeOf
  <2>8. Blocking("minute", r)' \subseteq Calls
    BY <1>0 DEF Blocking, Of, EntriesOf, TypeOK
  <2>9. Cardinality(I) <= Cardinality(Blocking("minute", r)')
    BY <2>7, <2>8, Fewer
  <2>10. LimitOf("minute")' = PerMinute /\ PerMinute \in Nat
    BY <1>0, <1>1, Limits DEF LimitOf, PerMinute
  <2>. HIDE DEF I
  <2>. QED  BY <2>2, <2>5, <2>8, <2>9, <2>10, CallSets
<1>. QED  BY <1>1, <1>3, <1>5, PgAnswered

\* What a check under the lock does, window by window.
LEMMA MemoryCases ==
  ASSUME TypeOK, NEW r \in Calls, NEW k \in Keys, MemoryCheck(r, k)
  PROVE  /\ Begin(r, k, "memory")
         /\ \/ /\ Answer(r, "allowed", 0)
               /\ \A v \in Windows : Cardinality(Window(v, k)) < LimitOf(v)
               /\ \A v \in Windows : EntriesOf(v)' \subseteq EntriesOf(v) \cup {r}
            \/ /\ \E v \in Windows : \E t \in Oldest(Window(v, k)) :
                     /\ Answer(r, v, Until(t, AgeOf(v), clock))
                     /\ Cardinality(Window(v, k)) >= LimitOf(v)
               /\ minute' \subseteq minute /\ hour' \subseteq hour
<1>. DEFINE M == Of(Clean(minute, k, Minute), k)
            H == Of(Clean(hour, k, Hour), k)
            m == Cardinality(M)
            h == Cardinality(H)
            own == IF IsAllowed(m, h) THEN {r} ELSE {}
<1>1. M = Window("minute", k) /\ H = Window("hour", k)
  BY DEF Of, Clean, Window, EntriesOf, AgeOf
<1>2. /\ Begin(r, k, "memory")
      /\ minute' = Clean(minute, k, Minute) \cup own
      /\ hour' = Clean(hour, k, Hour) \cup own
      /\ \/ IsAllowed(m, h) /\ Answer(r, "allowed", 0)
         \/ /\ ~ IsAllowed(m, h) /\ h < config.perHour
            /\ \E t \in Oldest(M) : Answer(r, "minute", Until(t, Minute, clock))
         \/ /\ h >= config.perHour
            /\ \E t \in Oldest(H) : Answer(r, "hour", Until(t, Hour, clock))
  BY DEF MemoryCheck
<1>3. M \subseteq Calls /\ H \subseteq Calls
  BY DEF Of, Clean, TypeOK
<1>4. m \in Nat /\ h \in Nat /\ PerMinute \in Nat /\ config.perHour \in Nat
  BY <1>3, CallSets, Limits
<1>5. minute' \subseteq minute \cup own /\ hour' \subseteq hour \cup own
  BY <1>2 DEF Clean
<1>. HIDE DEF M, H
<1>6. CASE IsAllowed(m, h) /\ Answer(r, "allowed", 0)
  <2>1. \A v \in Windows : Cardinality(Window(v, k)) < LimitOf(v)
    BY <1>1, <1>6 DEF Windows, IsAllowed, LimitOf
  <2>2. \A v \in Windows : EntriesOf(v)' \subseteq EntriesOf(v) \cup {r}
    BY <1>5, <1>6 DEF Windows, EntriesOf
  <2>. QED  BY <1>2, <1>6, <2>1, <2>2
<1>7. CASE /\ ~ IsAllowed(m, h) /\ h < config.perHour
           /\ \E t \in Oldest(M) : Answer(r, "minute", Until(t, Minute, clock))
  <2>1. Cardinality(Window("minute", k)) >= LimitOf("minute")
    BY <1>1, <1>4, <1>7 DEF IsAllowed, LimitOf
  <2>2. \E t \in Oldest(Window("minute", k)) : Answer(r, "minute", Until(t, AgeOf("minute"), clock))
    BY <1>1, <1>7 DEF AgeOf
  <2>. QED  BY <1>2, <1>5, <1>7, <2>1, <2>2 DEF Windows
<1>8. CASE /\ h >= config.perHour
           /\ \E t \in Oldest(H) : Answer(r, "hour", Until(t, Hour, clock))
  <2>1. Cardinality(Window("hour", k)) >= LimitOf("hour")
    BY <1>1, <1>8 DEF LimitOf
  <2>2. \E t \in Oldest(Window("hour", k)) : Answer(r, "hour", Until(t, AgeOf("hour"), clock))
    BY <1>1, <1>8 DEF AgeOf
  <2>3. ~ IsAllowed(m, h)
    BY <1>4, <1>8 DEF IsAllowed
  <2>. QED  BY <1>2, <1>5, <2>1, <2>2, <2>3 DEF Windows
<1>. QED  BY <1>2, <1>6, <1>7, <1>8

\* What both outcomes have in common.
LEMMA MemoryOthers ==
  ASSUME IInv, IInv', WaitInv, Steady, NEW r \in Calls, NEW k \in Keys, Begin(r, k, "memory"),
         NEW v, NEW w, Answer(r, v, w)
  PROVE  /\ backend = "memory" /\ backend' = "memory" /\ clock' = clock /\ verdict[r] = "none"
         /\ key'[r] = k /\ stamp'[r] = clock /\ verdict'[r] = v /\ wait'[r] = Told(v, w)
         /\ \A q \in Calls : q # r => Same(q)
         /\ CountsHeld'
         /\ \A a \in Calls : a # r => Blocked(a)' /\ FullAt(a)'
<1>0. /\ TypeOK /\ TypeOK' /\ EntriesAllowed /\ CallsSound
      /\ pc \in [Calls -> {"new", "waiting", "open", "counted", "decided", "done"}]
      /\ key \in [Calls -> Keys \cup {NoKey}] /\ stamp \in [Calls -> 0..MaxClock]
      /\ verdict \in [Calls -> {"none", "allowed", "minute", "hour"}] /\ wait \in [Calls -> Int]
  BY DEF IInv, WaitInv, TypeOK
<1>1. /\ backend = "memory" /\ backend' = "memory" /\ clock' = clock /\ verdict[r] = "none"
      /\ key'[r] = k /\ stamp'[r] = clock /\ verdict'[r] = v /\ wait'[r] = Told(v, w)
  BY <1>0 DEF Begin, Answer, CallsSound
<1>2. \A q \in Calls : q # r => Same(q)
  BY <1>0 DEF Begin, Answer, Same
<1>3. CountsHeld'
  <2>1. \A a \in Calls : pc'[a] \notin {"counted", "decided"}
    BY <1>1 DEF IInv, CallsSound
  <2>. QED  BY <2>1 DEF CountsHeld
<1>4. ASSUME NEW a \in Calls, a # r PROVE Blocked(a)' /\ FullAt(a)'
  <2>1. CASE verdict[a] = "none"
    <3>1. verdict'[a] = "none"
      BY <1>2, <1>4, <2>1 DEF Same
    <3>. QED  BY <3>1 DEF Blocked, FullAt, Windows
  <2>2. CASE verdict[a] # "none"
    BY <1>0, <2>2, BlockedKept, FullKept DEF WaitInv
  <2>. QED  BY <2>1, <2>2
<1>. QED  BY <1>1, <1>2, <1>3, <1>4

LEMMA MemoryAdmits ==
  ASSUME IInv, IInv', WaitInv, Steady, NEW r \in Calls, NEW k \in Keys, Begin(r, k, "memory"),
         Answer(r, "allowed", 0),
         \A v \in Windows : Cardinality(Window(v, k)) < LimitOf(v),
         \A v \in Windows : EntriesOf(v)' \subseteq EntriesOf(v) \cup {r}
  PROVE  WaitInv'
<1>0. TypeOK /\ TypeOK' /\ EntriesAllowed /\ CallsSound /\ WindowsBound
  BY DEF IInv, WaitInv
<1>1. /\ backend = "memory" /\ backend' = "memory" /\ clock' = clock /\ verdict[r] = "none"
      /\ key'[r] = k /\ stamp'[r] = clock /\ verdict'[r] = "allowed"
      /\ \A q \in Calls : q # r => Same(q)
      /\ CountsHeld'
      /\ \A a \in Calls : a # r => Blocked(a)' /\ FullAt(a)'
  BY MemoryOthers
<1>2. EntriesAllowed'
  <2>. SUFFICES ASSUME NEW v \in Windows, NEW q \in EntriesOf(v)' PROVE verdict'[q] = "allowed"
    BY DEF EntriesAllowed
  <2>1. CASE q = r
    BY <1>1, <2>1
  <2>2. CASE q # r
    <3>1. q \in EntriesOf(v) /\ q \in Calls
      BY <1>0, <2>2, Entries
    <3>. QED  BY <1>0, <1>1, <2>2, <3>1 DEF EntriesAllowed, Same
  <2>. QED  BY <2>1, <2>2
<1>3. WindowsBound'
  <2>. SUFFICES ASSUME NEW v \in Windows, NEW j \in Keys
                PROVE  Cardinality(Window(v, j)') <= LimitOf(v)'
    BY DEF WindowsBound
  <2>1. LimitOf(v)' = LimitOf(v) /\ LimitOf(v) \in Nat
    BY <1>0, LimitKept, LimitType DEF Steady
  <2>2. Window(v, j)' \subseteq Calls /\ Window(v, j) \subseteq Calls
    BY <1>0 DEF Window, Of, EntriesOf, TypeOK
  <2>3. ASSUME NEW q \in Window(v, j)' PROVE q \in Window(v, j) \/ (q = r /\ j = k)
    <3>1. q \in EntriesOf(v)' /\ key'[q] = j /\ stamp'[q] >= clock' - AgeOf(v)
      BY DEF Window, Of, AgeOf
    <3>2. CASE q = r
      BY <1>1, <3>1, <3>2
    <3>3. CASE q # r
      <4>1. q \in EntriesOf(v) /\ Same(q)
        BY <1>0, <1>1, <3>1, <3>3, Entries
      <4>. QED  BY <1>1, <3>1, <4>1 DEF Window, Of, Same
    <3>. QED  BY <3>2, <3>3
  <2>4. CASE j = k
    <3>1. Cardinality(Window(v, j)') <= Cardinality(Window(v, j)) + 1
      BY <2>2, <2>3, OneMore
    <3>2. Cardinality(Window(v, j)) < LimitOf(v)
      BY <2>4
    <3>. QED  BY <2>1, <2>2, <3>1, <3>2, CallSets
  <2>5. CASE j # k
    <3>1. Cardinality(Window(v, j)') <= Cardinality(Window(v, j))
      BY <2>2, <2>3, <2>5, Fewer
    <3>2. Cardinality(Window(v, j)) <= LimitOf(v)
      BY <1>0, <1>1 DEF WindowsBound
    <3>. QED  BY <2>1, <2>2, <3>1, <3>2, CallSets
  <2>. QED  BY <2>4, <2>5
<1>4. Blocked(r)' /\ FullAt(r)' /\ Room(r)'
  BY <1>1 DEF Blocked, FullAt, Room, Windows
<1>5. ASSUME NEW a \in Calls, a # r PROVE Room(a)'
  <2>1. CASE verdict[a] \notin Windows
    <3>1. verdict'[a] \notin Windows
      BY <1>1, <1>5, <2>1 DEF Same
    <3>. QED  BY <3>1 DEF Room
  <2>2. CASE verdict[a] \in Windows
    <3>1. stamp[a] <= clock /\ stamp[a] \in Nat /\ clock \in Nat
      BY <1>0 DEF CallsSound, TypeOK
    <3>2. key[a] # k \/ stamp[a] # clock
      <4>. SUFFICES ASSUME key[a] = k, stamp[a] = clock PROVE FALSE
        OBVIOUS
      <4>1. PICK v \in Windows : verdict[a] = v
        BY <2>2
      <4>2. Cardinality(Window(v, k)) >= LimitOf(v)
        BY <1>1, <4>1 DEF WaitInv, FullAt
      <4>3. Cardinality(Window(v, k)) < LimitOf(v) /\ LimitOf(v) \in Nat
        BY <1>0, LimitType
      <4>4. Window(v, k) \subseteq Calls
        BY <1>0 DEF Window, Of, EntriesOf, TypeOK
      <4>. QED  BY <4>2, <4>3, <4>4, CallSets
    <3>3. \A q \in Calls : verdict'[q] = "allowed" =>
             verdict[q] = "allowed" \/ key'[q] # key[a] \/ stamp'[q] > stamp[a]
      BY <1>1, <3>1, <3>2 DEF Same
    <3>4. verdict[a] # "none"
      BY <2>2 DEF Windows
    <3>. QED  BY <1>0, <3>3, <3>4, RoomKept DEF WaitInv
  <2>. QED  BY <2>1, <2>2
<1>. QED  BY <1>1, <1>2, <1>3, <1>4, <1>5 DEF WaitInv

\* A second more than was told is enough: the oldest entry is out of the window.
LEMMA TellsEnough ==
  ASSUME NEW now \in Nat, NEW t \in Nat, NEW age \in Nat, t >= now - age,
         NEW w, w = Until(t, age, now)
  PROVE  t + age < now + (w + 1) * Second
<1>. DEFINE x == age - (now - t)
<1>1. x \in Int /\ x >= 0 /\ w = Seconds(x)
  BY DEF Until
<1>2. w \in Int /\ x < (w + 1) * Second
  BY <1>1, SecondsRound
<1>3. (w + 1) * Second \in Int
  BY <1>2, TimeAssumption
<1>. QED  BY <1>2, <1>3

LEMMA MemoryRefuses ==
  ASSUME IInv, IInv', WaitInv, Steady, NEW r \in Calls, NEW k \in Keys, Begin(r, k, "memory"),
         NEW v \in Windows, NEW t \in Oldest(Window(v, k)),
         Answer(r, v, Until(t, AgeOf(v), clock)),
         Cardinality(Window(v, k)) >= LimitOf(v),
         minute' \subseteq minute, hour' \subseteq hour
  PROVE  WaitInv'
<1>. DEFINE w == Until(t, AgeOf(v), clock)
            W == Window(v, k)
<1>0. TypeOK /\ TypeOK' /\ EntriesAllowed /\ EntriesSound /\ WindowsBound
  BY DEF IInv, WaitInv
<1>1. /\ backend = "memory" /\ backend' = "memory" /\ clock' = clock /\ verdict[r] = "none"
      /\ key'[r] = k /\ stamp'[r] = clock /\ verdict'[r] = v /\ wait'[r] = Told(v, w)
      /\ \A q \in Calls : q # r => Same(q)
      /\ CountsHeld'
      /\ \A a \in Calls : a # r => Blocked(a)' /\ FullAt(a)'
  BY MemoryOthers
<1>2. \A u \in Windows : EntriesOf(u)' \subseteq EntriesOf(u)
  BY DEF EntriesOf
<1>3. EntriesAllowed'
  <2>. SUFFICES ASSUME NEW u \in Windows, NEW q \in EntriesOf(u)' PROVE verdict'[q] = "allowed"
    BY DEF EntriesAllowed
  <2>1. q \in Calls /\ verdict[q] = "allowed"
    BY <1>0, <1>2, Entries DEF EntriesAllowed
  <2>. QED  BY <1>1, <2>1 DEF Same
<1>4. WindowsBound'
  BY <1>0, <1>2, WindowsKept
<1>5. ASSUME NEW a \in Calls, a # r PROVE Room(a)'
  <2>1. CASE verdict[a] = "none"
    <3>1. verdict'[a] = "none"
      BY <1>1, <1>5, <2>1 DEF Same
    <3>. QED  BY <3>1 DEF Room, Windows
  <2>2. CASE verdict[a] # "none"
    <3>1. \A q \in Calls : verdict'[q] = "allowed" => verdict[q] = "allowed"
      BY <1>1 DEF Same, Windows
    <3>. QED  BY <1>0, <2>2, <3>1, RoomKept DEF WaitInv
  <2>. QED  BY <2>1, <2>2
<1>6. /\ W \subseteq Calls /\ Cardinality(W) \in Nat
      /\ LimitOf(v)' = LimitOf(v) /\ LimitOf(v) \in Nat /\ Cardinality(W) <= LimitOf(v)
      /\ AgeOf(v) \in Nat /\ clock \in Nat
  <2>1. W \subseteq Calls
    BY <1>0, Entries DEF Window, Of
  <2>. QED  BY <1>0, <1>1, <2>1, CallSets, LimitKept, LimitType, Ages DEF Steady, WindowsBound, TypeOK
<1>7. t \in Nat /\ (\E o \in W : stamp[o] = t) /\ \A q \in W : t <= stamp[q]
  BY <1>0, <1>6, OldestOf
<1>8. t >= clock - AgeOf(v)
  BY <1>7 DEF Window
<1>9. FullAt(r)'
  <2>1. W \subseteq Window(v, k)'
    BY <1>0, <1>1, WindowGrows
  <2>2. Window(v, k)' \subseteq Calls
    BY <1>0 DEF Window, Of, EntriesOf, TypeOK
  <2>3. Cardinality(W) <= Cardinality(Window(v, k)') /\ Cardinality(Window(v, k)') \in Nat
    BY <2>1, <2>2, Fewer, CallSets
  <2>4. Window(v, key[r])' = Window(v, k)'
    BY <1>1 DEF Window
  <2>5. Cardinality(Window(v, key[r])') >= LimitOf(v)'
    BY <1>6, <2>3, <2>4
  <2>. QED  BY <1>1, <2>5 DEF FullAt
<1>10. w \in Int /\ w * Second \in Int /\ (w + 1) * Second \in Int
  <2>1. w \in Int
    BY <1>6, <1>7, SecondsRound DEF Until
  <2>. HIDE DEF w
  <2>. QED  BY <2>1, TimeAssumption
<1>11. Told(v, w) \in Int /\ Told(v, w) >= w /\ (Told(v, w) > 1 => Told(v, w) = w)
  <2>. HIDE DEF w
  <2>. QED  BY <1>10, ToldWait DEF Windows
<1>12. Blocked(r)'
  <2>. SUFFICES ASSUME wait'[r] > 1, clock' < Due(r)'
                PROVE  Cardinality(Blocking(v, r)') >= LimitOf(v)'
    BY <1>1 DEF Blocked
  <2>0. Due(r)' = clock + w * Second
    <3>. HIDE DEF w
    <3>. QED  BY <1>1, <1>11 DEF Due
  <2>1. Due(r)' <= t + AgeOf(v)
    <3>1. clock < clock + w * Second
      BY <1>1, <2>0
    <3>. QED  BY <1>6, <1>7, <2>0, <3>1, TellsNotTooLong
  <2>2. ASSUME NEW q \in W PROVE q \in Blocking(v, r)'
    <3>1. q \in EntriesOf(v) /\ key[q] = k /\ stamp[q] >= clock - AgeOf(v) /\ q \in Calls
      BY <1>0, <2>2, Entries DEF Window, Of
    <3>2. verdict[q] = "allowed" /\ Same(q) /\ q \in EntriesOf(v)'
      BY <1>0, <3>1 DEF EntriesAllowed, Steady
    <3>3. stamp[q] \in Nat /\ t <= stamp[q]
      BY <1>0, <1>7, <2>2, <3>1 DEF TypeOK
    <3>4. Due(r)' \in Int
      BY <1>6, <1>10, <2>0
    <3>5. stamp[q] + AgeOf(v) >= Due(r)'
      BY <1>6, <1>7, <2>1, <3>3, <3>4
    <3>6. stamp'[q] + AgeOf(v)' >= Due(r)' /\ key'[q] = key'[r]
      BY <1>1, <3>1, <3>2, <3>5 DEF Same, AgeOf
    <3>. QED  BY <3>2, <3>6 DEF Blocking, Of
  <2>3. Blocking(v, r)' \subseteq Calls
    BY <1>0 DEF Blocking, Of, EntriesOf, TypeOK
  <2>4. Cardinality(W) <= Cardinality(Blocking(v, r)') /\ Cardinality(Blocking(v, r)') \in Nat
    BY <2>2, <2>3, Fewer, CallSets
  <2>. QED  BY <1>6, <2>4
<1>13. Room(r)'
  <2>. SUFFICES Cardinality(Left(v, r)') < LimitOf(v)
    BY <1>1, <1>6 DEF Room
  <2>1. PICK o \in W : stamp[o] = t
    BY <1>7, Zenon
  <2>2. t + AgeOf(v) < Late(r)' /\ Late(r)' \in Int
    <3>1. t + AgeOf(v) < clock + (w + 1) * Second
      BY <1>6, <1>7, <1>8, TellsEnough
    <3>. HIDE DEF w
    <3>2. Late(r)' = clock + (Told(v, w) + 1) * Second
      BY <1>1 DEF Late
    <3>3. (w + 1) * Second <= (Told(v, w) + 1) * Second /\ (Told(v, w) + 1) * Second \in Int
      BY <1>10, <1>11, TimeAssumption
    <3>. QED  BY <1>6, <1>7, <1>10, <3>1, <3>2, <3>3
  <2>3. ASSUME NEW q \in Left(v, r)' PROVE q \in W \ {o}
    <3>1. /\ q \in Calls /\ verdict'[q] = "allowed" /\ key'[q] = k
          /\ stamp'[q] + AgeOf(v) >= Late(r)'
      BY <1>1 DEF Left, AgeOf
    <3>2. q # r
      BY <1>1, <3>1 DEF Windows
    <3>3. verdict[q] = "allowed" /\ key[q] = k /\ stamp[q] + AgeOf(v) >= Late(r)' /\ stamp[q] \in Nat
      BY <1>0, <1>1, <3>1, <3>2 DEF Same, TypeOK
    <3>4. stamp[q] > t
      BY <1>6, <1>7, <2>2, <3>3
    <3>5. stamp[q] >= clock - AgeOf(v)
      BY <1>6, <1>7, <1>8, <3>3, <3>4
    <3>6. q \in EntriesOf(v)
      BY <1>0, <1>1, <1>6, <3>1, <3>3, <3>5 DEF EntriesSound, EntriesOf, AgeOf, Windows
    <3>7. q \in W
      BY <3>3, <3>5, <3>6 DEF Window, Of
    <3>. QED  BY <1>7, <2>1, <3>3, <3>4, <3>7
  <2>. HIDE DEF W
  <2>4. W \ {o} \subseteq Calls /\ IsFiniteSet(W)
    BY <1>6, CallSets
  <2>5. Cardinality(W \ {o}) = Cardinality(W) - 1
    BY <2>1, <2>4, FS_RemoveElement
  <2>6. Cardinality(Left(v, r)') <= Cardinality(W \ {o})
    BY <2>3, <2>4, Fewer
  <2>7. Left(v, r)' \subseteq Calls
    BY DEF Left
  <2>. QED  BY <1>6, <2>5, <2>6, <2>7, CallSets
<1>. QED  BY <1>1, <1>3, <1>4, <1>5, <1>9, <1>12, <1>13 DEF WaitInv

LEMMA WaitsStart == Init => WaitInv
<1>. SUFFICES ASSUME Init PROVE WaitInv
  OBVIOUS
<1>1. EntriesAllowed /\ CountsHeld
  BY DEF Init, EntriesAllowed, EntriesOf, CountsHeld
<1>2. \A r \in Calls : Blocked(r) /\ FullAt(r) /\ Room(r)
  BY DEF Init, Blocked, FullAt, Room, Windows
<1>3. WindowsBound
  <2>. SUFFICES ASSUME NEW v \in Windows, NEW k \in Keys PROVE Cardinality(Window(v, k)) <= LimitOf(v)
    BY DEF WindowsBound
  <2>1. Window(v, k) = {}
    BY DEF Init, Window, Of, EntriesOf
  <2>2. Cardinality(Window(v, k)) = 0
    BY <2>1, FS_EmptySet
  <2>3. LimitOf(v) \in Nat
    BY ConfigAssumption DEF Init, LimitOf, PerMinute, AtLeast
  <2>. QED  BY <2>2, <2>3
<1>. QED  BY <1>1, <1>2, <1>3 DEF WaitInv

LEMMA WaitsStep == ASSUME IInv, IInv', WaitInv, [Next]_vars PROVE WaitInv'
<1>0. Steady /\ TypeOK
  BY SteadyStep DEF IInv
<1>1. ASSUME NEW r \in Calls, NEW k \in Keys, MemoryCheck(r, k) PROVE WaitInv'
  <2>1. Begin(r, k, "memory")
    BY <1>0, <1>1, MemoryCases
  <2>2. CASE /\ Answer(r, "allowed", 0)
             /\ \A v \in Windows : Cardinality(Window(v, k)) < LimitOf(v)
             /\ \A v \in Windows : EntriesOf(v)' \subseteq EntriesOf(v) \cup {r}
    BY <1>0, <2>1, <2>2, MemoryAdmits
  <2>3. CASE /\ \E v \in Windows : \E t \in Oldest(Window(v, k)) :
                   /\ Answer(r, v, Until(t, AgeOf(v), clock))
                   /\ Cardinality(Window(v, k)) >= LimitOf(v)
             /\ minute' \subseteq minute /\ hour' \subseteq hour
    BY <1>0, <2>1, <2>3, MemoryRefuses
  <2>. QED  BY <1>0, <1>1, <2>2, <2>3, MemoryCases
<1>2. ASSUME NEW r \in Calls, PgAdmit(r) \/ PgRefuse(r) PROVE WaitInv'
  BY <1>0, <1>2, PgAdmitWaits, PgRefuseWaits
<1>3. CASE \/ CleanupExpired \/ Tick \/ UNCHANGED vars
           \/ \E k \in Keys : MemoryClean(k)
           \/ \E r \in Calls : \/ PgConnect(r) \/ PgCountMinute(r) \/ PgCountHour(r) \/ PgFail(r)
                               \/ \E k \in Keys : PgStart(r, k)
  BY <1>0, <1>3, CalmInv
<1>. QED  BY <1>1, <1>2, <1>3 DEF Next

LEMMA WaitInvariance == Spec => []WaitInv
  BY Invariance, WaitsStart, WaitsStep, PTL DEF Spec

\* NoIdleWait: for as long as a refused client was told to wait, if it was told more
\* than one second, the entries that refuse it are in the window (retry_after of
\* check_rate_limit and dispatch).
THEOREM NobodyWaitsForNothing == Spec => []NoIdleWait
<1>1. IInv /\ WaitInv => NoIdleWait
  <2>. SUFFICES ASSUME IInv, WaitInv, NEW r \in Calls, wait[r] > 1, clock < Due(r), NEW v \in Windows,
                       verdict[r] = v, backend = "memory" \/ v = "minute"
                PROVE  Cardinality({q \in Of(EntriesOf(v), key[r]) : stamp[q] > clock - AgeOf(v)})
                           >= LimitOf(v)
    BY DEF NoIdleWait, Windows, Due, EntriesOf, AgeOf, LimitOf
  <2>. DEFINE S == {q \in Of(EntriesOf(v), key[r]) : stamp[q] > clock - AgeOf(v)}
  <2>0. TypeOK /\ LimitOf(v) \in Nat /\ clock \in Nat /\ Due(r) \in Int /\ AgeOf(v) \in Nat
    BY DueType, LimitType, Ages DEF IInv
  <2>1. Cardinality(Blocking(v, r)) >= LimitOf(v)
    BY DEF WaitInv, Blocked
  <2>2. S \subseteq Calls /\ Blocking(v, r) \subseteq Calls
    BY <2>0, Entries DEF Of, Blocking
  <2>3. Blocking(v, r) \subseteq S
    <3>. SUFFICES ASSUME NEW q \in Blocking(v, r) PROVE stamp[q] > clock - AgeOf(v)
      BY DEF Blocking
    <3>1. stamp[q] \in Nat /\ stamp[q] + AgeOf(v) >= Due(r)
      BY <2>0, <2>2 DEF Blocking, TypeOK
    <3>. QED  BY <2>0, <3>1
  <2>. HIDE DEF S
  <2>4. Cardinality(Blocking(v, r)) <= Cardinality(S)
    BY <2>2, <2>3, Fewer
  <2>5. Cardinality(S) >= LimitOf(v)
    BY <2>0, <2>1, <2>2, <2>4, CallSets
  <2>. QED  BY <2>5 DEF S
<1>. QED  BY <1>1, Invariance, WaitInvariance, PTL

\* WaitIsEnough: under the lock a second more than was told leaves room for
\* another call (retry_after of InMemoryRateLimiter.check_rate_limit).
THEOREM WaitingHelps == Spec => []WaitIsEnough
<1>1. IInv /\ WaitInv => WaitIsEnough
  <2>. SUFFICES ASSUME IInv, WaitInv, NEW r \in Calls, backend = "memory", clock >= Late(r),
                       NEW v \in Windows, verdict[r] = v
                PROVE  Cardinality({q \in Of(Admitted, key[r]) :
                           stamp[q] <= stamp[r] /\ stamp[q] >= clock - AgeOf(v)}) < LimitOf(v)
    BY DEF WaitIsEnough, Windows, Late, AgeOf, LimitOf
  <2>. DEFINE S == {q \in Of(Admitted, key[r]) :
                      stamp[q] <= stamp[r] /\ stamp[q] >= clock - AgeOf(v)}
  <2>0. TypeOK /\ LimitOf(v) \in Nat /\ clock \in Nat /\ Late(r) \in Int /\ AgeOf(v) \in Nat
    BY DueType, LimitType, Ages DEF IInv
  <2>1. Cardinality(Left(v, r)) < LimitOf(v)
    BY DEF WaitInv, Room
  <2>2. S \subseteq Calls /\ Left(v, r) \subseteq Calls
    BY DEF Of, Admitted, Left
  <2>3. ASSUME NEW q \in S PROVE q \in Left(v, r)
    <3>1. /\ q \in Calls /\ q \in Admitted /\ key[q] = key[r]
          /\ stamp[q] <= stamp[r] /\ stamp[q] >= clock - AgeOf(v)
      BY <2>2, <2>3 DEF Of
    <3>2. verdict[q] = "allowed"
      BY <3>1 DEF Admitted, IInv, CallsSound
    <3>3. stamp[q] \in Nat
      BY <2>0, <3>1 DEF TypeOK
    <3>4. stamp[q] + AgeOf(v) >= Late(r)
      BY <2>0, <3>1, <3>3
    <3>. QED  BY <3>1, <3>2, <3>4 DEF Left
  <2>. HIDE DEF S
  <2>4. Cardinality(S) <= Cardinality(Left(v, r))
    BY <2>2, <2>3, Fewer
  <2>5. Cardinality(S) < LimitOf(v)
    BY <2>0, <2>1, <2>2, <2>4, CallSets
  <2>. QED  BY <2>5 DEF S
<1>. QED  BY <1>1, Invariance, WaitInvariance, PTL
==============================================================================
