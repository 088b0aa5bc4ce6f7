----------------------------- MODULE RateLimiter -----------------------------
(***************************************************************************)
(* Rate limiting (middleware/rate_limiter.py): the middleware over one of  *)
(* its two limiters.                                                       *)
(*                                                                         *)
(* InMemoryRateLimiter holds an asyncio lock for a whole call, clock read  *)
(* included: a call is one step.  PostgreSQLRateLimiter reads the clock of *)
(* the process, waits for a connection of the pool and runs its statements *)
(* under READ COMMITTED, NOW() being the start of the transaction: calls   *)
(* overlap.  Both keep one entry per admitted call in a window of a minute *)
(* and one of an hour; a call names the entries it makes.                  *)
(*                                                                         *)
(* Time is counted in ticks, of which a second has several: the code       *)
(* computes with fractions and answers in whole seconds.                   *)
(***************************************************************************)
EXTENDS Integers, FiniteSets

CONSTANTS
    Keys, Whitelist, Blacklist,
    Calls,
    NoKey,
    Configs,       \* limits: records of perMinute, perHour, burst
    Conns,         \* connections of the pools of all processes together
    Second, Minute, Hour,
    Patience,      \* ticks a transaction stays open at most
    MaxClock       \* bound of the clock

ASSUME KeyAssumption == NoKey \notin Keys /\ Whitelist \subseteq Keys /\ Blacklist \subseteq Keys
ASSUME CallAssumption == IsFiniteSet(Calls)
ASSUME ConfigAssumption == Configs \subseteq [perMinute : Nat, perHour : Nat, burst : Nat]
ASSUME ConnAssumption == Conns \in Nat \ {0}
ASSUME TimeAssumption ==
    /\ Second \in Nat \ {0} /\ Minute \in Nat /\ Hour \in Nat /\ Patience \in Nat
    /\ MaxClock \in Nat
    /\ Second <= Minute /\ Minute + Patience <= Hour

VARIABLES
    backend, config,
    clock,
    minute, hour,  \* calls with an entry in the minute and in the hour window
    pc, key,
    stamp,         \* time.time() of a call
    start,         \* NOW() of its transaction
    inMinute, inHour,  \* the entries it has counted
    verdict,
    wait           \* the seconds a refused client was told to wait

stores == <<minute, hour>>
call == <<key, stamp>>
result == <<verdict, wait>>
vars == <<backend, config, clock, stores, pc, call, start, inMinute, inHour, result>>

TypeOK ==
    /\ backend \in {"memory", "postgres"}
    /\ config \in Configs
    /\ clock \in 0..MaxClock
    /\ minute \subseteq Calls /\ hour \subseteq Calls
    /\ pc \in [Calls -> {"new", "waiting", "open", "counted", "decided", "done"}]
    /\ key \in [Calls -> Keys \cup {NoKey}]
    /\ stamp \in [Calls -> 0..MaxClock]
    /\ start \in [Calls -> 0..MaxClock]
    /\ inMinute \in [Calls -> SUBSET Calls]
    /\ inHour \in [Calls -> SUBSET Calls]
    /\ verdict \in [Calls -> {"none", "allowed", "minute", "hour"}]
    /\ wait \in [Calls -> Int]

Init ==
    /\ backend \in {"memory", "postgres"}
    /\ config \in Configs
    /\ clock = 0
    /\ minute = {} /\ hour = {}
    /\ pc = [r \in Calls |-> "new"]
    /\ key = [r \in Calls |-> NoKey]
    /\ stamp = [r \in Calls |-> 0]
    /\ start = [r \in Calls |-> 0]
    /\ inMinute = [r \in Calls |-> {}]
    /\ inHour = [r \in Calls |-> {}]
    /\ verdict = [r \in Calls |-> "none"]
    /\ wait = [r \in Calls |-> 0]

-----------------------------------------------------------------------------
(* What both limiters compute                                              *)

AtLeast(a, b) == IF a > b THEN a ELSE b

PerMinute == AtLeast(config.perMinute, config.burst)

\* Mutant: one more than the limit of a minute.
IsAllowedOneMore(m, h) == h < config.perHour /\ m <= PerMinute

\* Mutant: a burst is let through whatever the hour has seen.
IsAllowedBurst(m, h) == m < config.burst \/ (h < config.perHour /\ m < PerMinute)

\* _is_allowed()
IsAllowed(m, h) == h < config.perHour /\ m < PerMinute

\* int() of a time, in seconds: towards zero.
Seconds(x) == IF x >= 0 THEN x \div Second ELSE - ((- x) \div Second)

Of(S, k) == {q \in S : key[q] = k}

\* Mutant: window[-1]
Newest(S) == {t \in {stamp[q] : q \in S} : \A q \in S : t >= stamp[q]}

\* The time of the oldest of some entries, if any.
Oldest(S) == {t \in {stamp[q] : q \in S} : \A q \in S : t <= stamp[q]}

\* What dispatch() tells a refused client: max(1, retry_after).
Told(v, w) == IF v = "allowed" THEN 0 ELSE AtLeast(w, 1)

\* A check of a limited key is answered; what it has counted is forgotten.
Answer(r, v, w) ==
    /\ pc' = [pc EXCEPT ![r] = "done"]
    /\ inMinute' = [inMinute EXCEPT ![r] = {}]
    /\ inHour' = [inHour EXCEPT ![r] = {}]
    /\ verdict' = [verdict EXCEPT ![r] = v]
    /\ wait' = [wait EXCEPT ![r] = Told(v, w)]

\* Nothing remains of a call that fails; another one may have its name.
Forget(r) ==
    /\ pc' = [pc EXCEPT ![r] = "new"]
    /\ key' = [key EXCEPT ![r] = NoKey]
    /\ stamp' = [stamp EXCEPT ![r] = 0]
    /\ start' = [start EXCEPT ![r] = 0]
    /\ inMinute' = [inMinute EXCEPT ![r] = {}]
    /\ inHour' = [inHour EXCEPT ![r] = {}]
    /\ UNCHANGED result

\* A check of a key that is on neither list.
Begin(r, k, b) ==
    /\ backend = b /\ pc[r] = "new"
    /\ k \notin Blacklist \cup Whitelist
    /\ key' = [key EXCEPT ![r] = k]
    /\ stamp' = [stamp EXCEPT ![r] = clock]
    /\ UNCHANGED <<backend, config, clock>>

-----------------------------------------------------------------------------
(* InMemoryRateLimiter                                                     *)

\* _clean_window(): the deques are in the order of time.
Clean(S, k, age) == {q \in S : key[q] # k \/ stamp[q] >= clock - age}

\* Mutant: the age of the entry instead of what is left to it.
UntilAge(t, age, now) == Seconds(now - t)

\* Seconds until an entry of time t leaves a window.
Until(t, age, now) == Seconds(age - (now - t))

\* check_rate_limit(): the lock makes it one step.  A key that is limited is
\* counted and admitted or refused; the refusal reads the head of a deque, which
\* a limit of zero leaves empty (IndexError).
MemoryCheck(r, k) ==
    LET M == Of(Clean(minute, k, Minute), k)
        H == Of(Clean(hour, k, Hour), k)
        m == Cardinality(M)
        h == Cardinality(H)
        own == IF IsAllowed(m, h) THEN {r} ELSE {}
    IN  /\ Begin(r, k, "memory")
        /\ start' = [start EXCEPT ![r] = clock]
        /\ minute' = Clean(minute, k, Minute) \cup own
        /\ hour' = Clean(hour, k, Hour) \cup own
        /\ \/ IsAllowed(m, h) /\ Answer(r, "allowed", 0)
           \/ /\ ~ IsAllowed(m, h) /\ h < config.perHour
              /\ \E t \in Oldest(M) : Answer(r, "minute", Until(t, Minute, clock))
           \/ /\ h >= config.perHour
              /\ \E t \in Oldest(H) : Answer(r, "hour", Until(t, Hour, clock))

\* get_rate_limit_info(), and check_rate_limit() of a key of one of the lists or
\* with an empty deque: the windows of the key are cleaned.
MemoryClean(k) ==
    /\ backend = "memory"
    /\ minute' = Clean(minute, k, Minute)
    /\ hour' = Clean(hour, k, Hour)
    /\ UNCHANGED <<backend, config, clock, pc, call, start, inMinute, inHour, result>>

-----------------------------------------------------------------------------
(* PostgreSQLRateLimiter                                                   *)

Open == {q \in Calls : pc[q] \in {"open", "counted", "decided"}}

\* The call reads the clock and waits for a connection.
PgStart(r, k) ==
    /\ Begin(r, k, "postgres")
    /\ pc' = [pc EXCEPT ![r] = "waiting"]
    /\ UNCHANGED <<stores, start, inMinute, inHour, result>>

PgConnect(r) ==
    /\ pc[r] = "waiting"
    /\ Cardinality(Open) < Conns
    /\ pc' = [pc EXCEPT ![r] = "open"]
    /\ start' = [start EXCEPT ![r] = clock]
    /\ UNCHANGED <<backend, config, clock, stores, call, inMinute, inHour, result>>

\* The rows a transaction of call r has deleted, and no other sees so yet.
Outdated(r, S) == {q \in S : stamp[q] < start[r] - Hour}

Recent(r, S, age) == {q \in Of(S, key[r]) : stamp[q] > start[r] - age}

PgCountMinute(r) ==
    /\ pc[r] = "open"
    /\ pc' = [pc EXCEPT ![r] = "counted"]
    /\ inMinute' = [inMinute EXCEPT ![r] = Recent(r, minute, Minute)]
    /\ UNCHANGED <<backend, config, clock, stores, call, start, inHour, result>>

PgCountHour(r) ==
    /\ pc[r] = "counted"
    /\ pc' = [pc EXCEPT ![r] = "decided"]
    /\ inHour' = [inHour EXCEPT ![r] = Recent(r, hour, Hour)]
    /\ UNCHANGED <<backend, config, clock, stores, call, start, inMinute, result>>

Fits(r) == IsAllowed(Cardinality(inMinute[r]), Cardinality(inHour[r]))

\* ORDER BY request_time LIMIT 1; the whole window when there is no row.
WaitFor(r, S, age) ==
    LET rows == Of(S \ Outdated(r, S), key[r])
    IN  IF rows = {} THEN {Seconds(age)} ELSE {Until(t, age, stamp[r]) : t \in Oldest(rows)}

\* The INSERT of both rows and the commit.  A row of the same key and time
\* violates the primary key (PgFail).
PgAdmit(r) ==
    /\ pc[r] = "decided" /\ Fits(r)
    /\ \A q \in Of(minute, key[r]) : stamp[q] # stamp[r]
    /\ minute' = (minute \ Outdated(r, minute)) \cup {r}
    /\ hour' = (hour \ Outdated(r, hour)) \cup {r}
    /\ Answer(r, "allowed", 0)
    /\ UNCHANGED <<backend, config, clock, call, start>>

PgRefuse(r) ==
    /\ pc[r] = "decided" /\ ~ Fits(r)
    /\ minute' = minute \ Outdated(r, minute)
    /\ hour' = hour \ Outdated(r, hour)
    /\ \/ /\ Cardinality(inHour[r]) < config.perHour
          /\ \E w \in WaitFor(r, minute, Minute) : Answer(r, "minute", w)
       \/ /\ Cardinality(inHour[r]) >= config.perHour
          /\ \E w \in WaitFor(r, hour, Hour) : Answer(r, "hour", w)
    /\ UNCHANGED <<backend, config, clock, call, start>>

\* No connection in time, a failing statement, the primary key: rolled back.
PgFail(r) ==
    /\ pc[r] \notin {"new", "done"}
    /\ Forget(r)
    /\ UNCHANGED <<backend, config, clock, stores>>

-----------------------------------------------------------------------------
\* cleanup_expired().  It is also all that remains of check_rate_limit() of
\* PostgreSQL for a key of one of the lists, which is answered whatever the
\* counts; get_rate_limit_info() writes nothing.
CleanupExpired ==
    /\ minute' = {q \in minute :
                    stamp[q] >= clock - (IF backend = "memory" THEN Minute ELSE Hour)}
    /\ hour' = {q \in hour : stamp[q] >= clock - Hour}
    /\ UNCHANGED <<backend, config, clock, pc, call, start, inMinute, inHour, result>>

Tick ==
    /\ clock < MaxClock
    /\ \A r \in Open : clock < start[r] + Patience
    /\ clock' = clock + 1
    /\ UNCHANGED <<backend, config, stores, pc, call, start, inMinute, inHour, result>>

Next ==
    \/ CleanupExpired \/ Tick
    \/ \E k \in Keys : MemoryClean(k)
    \/ \E r \in Calls :
        \/ PgConnect(r) \/ PgCountMinute(r) \/ PgCountHour(r)
        \/ PgAdmit(r) \/ PgRefuse(r) \/ PgFail(r)
        \/ \E k \in Keys : MemoryCheck(r, k) \/ PgStart(r, k)

Spec == Init /\ [][Next]_vars

-----------------------------------------------------------------------------
(* Properties                                                              *)

\* Calls that have been let through, or will be unless the database fails.
Admitted == {r \in Calls : verdict[r] = "allowed" \/ (pc[r] = "decided" /\ Fits(r))}

\* How many more than the limit: the transactions that do not see each other.
Overshoot == IF backend = "memory" THEN 0 ELSE Conns - 1

\* The calls of k let through in the window of a given age that ends at t, of
\* which both the clock of the process and that of the transaction are in it.
Within(k, age, t) == {r \in Of(Admitted, k) : stamp[r] > t - age /\ start[r] <= t}

\* In no minute, wherever it begins, more calls of a key are let through than
\* the larger of requests_per_minute and burst_size: exactly under the lock, and
\* up to the connections of all instances less one more with calls that overlap.
AdmittedPerMinute ==
    \A k \in Keys, t \in 0..clock :
        Cardinality(Within(k, Minute, t)) <= PerMinute + Overshoot

\* The same of an hour and requests_per_hour, which no burst exceeds; rows are
\* deleted after an hour, so that what PostgreSQL sees of it is shorter by the
\* time a transaction takes.
AdmittedPerHour ==
    \A k \in Keys, t \in 0..clock :
        Cardinality(Within(k, IF backend = "memory" THEN Hour ELSE Hour - Patience, t))
            <= config.perHour + Overshoot

\* A refused client is not kept waiting for nothing: for as long as it was told
\* to wait, counted from the time its call has read, the entries that refuse
\* it are all in the window.  A client that was told the least, one second, may
\* wait that second for nothing: the oldest entry may be about to leave, or gone.
\* For the hour it is so under the lock only: rows that PostgreSQL has counted
\* may be deleted before the oldest is read.
NoIdleWait ==
    \A r \in Calls :
        wait[r] > 1 /\ clock < stamp[r] + wait[r] * Second =>
            /\ verdict[r] = "minute" =>
                 Cardinality({q \in Of(minute, key[r]) : stamp[q] > clock - Minute}) >= PerMinute
            /\ verdict[r] = "hour" /\ backend = "memory" =>
                 Cardinality({q \in Of(hour, key[r]) : stamp[q] > clock - Hour}) >= config.perHour

\* Under the lock a second more than was told is enough: by then the calls that
\* were let through before the refusal leave room for another.
WaitIsEnough ==
    \A r \in Calls :
        backend = "memory" /\ clock >= stamp[r] + (wait[r] + 1) * Second =>
            /\ verdict[r] = "minute" =>
                 Cardinality({q \in Of(Admitted, key[r]) :
                     stamp[q] <= stamp[r] /\ stamp[q] >= clock - Minute}) < PerMinute
            /\ verdict[r] = "hour" =>
                 Cardinality({q \in Of(Admitted, key[r]) :
                     stamp[q] <= stamp[r] /\ stamp[q] >= clock - Hour}) < config.perHour
=============================================================================
