---------------------------- MODULE DecisionCache ----------------------------
(***************************************************************************)
(* The optional cache of authorization decisions                           *)
(* (security/decision_cache.py) and the two gates that use it:             *)
(* enforce_operation_value (security/authorization.py) for an operation,   *)
(* _authorize_field_value (security/field_auth.py) for a field.            *)
(*                                                                         *)
(* A key is who asks, with which operation and arguments, and the gate.    *)
(* The authorizer is external: it is awaited, reads its policy at some     *)
(* moment and answers at a later one, or raises.                           *)
(***************************************************************************)
EXTENDS Integers, Sequences

CONSTANTS
    Calls,         \* passes through a gate that may overlap
    Callers,       \* who asks, for which operation, with which arguments
    Keyless,       \* callers without a key: anonymous, or arguments that are not JSON
    TTL,           \* ttl_seconds
    MaxEntries,    \* max_entries
    Patience,      \* how long the authorizer takes at most
    MaxChanges,    \* bound: changes of the policy
    MaxTime        \* bound of the clock

ASSUME CallerAssumption == Keyless \subseteq Callers
ASSUME CacheAssumption == TTL \in Nat /\ MaxEntries \in Nat /\ Patience \in Nat
ASSUME CacheBounds == MaxChanges \in Nat /\ MaxTime \in Nat

VARIABLES
    now,         \* the monotonic clock
    policy,      \* what the authorizer would say
    changes,     \* how often it has changed
    entries,     \* _entries, the least recently used first
    asked,       \* calls that await the authorizer
    began,       \* since when
    verdict,     \* what it has decided, before the call goes on
    last         \* history: when the policy was last so, by key, and when an
                 \* exception was last made a denial that is cached

cacheVars == <<now, policy, changes, entries, asked, began, verdict, last>>

Gates == {"operation", "field"}
Keys == Callers \X Gates
Never == -1

CacheInit ==
    /\ now = 0 /\ changes = 0
    /\ policy = [k \in Keys |-> "allow"]
    /\ entries = <<>>
    /\ asked = {}
    /\ began = [c \in Calls |-> 0]
    /\ verdict = [c \in Calls |-> "none"]
    /\ last = [k \in Keys |-> [d \in {"allow", "deny", "exception"} |->
                  IF d = "allow" THEN 0 ELSE Never]]

-----------------------------------------------------------------------------
make_key(k) == k[1] \notin Keyless

\* An ordered dictionary is a sequence of its items, in order; this one is without
\* item p.
Dropped(s, p) == [i \in 1..(Len(s) - 1) |-> IF i < p THEN s[i] ELSE s[i + 1]]

Known(k) == \E i \in DOMAIN entries : entries[i].key = k
Place(k) == CHOOSE i \in DOMAIN entries : entries[i].key = k
Without(k) == IF Known(k) THEN Dropped(entries, Place(k)) ELSE entries

\* Mutant: an entry is still served at the moment it expires.
FreshToTheEnd(k) == make_key(k) /\ Known(k) /\ now <= entries[Place(k)].expires

Fresh(k) == make_key(k) /\ Known(k) /\ now < entries[Place(k)].expires

Decision(k) == entries[Place(k)].decision

\* get: a hit is the most recently used entry, an expired entry is dropped.
get_hit(k) ==
    /\ Fresh(k)
    /\ entries' = Append(Without(k), entries[Place(k)])
get_miss(k) ==
    /\ ~ Fresh(k)
    /\ entries' = IF make_key(k) THEN Without(k) ELSE entries

\* put, with a fresh TTL; the least recently used entries go.
put(k, d) ==
    LET s == Append(Without(k), [key |-> k, expires |-> now + TTL, decision |-> d]) IN
    entries' = IF Len(s) > MaxEntries THEN Tail(s) ELSE s

-----------------------------------------------------------------------------
\* A fresh decision is replayed: the authorizer is not called.
Replay(k) ==
    /\ get_hit(k)
    /\ UNCHANGED <<now, policy, changes, asked, began, verdict, last>>

\* The authorizer is called.
Ask(c, k) ==
    /\ c \notin asked
    /\ get_miss(k)
    /\ asked' = asked \cup {c}
    /\ began' = [began EXCEPT ![c] = now]
    /\ UNCHANGED <<now, policy, changes, verdict, last>>

\* It decides by its policy, or raises a GraphQLError or something else, which
\* is the same at the gate of an operation.
Judge(c, k) ==
    /\ c \in asked /\ verdict[c] = "none"
    /\ \E d \in {policy[k], "exception"} \cup (IF k[2] = "field" THEN {"error"} ELSE {}) :
          /\ verdict' = [verdict EXCEPT ![c] = d]
          /\ last' = IF d = "exception" /\ k[2] = "field" /\ make_key(k) THEN [last EXCEPT ![k][d] = now] ELSE last
    /\ UNCHANGED <<now, policy, changes, entries, asked, began>>

\* What is cached: a clean answer; at the gate of a field also an exception,
\* which the adapter has made a denial.
Cacheable(c, k) ==
    make_key(k) /\ \/ verdict[c] \in {"allow", "deny"}
                   \/ verdict[c] = "exception" /\ k[2] = "field"

\* The answer arrives; whatever is not a clean allow denies.
Outcome(c) == IF verdict[c] = "allow" THEN "allow" ELSE "deny"

Answered(c, k) ==
    /\ c \in asked /\ verdict[c] # "none"
    /\ IF Cacheable(c, k) THEN put(k, Outcome(c)) ELSE UNCHANGED entries
    /\ asked' = asked \ {c}
    /\ began' = [began EXCEPT ![c] = 0]
    /\ verdict' = [verdict EXCEPT ![c] = "none"]
    /\ UNCHANGED <<now, policy, changes, last>>

-----------------------------------------------------------------------------
\* The last moment at which a policy was so moves with the clock while it is.
Stamp(p, t) == [k \in Keys |-> [last[k] EXCEPT ![p[k]] = t]]

Tick ==
    /\ now < MaxTime
    /\ \A c \in asked : now - began[c] < Patience
    /\ now' = now + 1
    /\ last' = Stamp(policy, now')
    /\ UNCHANGED <<policy, changes, entries, asked, began, verdict>>

ChangePolicy(k) ==
    /\ changes < MaxChanges
    /\ changes' = changes + 1
    /\ policy' = [policy EXCEPT ![k] = IF @ = "allow" THEN "deny" ELSE "allow"]
    /\ last' = Stamp(policy', now)
    /\ UNCHANGED <<now, entries, asked, began, verdict>>

\* Was so when an evaluation began that has just ended, or less than a TTL before
\* such a moment.
Recently(k, d) ==
    /\ last[k][d] # Never
    /\ now - last[k][d] <= Patience \/ now - last[k][d] < TTL + Patience
=============================================================================
