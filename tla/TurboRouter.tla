----------------------------- MODULE TurboRouter -----------------------------
(***************************************************************************)
(* TurboRouter and TurboRegistry (fastapi/turbo.py): the registry of       *)
(* prepared queries, which evicts the least recently used and has a second *)
(* index of Apollo hashes, and the execution of a registered query behind  *)
(* the two authorization gates of DecisionCache.                           *)
(*                                                                         *)
(* A text has a normalized and a raw hash.  An execution is a call of      *)
(* DecisionCache, at one gate after the other.                             *)
(***************************************************************************)
EXTENDS DecisionCache

CONSTANTS
    Texts,           \* texts of documents
    Hashes, NoHash,
    hash_query,      \* the hash of a text after normalization
    hash_query_raw,  \* and without
    Queries,         \* TurboQuery objects
    TextOf,          \* graphql_query of a TurboQuery
    Apollo,          \* its apollo_client_hash, or NoHash
    Stored,          \* pairs of a TurboQuery and a pre-computed raw hash
    Gated,           \* texts that select a gated field
    Shapes,          \* the texts that callers send, as pairs
    MaxSize,         \* max_size
    NoCaller

ASSUME RegistryAssumption ==
    /\ NoHash \notin Hashes /\ NoCaller \notin Callers
    /\ hash_query \in [Texts -> Hashes] /\ hash_query_raw \in [Texts -> Hashes]
    /\ TextOf \in [Queries -> Texts]
    /\ Apollo \in [Queries -> Hashes \cup {NoHash}]
    /\ Stored \subseteq Queries \X Hashes /\ Shapes \subseteq Texts \X Callers
    /\ MaxSize \in Nat \ {0}

VARIABLES
    queries,     \* _queries, the least recently used first
    apollo,      \* _apollo_hash_to_primary
    linked,      \* history: Apollo and primary hash of registrations still there
    shared,      \* history: Apollo hashes that were given to several primary hashes
    pc, caller,
    selects      \* calls whose text selects a gated field

registry == <<queries, apollo, linked, shared>>
calls == <<pc, caller, selects>>
turboVars == <<cacheVars, registry, calls>>

TurboInit ==
    /\ CacheInit
    /\ queries = <<>> /\ linked = {} /\ shared = {}
    /\ apollo = [h \in Hashes |-> NoHash]
    /\ pc = [c \in Calls |-> "idle"]
    /\ selects = {}
    /\ caller = [c \in Calls |-> NoCaller]

-----------------------------------------------------------------------------
Primaries(s) == {s[i][1] : i \in DOMAIN s}
PlaceOf(s, h) == CHOOSE i \in DOMAIN s : s[i][1] = h
QueryAt(s, h) == s[PlaceOf(s, h)][2]

move_to_end(s, h) == Append(Dropped(s, PlaceOf(s, h)), s[PlaceOf(s, h)])

\* A new query, and whether the oldest has to go.
Full == Len(queries) = MaxSize
Added(q, h) == Append(IF Full THEN Tail(queries) ELSE queries, <<h, q>>)

\* History: what is linked to a primary hash that is gone is forgotten; an Apollo
\* hash is shared once two registered queries have it.
Kept(s) == {l \in linked : l[2] \in Primaries(s)}
Owners(a) == {h \in Primaries(queries) : Apollo[QueryAt(queries, h)] = a}
             \cup {l[2] : l \in {m \in linked : m[1] = a}}
NoteShared == shared' = shared \cup {a \in Hashes : \E g, h \in Owners(a)' : g # h}

\* register: the Apollo hash of an evicted query stays.
Register(q) ==
    LET h == hash_query[TextOf[q]] IN
    /\ queries' = IF h \in Primaries(queries) THEN move_to_end(queries, h) ELSE Added(q, h)
    /\ linked' = Kept(queries')
    /\ NoteShared
    /\ UNCHANGED <<apollo, cacheVars, calls>>

\* The mapping of an evicted query is removed, that of the registered one made.
Unmapped(h) ==
    LET gone == Apollo[queries[1][2]] IN
    IF h \notin Primaries(queries) /\ Full /\ gone # NoHash
    THEN [apollo EXCEPT ![gone] = NoHash] ELSE apollo

\* Mutant: nothing is mapped for a query that is already registered.
MappedIfNew(q, h) ==
    IF h \notin Primaries(queries) /\ Apollo[q] \notin {NoHash, h}
    THEN [Unmapped(h) EXCEPT ![Apollo[q]] = h] ELSE Unmapped(h)

Mapped(q, h) ==
    IF Apollo[q] \notin {NoHash, h}
    THEN [Unmapped(h) EXCEPT ![Apollo[q]] = h] ELSE Unmapped(h)

register_with_raw_hash(q, h) ==
    LET a == Apollo[q] IN
    /\ queries' = IF h \in Primaries(queries) THEN move_to_end(queries, h) ELSE Added(q, h)
    /\ apollo' = Mapped(q, h)
    /\ linked' = Kept(queries') \cup (IF a \in {NoHash, h} THEN {} ELSE {<<a, h>>})
    /\ NoteShared
    /\ UNCHANGED <<cacheVars, calls>>

Clear ==
    /\ queries' = <<>> /\ linked' = {} /\ shared' = {}
    /\ apollo' = [h \in Hashes |-> NoHash]
    /\ UNCHANGED <<cacheVars, calls>>

\* Where a hash leads: to itself or through the second index.
Direct(h) == IF h \in Primaries(queries) THEN h ELSE NoHash
ByApollo(h) == IF apollo[h] = NoHash THEN NoHash ELSE Direct(apollo[h])
OrElse(h, g) == IF h # NoHash THEN h ELSE g

LookupHash(h) == OrElse(Direct(h), ByApollo(h))
LookupText(t) ==
    LET n == hash_query[t] r == hash_query_raw[t] IN
    OrElse(Direct(n), OrElse(Direct(r), OrElse(ByApollo(n), ByApollo(r))))

Touch(h) == queries' = IF h = NoHash THEN queries ELSE move_to_end(queries, h)

get_by_hash(h) ==
    /\ Touch(LookupHash(h))
    /\ UNCHANGED <<apollo, linked, shared, cacheVars, calls>>

-----------------------------------------------------------------------------
\* execute: a text that is not registered is left to other paths.
Execute(c, t, who) ==
    /\ pc[c] = "idle"
    /\ Touch(LookupText(t))
    /\ LookupText(t) # NoHash
    /\ pc' = [pc EXCEPT ![c] = "operation"]
    /\ selects' = IF t \in Gated THEN selects \cup {c} ELSE selects
    /\ caller' = [caller EXCEPT ![c] = who]
    /\ UNCHANGED <<apollo, linked, shared, cacheVars>>

\* The key of the gate a call is at.
KeyOf(c) == <<caller[c], pc[c]>>
AtGate(c) == pc[c] \in Gates /\ (pc[c] = "field" => c \in selects)

\* The call ends and forgets what it was for.
Finish(c, how) ==
    /\ pc' = [pc EXCEPT ![c] = how]
    /\ selects' = selects \ {c}
    /\ caller' = [caller EXCEPT ![c] = NoCaller]

\* A decision lets the call go on, or ends it.
Decide(c, d) ==
    /\ \/ d = "deny" /\ Finish(c, "refused")
       \/ /\ d = "allow"
          /\ pc' = [pc EXCEPT ![c] = IF @ = "operation" THEN "field" ELSE "sql"]
          /\ UNCHANGED <<selects, caller>>
    /\ UNCHANGED registry

ReplayFor(c) ==
    /\ AtGate(c) /\ c \notin asked
    /\ Replay(KeyOf(c))
    /\ Decide(c, Decision(KeyOf(c)))

AskFor(c) == AtGate(c) /\ Ask(c, KeyOf(c)) /\ UNCHANGED <<calls, registry>>

JudgeFor(c) == AtGate(c) /\ Judge(c, KeyOf(c)) /\ UNCHANGED <<calls, registry>>

ReturnFor(c) == AtGate(c) /\ Answered(c, KeyOf(c)) /\ Decide(c, Outcome(c))

\* No gated field is selected.
PassFields(c) ==
    /\ pc[c] = "field" /\ c \notin selects
    /\ pc' = [pc EXCEPT ![c] = "sql"]
    /\ UNCHANGED <<selects, caller, registry, cacheVars>>

\* The statement runs, with data or an error.
RunSql(c) ==
    /\ pc[c] = "sql"
    /\ Finish(c, "done")
    /\ UNCHANGED <<registry, cacheVars>>

-----------------------------------------------------------------------------
TurboNext ==
    \/ \E q \in Queries : Register(q)
    \/ \E s \in Stored : register_with_raw_hash(s[1], s[2])
    \/ Clear
    \/ \E h \in Hashes : get_by_hash(h)
    \/ \E c \in Calls :
          \/ \E s \in Shapes : Execute(c, s[1], s[2])
          \/ ReplayFor(c) \/ AskFor(c) \/ JudgeFor(c) \/ ReturnFor(c)
          \/ PassFields(c) \/ RunSql(c)
    \/ Tick /\ UNCHANGED <<registry, calls>>
    \/ \E k \in Keys : ChangePolicy(k) /\ UNCHANGED <<registry, calls>>

TurboSpec == TurboInit /\ [][TurboNext]_turboVars

-----------------------------------------------------------------------------
\* A query that was registered with an Apollo hash is found by it for as long as
\* it is registered, unless the same Apollo hash was given to another primary
\* hash as well or is itself one: then the eviction of one takes the mapping of
\* the other.
FoundByApollo ==
    \A l \in linked :
        l[1] \notin shared \cup Primaries(queries) => LookupHash(l[1]) = l[2]

\* A gate lets nobody through who was not allowed when the evaluation began that
\* lets him through, or less than a TTL and an evaluation ago, however the answers
\* of the authorizer overtake each other.
\* It refuses nobody who was not denied in that time, unless the authorizer
\* raised for this call or, at the gate of a field, in that time for another: such
\* an exception is cached as a denial, which OnlyAnswersAreCached is about.
DecisionIsRecent ==
    [][\A c \in Calls : AtGate(c) /\ pc'[c] # pc[c] =>
         IF pc'[c] # "refused" THEN Recently(KeyOf(c), "allow")
         ELSE \/ Recently(KeyOf(c), "deny")
              \/ verdict[c] \in {"error", "exception"}
              \/ pc[c] = "field" /\ Recently(KeyOf(c), "exception")]_turboVars

\* What the code and the documentation say (decision_cache.py:77, "only an
\* authorizer that *raises* is never cached, so a transient PDP error can neither
\* pin a deny nor leak an allow", and docs/security/authorization.md:287, "A
\* raising authorizer is never cached"): a decision in the cache is one that the
\* policy has given for its key.
OnlyAnswersAreCached ==
    \A i \in DOMAIN entries : last[entries[i].key][entries[i].decision] # Never
=============================================================================
