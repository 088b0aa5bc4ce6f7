-------------------------- MODULE PersistedQueries --------------------------
(***************************************************************************)
(* POST /graphql (fastapi/routers.py) with automatic persisted queries:    *)
(* requests that register, name or merely send a document; the stores of   *)
(* documents of a process and of its backend (storage/apq_store.py,        *)
(* storage/backends/memory.py and postgresql.py); the cache of responses   *)
(* (middleware/apq_caching.py); the authorization gates of a cached        *)
(* response; execution.                                                    *)
(*                                                                         *)
(* A document stands for its text and its hash: every store checks that    *)
(* they belong together.  A request asks for one operation of a document.  *)
(* A cached response is named by the request that was executed for it.     *)
(* A step runs from one await to the next.                                 *)
(***************************************************************************)
EXTENDS Naturals, FiniteSets

CONSTANTS
    Processes,     \* server processes
    Requests,      \* HTTP requests
    Docs,          \* documents, one for each hash
    Operations,    \* operations that can be asked for
    DocOf,         \* the document an operation is in
    Mutations,     \* the operations that are mutations
    Approved,      \* documents in apq_queries_dir
    TurboDocs,     \* documents that the TurboRouter may execute
    Callers,       \* who asks, with which variables
    User,          \* the user of a caller, Anonymous or NoId
    Scope,         \* the variables and the tenant of a caller
    Anonymous,     \* no context["user"]
    NoId,          \* authenticated, without a usable id
    Configs,       \* the configurations, with what other deployments register in the
                   \* same table and what authorizers may come to say
    Shapes,        \* the requests that clients send
    Database,      \* the home of the PostgreSQL backend
    MaxPolicies,   \* bound: changes of the authorization policy
    NoRequest      \* no request

ASSUME MapAssumption ==
    /\ DocOf \in [Operations -> Docs]
    /\ Mutations \subseteq Operations
    /\ Approved \subseteq Docs /\ TurboDocs \subseteq Docs
    /\ Database \notin Processes
    /\ NoRequest \notin Requests

ASSUME ConfigAssumption ==
    \A c \in Configs : /\ c.mode \in {"optional", "required", "disabled"}
                       /\ c.backend \in {"memory", "postgresql"}
                       /\ c.caching \in BOOLEAN
                       /\ c.auth \in BOOLEAN /\ c.decisions \in BOOLEAN
                       /\ c.foreign \subseteq Docs
                       /\ c.changes \subseteq [site : {"gate", "resolver", "field"}, caller : Callers,
                                               decision : {"allow", "filter", "deny"}]
                       /\ \A x \in c.changes : x.site = "field" => x.decision # "filter"

ASSUME ShapeAssumption ==
    Shapes \subseteq [process : Processes, kind : {"plain", "register", "mismatch", "hash"},
                      op : Operations, caller : Callers]

ASSUME BoundAssumption == MaxPolicies \in Nat

VARIABLES
    config,      \* apq_mode, apq_storage_backend, apq_cache_responses, auth_enabled,
                 \* whether there is a decision cache
    made,        \* processes whose _backend_cache has the backend
    global,      \* documents in the process-wide store of apq_store
    text,        \* documents in the _query_text_cache of a PostgreSQL backend
    table,       \* documents stored by the backend, by its home
    responses,   \* cached responses, by home and key
    policy,      \* what the authorizers say to a caller, by what they are asked
    policies,    \* how often the policy has changed
    pc,          \* where a request is
    req,         \* the request
    held,        \* the cached response it holds
    answer,      \* what it is answered
    source,      \* the request that was executed for the data it is answered
    legacy,      \* history: documents that other deployments have put into the table
    loaded,      \* history: approved documents whose files the process could read
    acked,       \* history: documents whose registration the process has answered
    promised,    \* history: requests whose document the process had loaded or
                 \* acknowledged when they came
    stored,      \* history: requests whose document the backend had when they came
    failed,      \* history: requests one of whose reads of a document failed
    said,        \* history: what the policy has been since a process started
    decisions,   \* history: what a request may have been told, by what was asked
    unchecked    \* history: what was not asked, or not about the request's document

stores == <<made, global, text, table, loaded>>
policyVars == <<policy, policies, said>>
history == <<legacy, acked, promised, stored, failed>>
seen == <<decisions, unchecked>>
vars == <<config, stores, responses, policyVars, pc, req, held, answer,
          source, history, seen>>

Homes == Processes \cup {Database}
Decision == {"allow", "filter", "deny"}

\* What is asked before data is handed out: the default authorizer, about the first
\* root field of the document (a gate without a resolver); the authorizer of the
\* operation, which may be its own; the default authorizer, about the fields.  A
\* decision cache does not tell the first two apart.
Sites == {"gate", "resolver", "field"}
Kind(s) == IF s = "field" THEN "field" ELSE "operation"
Kinds == {"operation", "field"}
Keys == Docs \X {<<User[c], Scope[c]>> : c \in Callers}
Answers == {"none", "data", "errors", "unauthorized", "rejected", "mismatch",
            "not_in_list", "not_found", "forbidden", "crashed"}
Steps == {"idle", "approve", "register", "lookup", "gate", "fields", "resolve",
          "run", "store", "done"}

TypeOK ==
    /\ config \in Configs
    /\ made \subseteq Processes
    /\ global \in [Processes -> SUBSET Docs]
    /\ text \in [Processes -> SUBSET Docs]
    /\ table \in [Homes -> SUBSET Docs]
    /\ responses \in [Homes -> [Keys -> Requests \cup {NoRequest}]]
    /\ policies \in Nat
    /\ policy \in [Sites -> [Callers -> Decision]]
    /\ said \in [Processes -> [Callers -> [Kinds -> SUBSET Decision]]]
    /\ pc \in [Requests -> Steps]
    /\ req \in [Requests -> Shapes \cup {NoRequest}]
    /\ held \in [Requests -> Requests \cup {NoRequest}]
    /\ answer \in [Requests -> Answers]
    /\ source \in [Requests -> Requests \cup {NoRequest}]
    /\ legacy \subseteq Docs
    /\ loaded \in [Processes -> SUBSET Docs]
    /\ acked \in [Processes -> SUBSET Docs]
    /\ promised \subseteq Requests /\ stored \subseteq Requests /\ failed \subseteq Requests
    /\ decisions \in [Requests -> [Sites -> SUBSET Decision]]
    /\ unchecked \in [Requests -> SUBSET Sites]

\* What a process that starts now can have been told.
Current == [c \in Callers |-> [k \in Kinds |-> {policy[s][c] : s \in {t \in Sites : Kind(t) = k}}]]

Init ==
    /\ config \in Configs
    /\ made = {}
    /\ global = [p \in Processes |-> {}]
    /\ text = [p \in Processes |-> {}]
    /\ legacy \in IF config.backend = "postgresql" THEN SUBSET config.foreign ELSE {{}}
    /\ table = [h \in Homes |-> IF h = Database THEN legacy ELSE {}]
    /\ responses = [h \in Homes |-> [k \in Keys |-> NoRequest]]
    /\ policies = 0
    /\ policy = [s \in Sites |-> [c \in Callers |-> "allow"]]
    /\ said = [p \in Processes |-> Current]
    /\ pc = [r \in Requests |-> "idle"]
    /\ req = [r \in Requests |-> NoRequest]
    /\ held = [r \in Requests |-> NoRequest]
    /\ answer = [r \in Requests |-> "none"]
    /\ source = [r \in Requests |-> NoRequest]
    /\ promised = {} /\ stored = {} /\ failed = {}
    /\ loaded = [p \in Processes |-> {}]
    /\ acked = [p \in Processes |-> {}]
    /\ decisions = [r \in Requests |-> [s \in Sites |-> {}]]
    /\ unchecked = [r \in Requests |-> {}]

-----------------------------------------------------------------------------
Proc(r) == req[r].process
Doc(r) == DocOf[req[r].op]
Caller(r) == req[r].caller

\* The PostgreSQL tables are shared, the dictionaries of a memory backend are not.
Home(p) == IF config.backend = "postgresql" THEN Database ELSE p

allows_arbitrary_queries == config.mode # "required"
processes_apq == config.mode # "disabled"

\* Mutant: who has no id shares the entries of anonymous callers.
response_cache_user_id_shared(c) ==
    <<TRUE, IF User[c] = NoId THEN Anonymous ELSE User[c]>>

\* response_cache_user_id, as (cacheable, user): an authenticated caller
\* without an id is not cached.
response_cache_user_id(c) == <<User[c] # NoId, User[c]>>

\* compute_response_cache_key with the tenant that the backend adds.
response_cache_key(d, c) == <<d, <<response_cache_user_id(c)[2], Scope[c]>>>>

\* A backend's get_persisted_query finds the document, or its SELECT fails.
BackendHas(p, d) == d \in text[p] \cup table[Home(p)]
ReadMayFail(p, d) == config.backend = "postgresql" /\ d \notin text[p]

\* A document that was read is kept in the process.
Remember(p, d) ==
    text' = IF config.backend = "postgresql" /\ d \in table[Database]
            THEN [text EXCEPT ![p] = @ \cup {d}] ELSE text

\* A read whose result matters only to what is kept.
Peek(p, d) ==
    /\ \/ Remember(p, d)
       \/ ReadMayFail(p, d) /\ UNCHANGED text
    /\ UNCHANGED <<made, global, table, loaded>>

\* What caller c may be told in process p: what the policy is, or a decision of
\* before that the decision cache has kept, which it does for known users only.
Verdicts(p, c, s) ==
    IF config.decisions /\ User[c] \notin {Anonymous, NoId}
    THEN said[p][c][Kind(s)] ELSE {policy[s][c]}

-----------------------------------------------------------------------------
\* A request comes in; what it finds is recorded.
Accept(r, q, step, result) ==
    /\ pc' = [pc EXCEPT ![r] = step]
    /\ req' = [req EXCEPT ![r] = q]
    /\ answer' = [answer EXCEPT ![r] = result]
    /\ promised' = IF DocOf[q.op] \in acked[q.process] \cup loaded'[q.process]
                   THEN promised \cup {r} ELSE promised
    /\ stored' = IF DocOf[q.op] \in table[Home(q.process)]
                 THEN stored \cup {r} ELSE stored
    /\ decisions' = [decisions EXCEPT ![r] =
                        [s \in Sites |-> Verdicts(q.process, q.caller, s)]]
    /\ UNCHANGED <<config, responses, policyVars, held, source, legacy, acked, failed, unchecked>>

Authenticated(q) == config.auth => User[q.caller] # Anonymous

\* auth_enabled and no authenticated caller: 401.
Unauthorized(r, q) ==
    /\ ~ Authenticated(q)
    /\ UNCHANGED stores
    /\ Accept(r, q, "done", "unauthorized")

\* 'required' mode and no hash.
RejectArbitrary(r, q) ==
    /\ Authenticated(q)
    /\ ~ allows_arbitrary_queries /\ q.kind = "plain"
    /\ UNCHANGED stores
    /\ Accept(r, q, "done", "rejected")

\* No hash, or hashes are ignored: the text runs.  Without a text there is
\* nothing to run.
SkipApq(r, q) ==
    /\ Authenticated(q)
    /\ \/ ~ processes_apq
       \/ allows_arbitrary_queries /\ q.kind = "plain"
    /\ UNCHANGED stores
    /\ IF q.kind = "hash" THEN Accept(r, q, "done", "errors")
                          ELSE Accept(r, q, "run", "none")

IsApq(q) == Authenticated(q) /\ processes_apq /\ q.kind # "plain"

\* The text sent is not the text of the hash.
RefuseMismatch(r, q) ==
    /\ IsApq(q) /\ q.kind = "mismatch"
    /\ UNCHANGED stores
    /\ Accept(r, q, "done", "mismatch")

\* The documents that load_queries_from_directory may find: a file that cannot be
\* read is logged and left out.
Readable == SUBSET Approved

\* get_apq_backend makes the backend on first use and registers the documents that
\* were read in it.
MakeBackend(p) ==
    \/ p \in made /\ UNCHANGED <<made, text, table, loaded>>
    \/ /\ p \notin made
       /\ made' = made \cup {p}
       /\ \E S \in Readable :
             /\ loaded' = [loaded EXCEPT ![p] = S]
             /\ table' = [table EXCEPT ![Home(p)] = @ \cup S]
             /\ text' = IF config.backend = "postgresql"
                        THEN [text EXCEPT ![p] = @ \cup S] ELSE text

\* register_queries fails: the exception ends the request, and the backend is
\* not kept.
BackendFails(r, q) ==
    /\ IsApq(q) /\ q.kind # "mismatch"
    /\ config.backend = "postgresql" /\ q.process \notin made /\ Approved # {}
    /\ UNCHANGED stores
    /\ Accept(r, q, "done", "crashed")

\* 'required' mode: a text that comes with its hash has to be approved.
StartApproval(r, q) ==
    /\ IsApq(q) /\ q.kind = "register" /\ ~ allows_arbitrary_queries
    /\ MakeBackend(q.process)
    /\ Accept(r, q, "approve", "none")
    /\ UNCHANGED global

\* Mutants: any registration is accepted; the process-wide store is left out.
StartRegistrationAnyMode(r, q) ==
    /\ IsApq(q) /\ q.kind = "register"
    /\ MakeBackend(q.process)
    /\ Accept(r, q, "register", "none")
    /\ global' = [global EXCEPT ![q.process] = @ \cup {DocOf[q.op]}]
StartRegistrationBackendOnly(r, q) ==
    /\ IsApq(q) /\ q.kind = "register" /\ allows_arbitrary_queries
    /\ MakeBackend(q.process)
    /\ Accept(r, q, "register", "none")
    /\ UNCHANGED global

\* A registration: the process-wide store first.
StartRegistration(r, q) ==
    /\ IsApq(q) /\ q.kind = "register" /\ allows_arbitrary_queries
    /\ MakeBackend(q.process)
    /\ Accept(r, q, "register", "none")
    /\ global' = [global EXCEPT ![q.process] = @ \cup {DocOf[q.op]}]

\* A hash without a text.
StartLookup(r, q) ==
    /\ IsApq(q) /\ q.kind = "hash"
    /\ MakeBackend(q.process)
    /\ Accept(r, q, "lookup", "none")
    /\ UNCHANGED global

-----------------------------------------------------------------------------
\* The request goes on to another step, or is answered.
Goto(r, from, to) ==
    /\ pc[r] = from
    /\ pc' = [pc EXCEPT ![r] = to]
    /\ UNCHANGED answer

Answer(r, from, result) ==
    /\ pc[r] = from
    /\ pc' = [pc EXCEPT ![r] = "done"]
    /\ answer' = [answer EXCEPT ![r] = result]

\* The document is read: from the backend or, when it has none or the read
\* fails, from the process-wide store.
ReadDocument(r, from, missing) ==
    LET p == Proc(r) d == Doc(r) IN
    /\ pc[r] = from
    /\ \/ /\ BackendHas(p, d) \/ d \in global[p]
          /\ Goto(r, from, "run")
          /\ UNCHANGED failed
       \/ /\ ~ BackendHas(p, d) /\ d \notin global[p]
          /\ Answer(r, from, missing)
          /\ UNCHANGED failed
    /\ Remember(p, d)
    /\ UNCHANGED <<made, global, table, loaded>>

ReadFails(r, from, missing) ==
    LET p == Proc(r) d == Doc(r) IN
    /\ pc[r] = from
    /\ ReadMayFail(p, d)
    /\ IF d \in global[p] THEN Goto(r, from, "run") ELSE Answer(r, from, missing)
    /\ failed' = failed \cup {r}
    /\ UNCHANGED stores

Approve(r) ==
    /\ \/ ReadDocument(r, "approve", "not_in_list")
       \/ ReadFails(r, "approve", "not_in_list")
    /\ UNCHANGED <<config, responses, policyVars, req, held, source,
                   legacy, acked, promised, stored, seen>>

Resolve(r) ==
    /\ \/ ReadDocument(r, "resolve", "not_found")
       \/ ReadFails(r, "resolve", "not_found")
    /\ UNCHANGED <<config, responses, policyVars, req, held, source,
                   legacy, acked, promised, stored, seen>>

\* The backend stores the document; a failure of PostgreSQL is logged.
Register(r) ==
    LET p == Proc(r) d == Doc(r) IN
    /\ Goto(r, "register", "run")
    /\ \/ /\ table' = [table EXCEPT ![Home(p)] = @ \cup {d}]
          /\ text' = IF config.backend = "postgresql"
                     THEN [text EXCEPT ![p] = @ \cup {d}] ELSE text
       \/ config.backend = "postgresql" /\ UNCHANGED <<table, text>>
    /\ UNCHANGED <<config, made, global, loaded, responses, policyVars, req, held,
                   source, history, seen>>

-----------------------------------------------------------------------------
Cached(r) == responses[Home(Proc(r))][response_cache_key(Doc(r), Caller(r))]

\* handle_apq_request_with_cache finds a response, or finds none, is not to
\* look, or fails.
CacheHit(r) ==
    /\ Goto(r, "lookup", "gate")
    /\ config.caching /\ response_cache_user_id(Caller(r))[1]
    /\ Cached(r) # NoRequest
    /\ Peek(Proc(r), Doc(r))
    /\ held' = [held EXCEPT ![r] = Cached(r)]
    /\ UNCHANGED <<config, responses, policyVars, req, source,
                   history, seen>>

CacheMiss(r) ==
    /\ Goto(r, "lookup", "resolve")
    /\ \/ ~ config.caching
       \/ ~ response_cache_user_id(Caller(r))[1]
       \/ Cached(r) = NoRequest
       \/ config.backend = "postgresql"
    /\ UNCHANGED <<config, stores, responses, policyVars, req, held, source, history, seen>>

\* The default authorizer is asked about the document whose text the backend
\* finds; without the text, about a query without a name.
Ask(r, d) ==
    LET p == Proc(r) IN
    \/ /\ BackendHas(p, Doc(r)) /\ Remember(p, Doc(r))
       /\ d \in Verdicts(p, Caller(r), "gate")
       /\ UNCHANGED unchecked
    \/ /\ ~ BackendHas(p, Doc(r)) \/ ReadMayFail(p, Doc(r))
       /\ unchecked' = [unchecked EXCEPT ![r] = @ \cup {"gate"}]
       /\ UNCHANGED text

\* Mutant: filters are not looked at.
GateIgnoresFilters(r) ==
    /\ pc[r] = "gate"
    /\ \E d \in Decision :
        /\ Ask(r, d)
        /\ \/ Answer(r, "gate", "forbidden")
           \/ d \in {"filter", "allow"} /\ Goto(r, "gate", "fields")
    /\ UNCHANGED <<config, made, global, table, loaded, responses, policyVars, req, held,
                   source, history, decisions>>

\* The gate of the operation: an error of the authorizer denies, a filter
\* cannot be applied to a cached response.
Gate(r) ==
    /\ pc[r] = "gate"
    /\ \E d \in Decision :
        /\ Ask(r, d)
        /\ \/ Answer(r, "gate", "forbidden")
           \/ d = "filter" /\ Goto(r, "gate", "resolve")
           \/ d = "allow" /\ Goto(r, "gate", "fields")
    /\ UNCHANGED <<config, made, global, table, loaded, responses, policyVars, req, held,
                   source, history, decisions>>

\* The gate of the fields, which needs the text of the document; without it
\* the response is served.
FieldGate(r) ==
    LET p == Proc(r) d == Doc(r) IN
    /\ pc[r] = "fields"
    /\ \/ /\ BackendHas(p, d) /\ Remember(p, d)
          /\ \/ Answer(r, "fields", "forbidden") /\ UNCHANGED source
             \/ /\ "allow" \in Verdicts(p, Caller(r), "field")
                /\ Answer(r, "fields", "data")
                /\ source' = [source EXCEPT ![r] = held[r]]
          /\ UNCHANGED unchecked
       \/ /\ ~ BackendHas(p, d) \/ ReadMayFail(p, d)
          /\ Answer(r, "fields", "data")
          /\ source' = [source EXCEPT ![r] = held[r]]
          /\ unchecked' = [unchecked EXCEPT ![r] = @ \cup {"field"}]
          /\ UNCHANGED text
    /\ UNCHANGED <<config, made, global, table, loaded, responses, policyVars, req, held,
                   history, decisions>>

-----------------------------------------------------------------------------
\* Resolvers ask the authorizer of their operation, the TurboRouter asks the
\* default one.
Asked(r) == IF Doc(r) \in TurboDocs THEN {"resolver", "gate"} ELSE {"resolver"}

\* The limits and the execution of the request; a filter narrows what is read.
\* Bytes that a resolver left in the context are handed out without a look at the
\* fields when graphql-core refuses them.  Errors may come from anywhere.
Execute(r) ==
    /\ pc[r] = "run"
    /\ pc' = [pc EXCEPT ![r] = "store"]
    /\ \/ \E s \in Asked(r) :
          /\ \E d \in Verdicts(Proc(r), Caller(r), s) : d # "deny"
          /\ \/ /\ "allow" \in Verdicts(Proc(r), Caller(r), "field")
                /\ UNCHANGED unchecked
             \/ /\ s = "resolver"
                /\ unchecked' = [unchecked EXCEPT ![r] = @ \cup {"field"}]
          /\ answer' = [answer EXCEPT ![r] = "data"]
          /\ source' = [source EXCEPT ![r] = r]
       \/ /\ answer' = [answer EXCEPT ![r] = "errors"]
          /\ UNCHANGED <<source, unchecked>>
    /\ UNCHANGED <<config, stores, responses, policyVars, req, held, history, decisions>>

\* apq_cache_target: the request had a hash that was processed.
HasCacheTarget(r) == config.caching /\ processes_apq /\ req[r].kind # "plain"

\* store_executed_response: queries only, no errors, an owner that can be told.
Storable(r) ==
    /\ HasCacheTarget(r)
    /\ req[r].op \notin Mutations
    /\ answer[r] = "data"
    /\ response_cache_user_id(Caller(r))[1]

\* The response is cached, unless PostgreSQL fails, and sent.
Store(r) ==
    /\ Goto(r, "store", "done")
    /\ \/ /\ Storable(r)
          /\ responses' = [responses EXCEPT ![Home(Proc(r))]
                               [response_cache_key(Doc(r), Caller(r))] = r]
       \/ /\ ~ Storable(r) \/ config.backend = "postgresql"
          /\ UNCHANGED responses
    /\ acked' = IF req[r].kind = "register" /\ config.mode = "optional"
                THEN [acked EXCEPT ![Proc(r)] = @ \cup {Doc(r)}] ELSE acked
    /\ UNCHANGED <<config, stores, policyVars, req, held, source,
                   legacy, promised, stored, failed, seen>>

-----------------------------------------------------------------------------
InFlight(r) == pc[r] \notin {"idle", "done"}

\* What an authorizer says to a caller changes; from then on a request may be told
\* so.
ChangePolicy(s, c, d) ==
    /\ policies < MaxPolicies
    /\ policies' = policies + 1
    /\ policy' = [policy EXCEPT ![s][c] = d]
    /\ said' = [p \in Processes |-> [said[p] EXCEPT ![c][Kind(s)] = @ \cup {d}]]
    /\ UNCHANGED <<config, stores, responses, pc, req, held, answer, source, history, unchecked>>
    /\ decisions' = [r \in Requests |->
                        IF InFlight(r)
                        THEN [t \in Sites |-> decisions[r][t] \cup Verdicts(Proc(r), Caller(r), t)']
                        ELSE decisions[r]]

\* Another deployment that uses the same table registers a document.
RegisterElsewhere(d) ==
    /\ config.backend = "postgresql" /\ d \notin table[Database]
    /\ table' = [table EXCEPT ![Database] = @ \cup {d}]
    /\ legacy' = legacy \cup {d}
    /\ UNCHANGED <<config, made, global, text, loaded, responses, policyVars, pc, req, held,
                   answer, source, acked, promised, stored, failed, seen>>

\* The TTL of a cached response runs out.
Expire(h, k) ==
    /\ responses[h][k] # NoRequest
    /\ responses' = [responses EXCEPT ![h][k] = NoRequest]
    /\ UNCHANGED <<config, stores, policyVars, pc, req, held, answer, source, history, seen>>

\* The process stops and starts again: what it kept in memory is gone.
Restart(p) ==
    /\ pc' = [r \in Requests |-> IF InFlight(r) /\ Proc(r) = p THEN "done" ELSE pc[r]]
    /\ answer' = [r \in Requests |-> IF InFlight(r) /\ Proc(r) = p
                                     THEN "crashed" ELSE answer[r]]
    /\ made' = made \ {p}
    /\ global' = [global EXCEPT ![p] = {}]
    /\ text' = [text EXCEPT ![p] = {}]
    /\ table' = [table EXCEPT ![p] = {}]
    /\ responses' = [responses EXCEPT ![p] = [k \in Keys |-> NoRequest]]
    /\ loaded' = [loaded EXCEPT ![p] = {}]
    /\ acked' = [acked EXCEPT ![p] = {}]
    /\ said' = [said EXCEPT ![p] = Current]
    /\ UNCHANGED <<config, policy, policies, req, held, source, legacy, promised,
                   stored, failed, seen>>

-----------------------------------------------------------------------------
Arrive(r, q) ==
    /\ pc[r] = "idle"
    /\ \/ Unauthorized(r, q) \/ RejectArbitrary(r, q) \/ SkipApq(r, q)
       \/ RefuseMismatch(r, q) \/ BackendFails(r, q) \/ StartApproval(r, q)
       \/ StartRegistration(r, q) \/ StartLookup(r, q)

Advance(r) ==
    \/ Approve(r) \/ Resolve(r) \/ Register(r) \/ CacheHit(r) \/ CacheMiss(r)
    \/ Gate(r) \/ FieldGate(r) \/ Execute(r) \/ Store(r)

Next ==
    \/ \E r \in Requests : (\E q \in Shapes : Arrive(r, q)) \/ Advance(r)
    \/ \E x \in config.changes : ChangePolicy(x.site, x.caller, x.decision)
    \/ \E d \in config.foreign : RegisterElsewhere(d)
    \/ \E h \in Homes, k \in Keys : Expire(h, k)
    \/ \E p \in Processes : Restart(p)

Spec == Init /\ [][Next]_vars

-----------------------------------------------------------------------------
\* A client is told that the server does not know a document only if this process
\* has neither read it from an approved file nor answered a registration of it since
\* it started and, unless a read of PostgreSQL failed, if the backend did not have it
\* when the request came.
KnownIsFound ==
    \A r \in Requests : answer[r] \in {"not_found", "not_in_list"} =>
        /\ r \notin promised
        /\ r \in stored => r \in failed

\* 'required' mode executes only approved documents and what other deployments have
\* put into the table of PostgreSQL, whatever was sent, registered or read.
OnlyApprovedRun ==
    \A r \in Requests :
        config.mode = "required" /\ pc[r] = "run" => Doc(r) \in Approved \cup legacy

\* A response that is served from the cache was executed for the same document,
\* variables, tenant and user, who is known by an id; for a document with one
\* operation it is an answer to the operation asked for.
CachedAnswerIsOwn ==
    \A r \in Requests : LET s == source[r] IN
        s \notin {NoRequest, r} =>
            /\ Doc(s) = Doc(r)
            /\ User[Caller(s)] = User[Caller(r)] /\ User[Caller(r)] # NoId
            /\ Scope[Caller(s)] = Scope[Caller(r)]
            /\ req[s].op \notin Mutations
            /\ \/ req[s].op = req[r].op
               \/ \E o \in Operations \ {req[r].op} : DocOf[o] = Doc(r)

\* Nobody is answered with data who could only be denied it during the whole request,
\* by the policy of that time or, with a decision cache, by that of any time since the
\* process started: by the authorizer of the operation (of a document that the
\* TurboRouter executes, or by the default one) when it is executed, by the default one,
\* and without filters, when it comes from the cache, and by that of the fields.  The
\* gates of a cached response need the text of the document, and bytes that
\* graphql-core refuses are not looked at: these requests are exempt.
NoDataWhileDenied ==
    \A r \in Requests : answer[r] = "data" =>
        /\ source[r] = r => \E s \in Asked(r) : \E d \in decisions[r][s] : d # "deny"
        /\ source[r] # r => "allow" \in decisions[r]["gate"] \/ "gate" \in unchecked[r]
        /\ "allow" \in decisions[r]["field"] \/ "field" \in unchecked[r]

\* What the code says of the response cache (apq_caching.py:328, "Only queries
\* are cached: a cached mutation would be answered from the cache instead of
\* running"): a mutation that is answered with data was executed.
MutationsAreExecuted ==
    \A r \in Requests :
        answer[r] = "data" /\ req[r].op \in Mutations => source[r] = r
=============================================================================
