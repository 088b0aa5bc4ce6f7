----------------------- MODULE PersistedQueriesProofs -----------------------
(***************************************************************************)
(* Proofs about PersistedQueries for any processes, requests, documents,   *)
(* callers and configurations.                                             *)
(***************************************************************************)
EXTENDS PersistedQueries, TLAPS

-----------------------------------------------------------------------------
(* Types                                                                   *)

\* A request that has come is known.
ReqsSound == \A r \in Requests : pc[r] # "idle" => req[r] \in Shapes

TInv == TypeOK /\ ReqsSound

LEMMA ShapeFields ==
    ASSUME NEW q \in Shapes
    PROVE  /\ q.process \in Processes /\ q.op \in Operations /\ q.caller \in Callers
           /\ q.kind \in {"plain", "register", "mismatch", "hash"}
           /\ DocOf[q.op] \in Docs
  BY ShapeAssumption, MapAssumption

LEMMA HomeType == ASSUME NEW p \in Processes PROVE Home(p) \in Homes
  BY DEF Home, Homes

LEMMA KeyType == ASSUME NEW d \in Docs, NEW c \in Callers
                 PROVE  response_cache_key(d, c) \in Keys
  BY DEF response_cache_key, response_cache_user_id, Keys

LEMMA AddTo ==
    ASSUME NEW D, NEW S, NEW f \in [D -> SUBSET S], NEW x \in D, NEW T \in SUBSET S
    PROVE  [f EXCEPT ![x] = @ \cup T] \in [D -> SUBSET S]
  OBVIOUS

LEMMA PutIn ==
    ASSUME NEW D, NEW E, NEW S, NEW f \in [D -> [E -> S]], NEW x \in D, NEW y \in E, NEW v \in S
    PROVE  [f EXCEPT ![x][y] = v] \in [D -> [E -> S]]
  OBVIOUS

LEMMA CurrentType ==
    ASSUME policy \in [Sites -> [Callers -> Decision]]
    PROVE  Current \in [Callers -> [Kinds -> SUBSET Decision]]
  BY DEF Current, Sites, Kinds

LEMMA VerdictType ==
    ASSUME TInv, NEW p \in Processes, NEW c \in Callers, NEW s \in Sites
    PROVE  Verdicts(p, c, s) \in SUBSET Decision
<1>1. Kind(s) \in Kinds
  BY DEF Kind, Kinds
<1>2. said[p][c][Kind(s)] \in SUBSET Decision
  BY <1>1 DEF TInv, TypeOK
<1>3. policy[s][c] \in Decision
  BY DEF TInv, TypeOK
<1> QED  BY <1>2, <1>3 DEF Verdicts

LEMMA TypeInit == Init => TInv
<1> SUFFICES ASSUME Init PROVE TInv
  OBVIOUS
<1>1. policy \in [Sites -> [Callers -> Decision]]
  BY DEF Init, Decision
<1>2. said \in [Processes -> [Callers -> [Kinds -> SUBSET Decision]]]
  BY <1>1, CurrentType DEF Init
<1>3. legacy \subseteq Docs /\ table \in [Homes -> SUBSET Docs]
  BY ConfigAssumption DEF Init
<1> QED  BY <1>1, <1>2, <1>3 DEF Init, TInv, TypeOK, ReqsSound, Homes, Keys, Answers, Steps

\* What arriving does to the variables that are not stores.
LEMMA AcceptTypes ==
    ASSUME TInv, NEW r \in Requests, NEW q \in Shapes, NEW step \in Steps, step # "idle",
           NEW result \in Answers, Accept(r, q, step, result)
    PROVE  /\ config' \in Configs
           /\ responses' \in [Homes -> [Keys -> Requests \cup {NoRequest}]]
           /\ policies' \in Nat /\ policy' \in [Sites -> [Callers -> Decision]]
           /\ said' \in [Processes -> [Callers -> [Kinds -> SUBSET Decision]]]
           /\ pc' \in [Requests -> Steps]
           /\ req' \in [Requests -> Shapes \cup {NoRequest}]
           /\ held' \in [Requests -> Requests \cup {NoRequest}]
           /\ answer' \in [Requests -> Answers]
           /\ source' \in [Requests -> Requests \cup {NoRequest}]
           /\ legacy' \subseteq Docs /\ acked' \in [Processes -> SUBSET Docs]
           /\ promised' \subseteq Requests /\ stored' \subseteq Requests /\ failed' \subseteq Requests
           /\ decisions' \in [Requests -> [Sites -> SUBSET Decision]]
           /\ unchecked' \in [Requests -> SUBSET Sites]
           /\ ReqsSound'
<1>1. [s \in Sites |-> Verdicts(q.process, q.caller, s)] \in [Sites -> SUBSET Decision]
  BY ShapeFields, VerdictType
<1> QED  BY <1>1 DEF TInv, TypeOK, ReqsSound, Accept, policyVars

\* The stores that making a backend leaves.
LEMMA MakeBackendTypes ==
    ASSUME TInv, NEW p \in Processes, MakeBackend(p)
    PROVE  /\ made' \subseteq Processes
           /\ text' \in [Processes -> SUBSET Docs]
           /\ table' \in [Homes -> SUBSET Docs]
           /\ loaded' \in [Processes -> SUBSET Docs]
<1>1. /\ made \subseteq Processes /\ text \in [Processes -> SUBSET Docs]
      /\ table \in [Homes -> SUBSET Docs] /\ loaded \in [Processes -> SUBSET Docs]
  BY DEF TInv, TypeOK
<1>2. CASE p \in made
  BY <1>1, <1>2 DEF MakeBackend
<1>3. CASE p \notin made
  <2>1. PICK S \in SUBSET Approved :
            /\ loaded' = [loaded EXCEPT ![p] = S]
            /\ table' = [table EXCEPT ![Home(p)] = @ \cup S]
            /\ text' = IF config.backend = "postgresql"
                       THEN [text EXCEPT ![p] = @ \cup S] ELSE text
    BY <1>3 DEF MakeBackend, Readable
  <2>2. S \in SUBSET Docs
    BY MapAssumption
  <2>3. table' \in [Homes -> SUBSET Docs]
    BY <1>1, <2>1, <2>2, HomeType
  <2>4. text' \in [Processes -> SUBSET Docs] /\ loaded' \in [Processes -> SUBSET Docs]
    BY <1>1, <2>1, <2>2
  <2> QED  BY <1>1, <1>3, <2>3, <2>4 DEF MakeBackend
<1> QED  BY <1>2, <1>3

LEMMA ArriveTypes ==
    ASSUME TInv, NEW r \in Requests, NEW q \in Shapes, Arrive(r, q)
    PROVE  TInv'
<1>1. q.process \in Processes /\ DocOf[q.op] \in Docs
  BY ShapeFields
<1>2. ASSUME NEW step \in Steps, step # "idle", NEW result \in Answers,
             Accept(r, q, step, result),
             /\ made' \subseteq Processes
             /\ global' \in [Processes -> SUBSET Docs]
             /\ text' \in [Processes -> SUBSET Docs]
             /\ table' \in [Homes -> SUBSET Docs]
             /\ loaded' \in [Processes -> SUBSET Docs]
      PROVE  TInv'
  BY <1>2, AcceptTypes DEF TInv, TypeOK
<1>3. ASSUME NEW step \in Steps, step # "idle", NEW result \in Answers,
             Accept(r, q, step, result), UNCHANGED stores
      PROVE  TInv'
  BY <1>2, <1>3 DEF TInv, TypeOK, stores
<1>4. ASSUME NEW step \in Steps, step # "idle", Accept(r, q, step, "none"),
             MakeBackend(q.process), global' \in [Processes -> SUBSET Docs]
      PROVE  TInv'
  BY <1>1, <1>2, <1>4, MakeBackendTypes DEF Answers
<1>5. CASE \/ Unauthorized(r, q) \/ RejectArbitrary(r, q) \/ SkipApq(r, q)
           \/ RefuseMismatch(r, q) \/ BackendFails(r, q)
  BY <1>3, <1>5 DEF Unauthorized, RejectArbitrary, SkipApq, RefuseMismatch, BackendFails,
     Answers, Steps
<1>6. CASE StartApproval(r, q) \/ StartLookup(r, q)
  BY <1>4, <1>6 DEF StartApproval, StartLookup, Steps, TInv, TypeOK
<1>7. CASE StartRegistration(r, q)
  <2>1. global' \in [Processes -> SUBSET Docs]
    BY <1>1, <1>7 DEF StartRegistration, TInv, TypeOK
  <2> QED  BY <1>4, <1>7, <2>1 DEF StartRegistration, Steps
<1> QED  BY <1>5, <1>6, <1>7 DEF Arrive

LEMMA KnownRequest ==
    ASSUME TInv, NEW r \in Requests, pc[r] # "idle"
    PROVE  /\ Proc(r) \in Processes /\ Doc(r) \in Docs /\ Caller(r) \in Callers
           /\ Home(Proc(r)) \in Homes
           /\ response_cache_key(Doc(r), Caller(r)) \in Keys
           /\ req[r] \in Shapes
  BY ShapeFields, HomeType, KeyType DEF TInv, ReqsSound, Proc, Doc, Caller

LEMMA RememberTypes ==
    ASSUME TInv, NEW p \in Processes, NEW d \in Docs
    PROVE  /\ Remember(p, d) => text' \in [Processes -> SUBSET Docs]
           /\ Peek(p, d) => text' \in [Processes -> SUBSET Docs]
<1>1. text \in [Processes -> SUBSET Docs]
  BY DEF TInv, TypeOK
<1>2. [text EXCEPT ![p] = @ \cup {d}] \in [Processes -> SUBSET Docs]
  BY <1>1, AddTo
<1> QED  BY <1>1, <1>2 DEF Remember, Peek

LEMMA ReadTypes ==
    ASSUME TInv, NEW r \in Requests, NEW from \in Steps \ {"idle"}, NEW missing \in Answers,
           ReadDocument(r, from, missing) \/ ReadFails(r, from, missing)
    PROVE  /\ text' \in [Processes -> SUBSET Docs]
           /\ UNCHANGED <<made, global, table, loaded>>
           /\ failed' \subseteq Requests
           /\ pc' \in [Requests -> Steps] /\ answer' \in [Requests -> Answers]
           /\ \A s \in Requests : pc'[s] # "idle" => pc[s] # "idle"
<1>1. pc[r] = from /\ Proc(r) \in Processes /\ Doc(r) \in Docs
  BY KnownRequest DEF ReadDocument, ReadFails
<1>2. text' \in [Processes -> SUBSET Docs] /\ UNCHANGED <<made, global, table, loaded>>
  BY <1>1, RememberTypes DEF ReadDocument, ReadFails, stores, TInv, TypeOK
<1>3. failed' \subseteq Requests
  BY DEF ReadDocument, ReadFails, TInv, TypeOK
<1>4. Goto(r, from, "run") \/ Answer(r, from, missing)
  BY DEF ReadDocument, ReadFails
<1>5. pc \in [Requests -> Steps] /\ answer \in [Requests -> Answers]
  BY DEF TInv, TypeOK
<1>6. "run" \in Steps /\ "done" \in Steps
  BY DEF Steps
<1> QED  BY <1>1, <1>2, <1>3, <1>4, <1>5, <1>6 DEF Goto, Answer

LEMMA UncheckedTypes ==
    ASSUME TInv, NEW r \in Requests, NEW s \in Sites
    PROVE  /\ unchecked \in [Requests -> SUBSET Sites]
           /\ [unchecked EXCEPT ![r] = @ \cup {s}] \in [Requests -> SUBSET Sites]
<1>1. unchecked \in [Requests -> SUBSET Sites]
  BY DEF TInv, TypeOK
<1> QED  BY <1>1, AddTo

LEMMA AdvanceTypes ==
    ASSUME TInv, NEW r \in Requests, Advance(r)
    PROVE  TInv'
<1> USE DEF TInv, TypeOK, ReqsSound, policyVars, history, seen
<1>1. CASE Approve(r) \/ Resolve(r)
  <2>1. PICK from \in {"approve", "resolve"}, missing \in {"not_in_list", "not_found"} :
            ReadDocument(r, from, missing) \/ ReadFails(r, from, missing)
    BY <1>1 DEF Approve, Resolve
  <2>2. from \in Steps \ {"idle"} /\ missing \in Answers
    BY DEF Steps, Answers
  <2> HIDE DEF TypeOK, ReqsSound
  <2>3. /\ text' \in [Processes -> SUBSET Docs]
        /\ UNCHANGED <<made, global, table, loaded>>
        /\ failed' \subseteq Requests
        /\ pc' \in [Requests -> Steps] /\ answer' \in [Requests -> Answers]
        /\ \A s \in Requests : pc'[s] # "idle" => pc[s] # "idle"
    BY <2>1, <2>2, ReadTypes
  <2> QED  BY <1>1, <2>3 DEF Approve, Resolve, TypeOK, ReqsSound
<1>2. CASE Register(r)
  <2>1. pc[r] # "idle" BY <1>2 DEF Register, Goto
  <2>2. Proc(r) \in Processes /\ Doc(r) \in Docs /\ Home(Proc(r)) \in Homes
    BY <2>1, KnownRequest
  <2>3. table' \in [Homes -> SUBSET Docs] /\ text' \in [Processes -> SUBSET Docs]
    <3> HIDE DEF TInv, TypeOK
    <3>1. table \in [Homes -> SUBSET Docs] /\ text \in [Processes -> SUBSET Docs]
      BY DEF TInv, TypeOK
    <3>2. /\ [table EXCEPT ![Home(Proc(r))] = @ \cup {Doc(r)}] \in [Homes -> SUBSET Docs]
          /\ [text EXCEPT ![Proc(r)] = @ \cup {Doc(r)}] \in [Processes -> SUBSET Docs]
      BY <2>2, <3>1, AddTo
    <3> QED  BY <1>2, <3>1, <3>2 DEF Register
  <2>4. pc' \in [Requests -> Steps] /\ \A s \in Requests : pc'[s] # "idle" => pc[s] # "idle"
    BY <1>2, <2>1 DEF Register, Goto, Steps
  <2> QED  BY <1>2, <2>3, <2>4 DEF Register, Goto
<1>3. CASE CacheHit(r)
  <2>1. pc[r] # "idle" BY <1>3 DEF CacheHit, Goto
  <2>2. text' \in [Processes -> SUBSET Docs] /\ UNCHANGED <<made, global, table, loaded>>
    BY <1>3, <2>1, KnownRequest, RememberTypes DEF CacheHit, Peek
  <2>3. Cached(r) \in Requests \cup {NoRequest}
    BY <2>1, KnownRequest DEF Cached
  <2> QED  BY <1>3, <2>1, <2>2, <2>3 DEF CacheHit, Goto, Steps
<1>4. CASE CacheMiss(r)
  BY <1>4 DEF CacheMiss, Goto, Steps, stores
<1>5. CASE Gate(r)
  <2>1. pc[r] # "idle" BY <1>5 DEF Gate
  <2>2. text' \in [Processes -> SUBSET Docs]
    BY <1>5, <2>1, KnownRequest, RememberTypes DEF Gate, Ask
  <2>3. unchecked' \in [Requests -> SUBSET Sites]
    <3> HIDE DEF TInv, TypeOK
    <3> QED  BY <1>5, UncheckedTypes DEF Gate, Ask, Sites
  <2>4. PICK step \in {"fields", "resolve", "done"}, result \in {answer[r], "forbidden"} :
            pc' = [pc EXCEPT ![r] = step] /\ answer' = [answer EXCEPT ![r] = result]
    BY <1>5 DEF Gate, Goto, Answer
  <2>5. pc' \in [Requests -> Steps] /\ answer' \in [Requests -> Answers]
    BY <2>4 DEF Steps, Answers
  <2> QED  BY <1>5, <2>1, <2>2, <2>3, <2>4, <2>5 DEF Gate
<1>6. CASE FieldGate(r)
  <2>1. pc[r] # "idle" BY <1>6 DEF FieldGate
  <2>2. text' \in [Processes -> SUBSET Docs]
    BY <1>6, <2>1, KnownRequest, RememberTypes DEF FieldGate
  <2>3. unchecked' \in [Requests -> SUBSET Sites]
    <3> HIDE DEF TInv, TypeOK
    <3> QED  BY <1>6, UncheckedTypes DEF FieldGate, Sites
  <2>4. /\ pc' \in [Requests -> Steps] /\ answer' \in [Requests -> Answers]
        /\ \A s \in Requests : pc'[s] # "idle" => pc[s] # "idle"
        /\ source' \in [Requests -> Requests \cup {NoRequest}]
    BY <1>6, <2>1 DEF FieldGate, Answer, Steps, Answers
  <2> QED  BY <1>6, <2>2, <2>3, <2>4 DEF FieldGate
<1>7. CASE Execute(r)
  <2>1. unchecked' \in [Requests -> SUBSET Sites]
    <3> HIDE DEF TInv, TypeOK
    <3> QED  BY <1>7, UncheckedTypes DEF Execute, Sites
  <2>2. /\ pc' = [pc EXCEPT ![r] = "store"] /\ pc[r] = "run"
        /\ \E result \in {"data", "errors"} : answer' = [answer EXCEPT ![r] = result]
        /\ source' \in {source, [source EXCEPT ![r] = r]}
    <3> HIDE DEF TInv, TypeOK
    <3> QED  BY <1>7 DEF Execute
  <2>3. /\ pc' \in [Requests -> Steps] /\ answer' \in [Requests -> Answers]
        /\ \A s \in Requests : pc'[s] # "idle" => pc[s] # "idle"
        /\ source' \in [Requests -> Requests \cup {NoRequest}]
    <3> HIDE DEF TInv, TypeOK
    <3>1. /\ pc \in [Requests -> Steps] /\ answer \in [Requests -> Answers]
          /\ source \in [Requests -> Requests \cup {NoRequest}]
      BY DEF TInv, TypeOK
    <3>2. "store" \in Steps /\ {"data", "errors"} \subseteq Answers
      BY DEF Steps, Answers
    <3> QED  BY <2>2, <3>1, <3>2
  <2> QED  BY <1>7, <2>1, <2>3 DEF Execute, stores
<1>8. CASE Store(r)
  <2>1. pc[r] # "idle" BY <1>8 DEF Store, Goto
  <2>2. /\ Proc(r) \in Processes /\ Doc(r) \in Docs /\ Home(Proc(r)) \in Homes
        /\ response_cache_key(Doc(r), Caller(r)) \in Keys
    BY <2>1, KnownRequest
  <2>3. responses' \in [Homes -> [Keys -> Requests \cup {NoRequest}]]
    <3> HIDE DEF TInv, TypeOK
    <3>1. responses \in [Homes -> [Keys -> Requests \cup {NoRequest}]]
      BY DEF TInv, TypeOK
    <3>2. [responses EXCEPT ![Home(Proc(r))][response_cache_key(Doc(r), Caller(r))] = r]
              \in [Homes -> [Keys -> Requests \cup {NoRequest}]]
      BY <2>2, <3>1, PutIn
    <3> QED  BY <1>8, <3>1, <3>2 DEF Store
  <2>4. acked' \in [Processes -> SUBSET Docs]
    BY <1>8, <2>2 DEF Store
  <2>5. pc' \in [Requests -> Steps] /\ \A s \in Requests : pc'[s] # "idle" => pc[s] # "idle"
    BY <1>8, <2>1 DEF Store, Goto, Steps
  <2> QED  BY <1>8, <2>3, <2>4, <2>5 DEF Store, Goto, stores
<1> QED  BY <1>1, <1>2, <1>3, <1>4, <1>5, <1>6, <1>7, <1>8 DEF Advance

LEMMA ChangeFields ==
    ASSUME TInv, NEW x \in config.changes
    PROVE  x.site \in Sites /\ x.caller \in Callers /\ x.decision \in Decision
  BY ConfigAssumption DEF TInv, TypeOK, Sites, Decision

LEMMA PolicyTypes ==
    ASSUME TInv, NEW s \in Sites, NEW c \in Callers, NEW d \in Decision, ChangePolicy(s, c, d)
    PROVE  TInv'
<1>1. policy' \in [Sites -> [Callers -> Decision]]
  BY DEF ChangePolicy, TInv, TypeOK
<1>2. said' \in [Processes -> [Callers -> [Kinds -> SUBSET Decision]]]
  <2>1. Kind(s) \in Kinds BY DEF Kind, Kinds
  <2>2. ASSUME NEW p \in Processes
        PROVE  [said[p] EXCEPT ![c][Kind(s)] = @ \cup {d}] \in [Callers -> [Kinds -> SUBSET Decision]]
    <3>1. said[p] \in [Callers -> [Kinds -> SUBSET Decision]] BY DEF TInv, TypeOK
    <3>2. [said[p][c] EXCEPT ![Kind(s)] = @ \cup {d}] \in [Kinds -> SUBSET Decision]
      BY <2>1, <3>1
    <3> QED  BY <2>1, <3>1, <3>2
  <2> QED  BY <2>2 DEF ChangePolicy
<1>3. ASSUME NEW r \in Requests, InFlight(r), NEW t \in Sites
      PROVE  Verdicts(Proc(r), Caller(r), t)' \in SUBSET Decision
  <2>1. Proc(r) \in Processes /\ Caller(r) \in Callers
    BY <1>3, KnownRequest DEF InFlight
  <2>2. Proc(r)' = Proc(r) /\ Caller(r)' = Caller(r)
    BY DEF ChangePolicy, Proc, Caller
  <2>3. Kind(t) \in Kinds BY DEF Kind, Kinds
  <2>4. policy'[t][Caller(r)] \in Decision /\ said'[Proc(r)][Caller(r)][Kind(t)] \in SUBSET Decision
    BY <1>1, <1>2, <2>1, <2>3
  <2> QED  BY <2>2, <2>4 DEF Verdicts
<1>4. decisions' \in [Requests -> [Sites -> SUBSET Decision]]
  <2>1. decisions \in [Requests -> [Sites -> SUBSET Decision]] BY DEF TInv, TypeOK
  <2>2. ASSUME NEW r \in Requests
        PROVE  (IF InFlight(r)
                THEN [t \in Sites |-> decisions[r][t] \cup Verdicts(Proc(r), Caller(r), t)']
                ELSE decisions[r]) \in [Sites -> SUBSET Decision]
    BY <1>3, <2>1
  <2> QED  BY <2>2 DEF ChangePolicy
<1> QED  BY <1>1, <1>2, <1>4 DEF ChangePolicy, TInv, TypeOK, ReqsSound, stores, history

LEMMA OtherTypes ==
    ASSUME TInv,
           \/ \E x \in config.changes : ChangePolicy(x.site, x.caller, x.decision)
           \/ \E d \in config.foreign : RegisterElsewhere(d)
           \/ \E h \in Homes, k \in Keys : Expire(h, k)
           \/ \E p \in Processes : Restart(p)
    PROVE  TInv'
<1>1. CASE \E x \in config.changes : ChangePolicy(x.site, x.caller, x.decision)
  BY <1>1, ChangeFields, PolicyTypes
<1>2. ASSUME NEW d \in config.foreign, RegisterElsewhere(d) PROVE TInv'
  <2>1. d \in Docs
    BY ConfigAssumption DEF TInv, TypeOK
  <2> QED  BY <1>2, <2>1 DEF RegisterElsewhere, TInv, TypeOK, ReqsSound, policyVars, seen, Homes
<1>3. CASE \E h \in Homes, k \in Keys : Expire(h, k)
  BY <1>3 DEF Expire, TInv, TypeOK, ReqsSound, policyVars, history, seen, stores
<1>4. CASE \E p \in Processes : Restart(p)
  <2>1. said' \in [Processes -> [Callers -> [Kinds -> SUBSET Decision]]]
    BY <1>4, CurrentType DEF Restart, TInv, TypeOK
  <2> QED  BY <1>4, <2>1 DEF Restart, TInv, TypeOK, ReqsSound, seen, Steps, Answers, Homes, InFlight
<1> QED  BY <1>1, <1>2, <1>3, <1>4

LEMMA TypeNext == TInv /\ [Next]_vars => TInv'
<1> SUFFICES ASSUME TInv, [Next]_vars PROVE TInv'
  OBVIOUS
<1>1. CASE UNCHANGED vars
  BY <1>1 DEF vars, TInv, TypeOK, ReqsSound, stores, policyVars, history, seen
<1>2. CASE Next
  BY <1>2, ArriveTypes, AdvanceTypes, OtherTypes DEF Next
<1> QED  BY <1>1, <1>2

LEMMA TypesHold == Spec => []TInv
  BY TypeInit, TypeNext, PTL DEF Spec

\* Type correctness of the stores, the caches and the requests.
THEOREM TypeCorrect == Spec => []TypeOK
<1>1. TInv => TypeOK
  BY DEF TInv
<1> QED  BY <1>1, TypesHold, PTL

-----------------------------------------------------------------------------
(* Which documents are found, and which run                                *)

\* What a process finds without a read that can fail.
Certain(p) == IF config.backend = "postgresql" THEN text[p] ELSE table[p]

\* What may be stored in 'required' mode.
Permitted == Approved \cup legacy

OnlyApprovedStored ==
    config.mode = "required" =>
        /\ \A p \in Processes : global[p] = {} /\ text[p] \subseteq Permitted
        /\ \A h \in Homes : table[h] \subseteq Permitted

\* What was acknowledged is in the process-wide store; what was read from the files
\* is in the backend.
StoresSound ==
    /\ OnlyApprovedStored
    /\ \A p \in Processes : acked[p] \subseteq global[p]
    /\ \A p \in Processes : /\ loaded[p] \subseteq Certain(p)
                            /\ p \notin made => loaded[p] = {}

\* What a request on its way relies on stays true until it is answered.
FlightSound(r) ==
    /\ pc[r] = "idle" => answer[r] = "none" /\ r \notin promised /\ r \notin stored
    /\ pc[r] = "register" => config.mode = "optional"
    /\ InFlight(r) => answer[r] \notin {"not_found", "not_in_list"}
    /\ InFlight(r) /\ config.mode = "optional" /\ req[r].kind = "register"
           => Doc(r) \in global[Proc(r)]
    /\ InFlight(r) /\ r \in promised => Doc(r) \in global[Proc(r)] \cup loaded[Proc(r)]
    /\ InFlight(r) /\ r \in stored => Doc(r) \in table[Home(Proc(r))]

KnownFor(r) ==
    answer[r] \in {"not_found", "not_in_list"} =>
        /\ r \notin promised
        /\ r \in stored => r \in failed

ApprovedFor(r) == config.mode = "required" /\ pc[r] = "run" => Doc(r) \in Permitted

RequestSound(r) == FlightSound(r) /\ KnownFor(r) /\ ApprovedFor(r)

KInv == StoresSound /\ \A r \in Requests : RequestSound(r)

LEMMA KnownInit == Init => KInv
  BY DEF Init, KInv, StoresSound, OnlyApprovedStored, Permitted, RequestSound, FlightSound,
         KnownFor, ApprovedFor, InFlight

\* The stores grow.
Grows ==
    /\ config' = config /\ Permitted \subseteq Permitted'
    /\ \A p \in Processes : global[p] \subseteq global'[p] /\ loaded[p] \subseteq loaded'[p]
    /\ \A h \in Homes : table[h] \subseteq table'[h]

\* Nothing of a request changes.
Untouched(s) ==
    /\ pc'[s] = pc[s] /\ req'[s] = req[s] /\ answer'[s] = answer[s]
    /\ s \in promised' <=> s \in promised
    /\ s \in stored' <=> s \in stored
    /\ s \in failed => s \in failed'

LEMMA UntouchedSound ==
    ASSUME TInv, Grows, NEW s \in Requests, RequestSound(s), Untouched(s)
    PROVE  RequestSound(s)'
<1>1. CASE pc[s] = "idle"
  BY <1>1 DEF RequestSound, FlightSound, KnownFor, ApprovedFor, InFlight, Untouched
<1>2. CASE pc[s] # "idle"
  <2>1. Proc(s) \in Processes /\ Home(Proc(s)) \in Homes
    BY <1>2, KnownRequest
  <2>2. Proc(s)' = Proc(s) /\ Doc(s)' = Doc(s) /\ Home(Proc(s))' = Home(Proc(s))
    BY DEF Untouched, Proc, Doc, Home, Grows
  <2> QED  BY <1>2, <2>1, <2>2 DEF RequestSound, FlightSound, KnownFor, ApprovedFor, InFlight,
              Untouched, Grows
<1> QED  BY <1>1, <1>2

\* Enough for a step of one request.
LEMMA StepOfOne ==
    ASSUME TInv, KInv, Grows, NEW r \in Requests,
           \A s \in Requests \ {r} : Untouched(s),
           StoresSound', RequestSound(r)'
    PROVE  KInv'
  BY UntouchedSound DEF KInv

LEMMA AcceptKnown ==
    ASSUME TInv, KInv, NEW r \in Requests, NEW q \in Shapes, pc[r] = "idle",
           NEW step \in Steps, NEW result \in Answers, Accept(r, q, step, result)
    PROVE  /\ \A s \in Requests \ {r} : Untouched(s)
           /\ pc'[r] = step /\ req'[r] = q /\ answer'[r] = result
           /\ Proc(r)' = q.process /\ Doc(r)' = DocOf[q.op] /\ config' = config
           /\ acked' = acked /\ legacy' = legacy
           /\ r \in promised' => DocOf[q.op] \in global[q.process] \cup loaded'[q.process]
           /\ r \in stored' => DocOf[q.op] \in table[Home(q.process)]
<1>1. r \notin promised /\ r \notin stored
  BY DEF KInv, RequestSound, FlightSound
<1>2. acked[q.process] \subseteq global[q.process]
  BY ShapeFields DEF KInv, StoresSound
<1>3. \A s \in Requests \ {r} : Untouched(s)
  BY DEF TInv, TypeOK, Accept, Untouched
<1>4. pc'[r] = step /\ req'[r] = q /\ answer'[r] = result
  BY DEF TInv, TypeOK, Accept
<1>5. config' = config /\ acked' = acked /\ legacy' = legacy
  BY DEF Accept
<1>6. /\ r \in promised' => DocOf[q.op] \in global[q.process] \cup loaded'[q.process]
      /\ r \in stored' => DocOf[q.op] \in table[Home(q.process)]
  BY <1>1, <1>2 DEF Accept
<1> QED  BY <1>3, <1>4, <1>5, <1>6 DEF Proc, Doc

\* A backend that is made has what was read from the files, and keeps the rest.
LEMMA MakeBackendKnown ==
    ASSUME TInv, KInv, NEW p \in Processes, MakeBackend(p), config' = config, legacy' = legacy
    PROVE  /\ \A h \in Homes : table[h] \subseteq table'[h]
           /\ config.mode = "required" =>
                  /\ \A o \in Processes : text'[o] \subseteq Permitted
                  /\ \A h \in Homes : table'[h] \subseteq Permitted
           /\ \A o \in Processes : /\ loaded[o] \subseteq loaded'[o]
                                   /\ loaded'[o] \subseteq Certain(o)'
                                   /\ o \notin made' => loaded'[o] = {}
<1>1. /\ text \in [Processes -> SUBSET Docs] /\ table \in [Homes -> SUBSET Docs]
      /\ loaded \in [Processes -> SUBSET Docs]
  BY DEF TInv, TypeOK
<1>2. /\ config.mode = "required" =>
             /\ \A o \in Processes : text[o] \subseteq Permitted
             /\ \A h \in Homes : table[h] \subseteq Permitted
      /\ \A o \in Processes : /\ loaded[o] \subseteq Certain(o)
                              /\ o \notin made => loaded[o] = {}
  BY DEF KInv, StoresSound, OnlyApprovedStored
<1>3. CASE p \in made
  BY <1>2, <1>3 DEF MakeBackend, Certain
<1>4. CASE p \notin made
  <2>1. made' = made \cup {p}
    BY <1>4 DEF MakeBackend
  <2>2. PICK S \in SUBSET Approved :
            /\ loaded' = [loaded EXCEPT ![p] = S]
            /\ table' = [table EXCEPT ![Home(p)] = @ \cup S]
            /\ text' = IF config.backend = "postgresql"
                       THEN [text EXCEPT ![p] = @ \cup S] ELSE text
    BY <1>4 DEF MakeBackend, Readable
  <2>3. \A h \in Homes : table'[h] = IF h = Home(p) THEN table[h] \cup S ELSE table[h]
    BY <1>1, <2>2, HomeType
  <2>4. \A o \in Processes :
            /\ text'[o] = IF config.backend = "postgresql" /\ o = p
                          THEN text[o] \cup S ELSE text[o]
            /\ loaded'[o] = IF o = p THEN S ELSE loaded[o]
    BY <1>1, <2>2
  <2>5. \A o \in Processes : loaded'[o] \subseteq Certain(o)'
    BY <1>2, <2>3, <2>4 DEF Certain, Home, Homes
  <2>6. S \subseteq Permitted
    BY DEF Permitted
  <2> QED  BY <1>2, <1>4, <2>1, <2>3, <2>4, <2>5, <2>6
<1> QED  BY <1>3, <1>4

LEMMA ArriveKnown ==
    ASSUME TInv, KInv, NEW r \in Requests, NEW q \in Shapes, Arrive(r, q)
    PROVE  KInv'
<1>1. pc[r] = "idle" BY DEF Arrive
<1>2. q.process \in Processes /\ DocOf[q.op] \in Docs /\ Home(q.process) \in Homes
  BY ShapeFields, HomeType
<1>3. ASSUME NEW step \in {"run", "done"},
             NEW result \in {"none", "errors", "unauthorized", "rejected", "mismatch", "crashed"},
             Accept(r, q, step, result), UNCHANGED stores,
             step = "run" => config.mode = "disabled" \/ q.kind = "plain",
             step = "run" => config.mode # "required"
      PROVE  KInv'
  <2>1. step \in Steps /\ result \in Answers BY DEF Steps, Answers
  <2>2. /\ \A s \in Requests \ {r} : Untouched(s)
        /\ pc'[r] = step /\ req'[r] = q /\ answer'[r] = result
        /\ Proc(r)' = q.process /\ Doc(r)' = DocOf[q.op] /\ config' = config
        /\ acked' = acked /\ legacy' = legacy
        /\ r \in promised' => DocOf[q.op] \in global[q.process] \cup loaded'[q.process]
        /\ r \in stored' => DocOf[q.op] \in table[Home(q.process)]
    BY <1>1, <1>3, <2>1, AcceptKnown
  <2>3. Grows BY <1>3, <2>2 DEF Grows, stores, Permitted
  <2>4. StoresSound'
    BY <1>3, <2>2 DEF KInv, StoresSound, OnlyApprovedStored, Permitted, Certain, stores
  <2>5. RequestSound(r)'
    BY <1>3, <2>2 DEF RequestSound, FlightSound, KnownFor, ApprovedFor, InFlight, stores, Home
  <2> QED  BY <2>2, <2>3, <2>4, <2>5, StepOfOne
<1>4. ASSUME NEW step \in {"approve", "register", "lookup"}, Accept(r, q, step, "none"),
             MakeBackend(q.process),
             IF step = "register"
             THEN /\ config.mode = "optional"
                  /\ global' = [global EXCEPT ![q.process] = @ \cup {DocOf[q.op]}]
             ELSE /\ global' = global
                  /\ config.mode = "optional" => q.kind # "register"
      PROVE  KInv'
  <2>1. step \in Steps /\ "none" \in Answers BY DEF Steps, Answers
  <2>2. /\ \A s \in Requests \ {r} : Untouched(s)
        /\ pc'[r] = step /\ req'[r] = q /\ answer'[r] = "none"
        /\ Proc(r)' = q.process /\ Doc(r)' = DocOf[q.op] /\ config' = config
        /\ acked' = acked /\ legacy' = legacy
        /\ r \in promised' => DocOf[q.op] \in global[q.process] \cup loaded'[q.process]
        /\ r \in stored' => DocOf[q.op] \in table[Home(q.process)]
    BY <1>1, <1>4, <2>1, AcceptKnown
  <2>3. /\ \A h \in Homes : table[h] \subseteq table'[h]
        /\ config.mode = "required" =>
               /\ \A o \in Processes : text'[o] \subseteq Permitted
               /\ \A h \in Homes : table'[h] \subseteq Permitted
        /\ \A o \in Processes : /\ loaded[o] \subseteq loaded'[o]
                                /\ loaded'[o] \subseteq Certain(o)'
                                /\ o \notin made' => loaded'[o] = {}
    BY <1>2, <1>4, <2>2, MakeBackendKnown
  <2>4. \A p \in Processes : global'[p] = IF step = "register" /\ p = q.process
                             THEN global[p] \cup {DocOf[q.op]} ELSE global[p]
    BY <1>2, <1>4 DEF TInv, TypeOK
  <2>5. \A p \in Processes : global[p] \subseteq global'[p]
    BY <2>4
  <2>6. Permitted' = Permitted
    BY <2>2 DEF Permitted
  <2>7. Grows
    BY <2>2, <2>3, <2>5, <2>6 DEF Grows
  <2>8. StoresSound'
    <3>1. /\ config.mode = "required" => \A p \in Processes : global[p] = {}
          /\ \A p \in Processes : acked[p] \subseteq global[p]
      BY DEF KInv, StoresSound, OnlyApprovedStored
    <3>2. config.mode = "required" => \A p \in Processes : global'[p] = {}
      BY <1>4, <3>1
    <3>3. OnlyApprovedStored'
      BY <2>2, <2>3, <2>6, <3>2 DEF OnlyApprovedStored
    <3>4. \A p \in Processes : acked'[p] \subseteq global'[p]
      BY <2>2, <2>5, <3>1
    <3> QED  BY <2>3, <3>3, <3>4 DEF StoresSound
  <2>9. RequestSound(r)'
    <3>1. Home(Proc(r))' = Home(q.process)
      BY <2>2 DEF Home
    <3>2. step = "register" => Doc(r)' \in global'[q.process]
      BY <1>2, <2>2, <2>4
    <3>3. r \in promised' => Doc(r)' \in global'[q.process] \cup loaded'[q.process]
      BY <1>2, <2>2, <2>5
    <3>4. r \in stored' => Doc(r)' \in table'[Home(q.process)]
      BY <1>2, <2>2, <2>3
    <3>5. FlightSound(r)'
      BY <1>4, <2>2, <3>1, <3>2, <3>3, <3>4 DEF FlightSound
    <3> QED  BY <1>4, <2>2, <3>5 DEF RequestSound, KnownFor, ApprovedFor
  <2> QED  BY <2>2, <2>7, <2>8, <2>9, StepOfOne
<1>5. config.mode \in {"optional", "required", "disabled"}
  BY ConfigAssumption DEF TInv, TypeOK
<1>6. CASE \/ Unauthorized(r, q) \/ RejectArbitrary(r, q) \/ SkipApq(r, q)
           \/ RefuseMismatch(r, q) \/ BackendFails(r, q)
  BY <1>3, <1>5, <1>6 DEF Unauthorized, RejectArbitrary, SkipApq, RefuseMismatch,
     BackendFails, allows_arbitrary_queries, processes_apq
<1>7. CASE StartApproval(r, q)
  BY <1>4, <1>7 DEF StartApproval, allows_arbitrary_queries
<1>8. CASE StartLookup(r, q)
  BY <1>4, <1>8 DEF StartLookup
<1>9. CASE StartRegistration(r, q)
  BY <1>4, <1>5, <1>9 DEF StartRegistration, IsApq, allows_arbitrary_queries, processes_apq
<1> QED  BY <1>6, <1>7, <1>8, <1>9 DEF Arrive

\* The texts that are kept grow, by stored documents.
TextGrows ==
    /\ \A p \in Processes : text[p] \subseteq text'[p]
    /\ config.mode = "required" => \A p \in Processes : text'[p] \subseteq Permitted

\* What has to be shown of a step that takes a request on.
LEMMA StepOn ==
    ASSUME TInv, KInv, NEW r \in Requests, pc[r] # "idle", InFlight(r),
           NEW step, step \notin {"idle", "register"}, NEW result,
           pc' = [pc EXCEPT ![r] = step],
           answer' = [answer EXCEPT ![r] = result],
           UNCHANGED <<config, req, promised, stored, made, global, loaded, legacy>>,
           failed \subseteq failed',
           TextGrows,
           \A h \in Homes : table[h] \subseteq table'[h],
           config.mode = "required" => \A h \in Homes : table'[h] \subseteq Permitted,
           \A p \in Processes : acked'[p] \subseteq global[p],
           result \in {"not_found", "not_in_list"} =>
               /\ step = "done" /\ r \notin promised
               /\ r \in stored => r \in failed',
           step = "run" /\ config.mode = "required" => Doc(r) \in Permitted
    PROVE  KInv'
<1>1. pc'[r] = step /\ answer'[r] = result
      /\ \A s \in Requests \ {r} : pc'[s] = pc[s] /\ answer'[s] = answer[s]
  BY DEF TInv, TypeOK
<1>2. \A s \in Requests \ {r} : Untouched(s)
  BY <1>1 DEF Untouched
<1>3. Permitted' = Permitted
  BY DEF Permitted
<1>4. StoresSound' /\ Grows
  <2>1. \A p \in Processes : Certain(p) \subseteq Certain(p)'
    BY DEF Certain, TextGrows, Homes
  <2> QED  BY <1>3, <2>1 DEF KInv, StoresSound, OnlyApprovedStored, TextGrows, Grows
<1>5. RequestSound(r)'
  <2>1. /\ Proc(r)' = Proc(r) /\ Doc(r)' = Doc(r) /\ Home(Proc(r))' = Home(Proc(r))
        /\ Home(Proc(r)) \in Homes
    BY KnownRequest DEF Proc, Doc, Home
  <2>2. FlightSound(r)
    BY DEF KInv, RequestSound
  <2>3. FlightSound(r)'
    BY <1>1, <2>1, <2>2 DEF FlightSound, InFlight
  <2>4. KnownFor(r)' /\ ApprovedFor(r)'
    BY <1>1, <1>3, <2>1 DEF KnownFor, ApprovedFor
  <2> QED  BY <2>3, <2>4 DEF RequestSound
<1> QED  BY <1>2, <1>4, <1>5, StepOfOne

LEMMA RememberGrows ==
    ASSUME TInv, KInv, NEW p \in Processes, NEW d \in Docs, Remember(p, d) \/ text' = text
    PROVE  TextGrows
<1>1. text \in [Processes -> SUBSET Docs] /\ Database \in Homes
  BY DEF TInv, TypeOK, Homes
<1>2. config.mode = "required" =>
          (\A o \in Processes : text[o] \subseteq Permitted) /\ table[Database] \subseteq Permitted
  BY <1>1 DEF KInv, StoresSound, OnlyApprovedStored
<1> QED  BY <1>1, <1>2 DEF TextGrows, Remember

\* A document that is not found is in none of the stores that were read.
LEMMA ReadKnown ==
    ASSUME TInv, KInv, NEW r \in Requests, NEW from \in {"approve", "resolve"},
           NEW missing \in {"not_found", "not_in_list"},
           ReadDocument(r, from, missing) \/ ReadFails(r, from, missing),
           UNCHANGED <<config, req, acked, promised, stored, legacy>>
    PROVE  KInv'
<1>1. pc[r] = from /\ pc[r] # "idle" /\ InFlight(r)
  BY DEF ReadDocument, ReadFails, InFlight
<1>2. Proc(r) \in Processes /\ Doc(r) \in Docs /\ Home(Proc(r)) \in Homes
  BY <1>1, KnownRequest
<1>3. /\ loaded[Proc(r)] \subseteq Certain(Proc(r))
      /\ r \in promised => Doc(r) \in global[Proc(r)] \cup loaded[Proc(r)]
      /\ r \in stored => Doc(r) \in table[Home(Proc(r))]
      /\ answer[r] \notin {"not_found", "not_in_list"}
  BY <1>1, <1>2 DEF KInv, StoresSound, RequestSound, FlightSound, InFlight
<1>4. config.mode = "required" =>
          /\ global[Proc(r)] = {} /\ text[Proc(r)] \subseteq Permitted
          /\ table[Home(Proc(r))] \subseteq Permitted
  BY <1>2 DEF KInv, StoresSound, OnlyApprovedStored
<1>5. /\ UNCHANGED <<made, global, table, loaded>> /\ TextGrows /\ failed \subseteq failed'
  BY <1>2, RememberGrows DEF ReadDocument, ReadFails, stores
<1>6. /\ \A h \in Homes : table[h] \subseteq table'[h]
      /\ config.mode = "required" => \A h \in Homes : table'[h] \subseteq Permitted
      /\ \A p \in Processes : acked'[p] \subseteq global[p]
  BY <1>5 DEF KInv, StoresSound, OnlyApprovedStored
<1>7. CASE Goto(r, from, "run") /\ (BackendHas(Proc(r), Doc(r)) \/ Doc(r) \in global[Proc(r)])
  <2>1. answer' = [answer EXCEPT ![r] = answer[r]]
    BY <1>7 DEF Goto, TInv, TypeOK
  <2>2. pc' = [pc EXCEPT ![r] = "run"]
    BY <1>7 DEF Goto
  <2>3. config.mode = "required" => Doc(r) \in Permitted
    BY <1>4, <1>7 DEF BackendHas
  <2> QED  BY <1>1, <1>3, <1>5, <1>6, <2>1, <2>2, <2>3, StepOn
<1>8. CASE /\ Answer(r, from, missing) /\ Doc(r) \notin global[Proc(r)]
           /\ \/ ~ BackendHas(Proc(r), Doc(r))
              \/ ReadMayFail(Proc(r), Doc(r)) /\ failed' = failed \cup {r}
  <2>1. r \notin promised
    BY <1>2, <1>3, <1>8 DEF BackendHas, ReadMayFail, Certain, Home
  <2>2. r \in stored => r \in failed'
    BY <1>3, <1>8 DEF BackendHas
  <2>3. pc' = [pc EXCEPT ![r] = "done"] /\ answer' = [answer EXCEPT ![r] = missing]
    BY <1>8 DEF Answer
  <2> QED  BY <1>1, <1>3, <1>5, <1>6, <1>8, <2>1, <2>2, <2>3, StepOn
<1> QED  BY <1>7, <1>8 DEF ReadDocument, ReadFails

LEMMA PeekKnown ==
    ASSUME TInv, KInv, NEW p \in Processes, NEW d \in Docs, Peek(p, d)
    PROVE  TextGrows /\ UNCHANGED <<made, global, table, loaded>>
  BY RememberGrows DEF Peek

\* What a request that is on its way knows of the stores.
LEMMA InFlightFacts ==
    ASSUME TInv, KInv, NEW r \in Requests, InFlight(r)
    PROVE  /\ pc[r] # "idle"
           /\ Proc(r) \in Processes /\ Doc(r) \in Docs /\ Home(Proc(r)) \in Homes
           /\ answer[r] \notin {"not_found", "not_in_list"}
           /\ \A p \in Processes : acked[p] \subseteq global[p]
           /\ config.mode = "required" => \A h \in Homes : table[h] \subseteq Permitted
<1>1. pc[r] # "idle" BY DEF InFlight
<1> QED  BY <1>1, KnownRequest DEF KInv, StoresSound, OnlyApprovedStored, RequestSound, FlightSound

\* A step that leaves what is stored: it only goes on, or is answered otherwise.
LEMMA PlainStep ==
    ASSUME TInv, KInv, NEW r \in Requests, InFlight(r),
           NEW step, step \notin {"idle", "register", "run"}, NEW result,
           result \notin {"not_found", "not_in_list"},
           pc' = [pc EXCEPT ![r] = step],
           answer' = [answer EXCEPT ![r] = result],
           UNCHANGED <<config, req, acked, promised, stored, made, global, table, loaded, legacy>>,
           failed \subseteq failed',
           TextGrows
    PROVE  KInv'
<1>1. /\ pc[r] # "idle"
      /\ \A p \in Processes : acked'[p] \subseteq global[p]
      /\ \A h \in Homes : table[h] \subseteq table'[h]
      /\ config.mode = "required" => \A h \in Homes : table'[h] \subseteq Permitted
  BY InFlightFacts
<1> QED  BY <1>1, StepOn

LEMMA RegisterKnown ==
    ASSUME TInv, KInv, NEW r \in Requests, Register(r)
    PROVE  KInv'
<1>1. pc[r] = "register" /\ InFlight(r)
  BY DEF Register, Goto, InFlight
<1>2. /\ pc[r] # "idle" /\ Proc(r) \in Processes /\ Doc(r) \in Docs /\ Home(Proc(r)) \in Homes
      /\ answer[r] \notin {"not_found", "not_in_list"}
      /\ \A p \in Processes : acked[p] \subseteq global[p]
  BY <1>1, InFlightFacts
<1>3. config.mode = "optional"
  BY <1>1 DEF KInv, RequestSound, FlightSound
<1>4. pc' = [pc EXCEPT ![r] = "run"] /\ answer' = [answer EXCEPT ![r] = answer[r]]
  BY DEF Register, Goto, TInv, TypeOK
<1>5. \A h \in Homes : table[h] \subseteq table'[h]
  BY <1>2 DEF Register, TInv, TypeOK
<1>6. TextGrows
  <2>1. text \in [Processes -> SUBSET Docs]
    BY DEF TInv, TypeOK
  <2> QED  BY <1>2, <1>3, <2>1 DEF Register, TextGrows
<1>7. /\ UNCHANGED <<config, req, acked, promised, stored, made, global, loaded, legacy>>
      /\ failed \subseteq failed'
  BY DEF Register, history
<1> QED  BY <1>1, <1>2, <1>3, <1>4, <1>5, <1>6, <1>7, StepOn

LEMMA StoreKnown ==
    ASSUME TInv, KInv, NEW r \in Requests, Store(r)
    PROVE  KInv'
<1>1. pc[r] = "store" /\ InFlight(r)
  BY DEF Store, Goto, InFlight
<1>2. /\ pc[r] # "idle" /\ Proc(r) \in Processes
      /\ answer[r] \notin {"not_found", "not_in_list"}
      /\ \A p \in Processes : acked[p] \subseteq global[p]
      /\ config.mode = "required" => \A h \in Homes : table[h] \subseteq Permitted
  BY <1>1, InFlightFacts
<1>3. pc' = [pc EXCEPT ![r] = "done"] /\ answer' = [answer EXCEPT ![r] = answer[r]]
  BY DEF Store, Goto, TInv, TypeOK
<1>4. /\ UNCHANGED <<config, req, promised, stored, made, global, text, table, loaded, legacy>>
      /\ failed \subseteq failed'
  BY DEF Store, stores
<1>5. TextGrows
  BY <1>4 DEF TextGrows, KInv, StoresSound, OnlyApprovedStored
<1>6. req[r].kind = "register" /\ config.mode = "optional" => Doc(r) \in global[Proc(r)]
  BY <1>1 DEF KInv, RequestSound, FlightSound
<1>7. \A p \in Processes : acked'[p] \subseteq global[p]
  BY <1>2, <1>6 DEF Store, TInv, TypeOK
<1> QED  BY <1>1, <1>2, <1>3, <1>4, <1>5, <1>7, StepOn

LEMMA AdvanceKnown ==
    ASSUME TInv, KInv, NEW r \in Requests, Advance(r)
    PROVE  KInv'
<1> USE DEF history
<1>1. CASE Approve(r) \/ Resolve(r)
  BY <1>1, ReadKnown DEF Approve, Resolve
<1>2. CASE Register(r) \/ Store(r)
  BY <1>2, RegisterKnown, StoreKnown
<1>3. CASE CacheHit(r) \/ CacheMiss(r)
  <2>1. pc[r] = "lookup" /\ InFlight(r)
    BY <1>3 DEF CacheHit, CacheMiss, Goto, InFlight
  <2>2. TextGrows /\ UNCHANGED <<made, global, table, loaded>>
    BY <1>3, <2>1, InFlightFacts, PeekKnown, RememberGrows DEF CacheHit, CacheMiss, stores
  <2>3. PICK step \in {"gate", "resolve"} : pc' = [pc EXCEPT ![r] = step]
    BY <1>3 DEF CacheHit, CacheMiss, Goto
  <2>4. answer' = [answer EXCEPT ![r] = answer[r]]
    BY <1>3 DEF CacheHit, CacheMiss, Goto, TInv, TypeOK
  <2>5. UNCHANGED <<config, req, acked, promised, stored, failed, legacy>>
    BY <1>3 DEF CacheHit, CacheMiss
  <2> QED  BY <2>1, <2>2, <2>3, <2>4, <2>5, InFlightFacts, PlainStep
<1>4. CASE Gate(r)
  <2>1. pc[r] = "gate" /\ InFlight(r)
    BY <1>4 DEF Gate, InFlight
  <2>2. TextGrows /\ UNCHANGED <<made, global, table, loaded>>
    BY <1>4, <2>1, InFlightFacts, RememberGrows DEF Gate, Ask
  <2>3. \E step \in {"fields", "resolve", "done"}, result \in {answer[r], "forbidden"} :
            pc' = [pc EXCEPT ![r] = step] /\ answer' = [answer EXCEPT ![r] = result]
    BY <1>4 DEF Gate, Goto, Answer, TInv, TypeOK
  <2>4. UNCHANGED <<config, req, acked, promised, stored, failed, legacy>>
    BY <1>4 DEF Gate
  <2> QED  BY <2>1, <2>2, <2>3, <2>4, InFlightFacts, PlainStep
<1>5. CASE FieldGate(r)
  <2>1. pc[r] = "fields" /\ InFlight(r)
    BY <1>5 DEF FieldGate, InFlight
  <2>2. TextGrows
    BY <1>5, <2>1, InFlightFacts, RememberGrows DEF FieldGate
  <2>3. PICK result \in {"data", "forbidden"} :
            pc' = [pc EXCEPT ![r] = "done"] /\ answer' = [answer EXCEPT ![r] = result]
    BY <1>5 DEF FieldGate, Answer
  <2>4. /\ UNCHANGED <<config, req, acked, promised, stored, made, global, table, loaded, legacy>>
        /\ failed \subseteq failed'
    BY <1>5 DEF FieldGate
  <2> QED  BY <2>1, <2>2, <2>3, <2>4, PlainStep
<1>6. CASE Execute(r)
  <2>1. pc[r] = "run" /\ InFlight(r)
    BY <1>6 DEF Execute, InFlight
  <2>2. UNCHANGED <<config, req, acked, promised, stored, failed, made, global, text, table,
                  loaded, legacy>>
    BY <1>6 DEF Execute, stores
  <2>3. TextGrows
    BY <2>2 DEF TextGrows, KInv, StoresSound, OnlyApprovedStored
  <2>4. PICK result \in {"data", "errors"} :
            pc' = [pc EXCEPT ![r] = "store"] /\ answer' = [answer EXCEPT ![r] = result]
    BY <1>6 DEF Execute
  <2> QED  BY <2>1, <2>2, <2>3, <2>4, PlainStep
<1> QED  BY <1>1, <1>2, <1>3, <1>4, <1>5, <1>6 DEF Advance

\* A process that stops takes its requests, its stores and its promises with it.
LEMMA RestartKnown ==
    ASSUME TInv, KInv, NEW p \in Processes, Restart(p)
    PROVE  KInv'
<1>1. /\ \A o \in Processes : /\ global'[o] = IF o = p THEN {} ELSE global[o]
                              /\ text'[o] = IF o = p THEN {} ELSE text[o]
                              /\ acked'[o] = IF o = p THEN {} ELSE acked[o]
                              /\ loaded'[o] = IF o = p THEN {} ELSE loaded[o]
      /\ \A h \in Homes : table'[h] = IF h = p THEN {} ELSE table[h]
      /\ made' = made \ {p}
  BY DEF Restart, TInv, TypeOK, Homes
<1>2. UNCHANGED <<config, req, promised, stored, failed, legacy>> /\ Permitted' = Permitted
  BY DEF Restart, Permitted
<1>3. \A s \in Requests :
          /\ pc'[s] = IF InFlight(s) /\ Proc(s) = p THEN "done" ELSE pc[s]
          /\ answer'[s] = IF InFlight(s) /\ Proc(s) = p THEN "crashed" ELSE answer[s]
  BY DEF Restart, TInv, TypeOK
<1>4. StoresSound'
  <2>1. \A o \in Processes \ {p} : Certain(o)' = Certain(o)
    BY <1>1, <1>2 DEF Certain, Homes
  <2> QED  BY <1>1, <1>2, <2>1 DEF KInv, StoresSound, OnlyApprovedStored
<1>5. ASSUME NEW s \in Requests PROVE RequestSound(s)'
  <2>1. RequestSound(s) /\ Proc(s)' = Proc(s) /\ Doc(s)' = Doc(s) /\ Home(Proc(s))' = Home(Proc(s))
    BY <1>2 DEF KInv, Proc, Doc, Home
  <2>2. CASE InFlight(s) /\ Proc(s) = p
    BY <1>2, <1>3, <2>1, <2>2 DEF RequestSound, FlightSound, KnownFor, ApprovedFor, InFlight
  <2>3. CASE InFlight(s) /\ Proc(s) # p
    <3>1. Proc(s) \in Processes /\ Home(Proc(s)) \in Homes /\ Home(Proc(s)) # p
      BY <2>3, KnownRequest, MapAssumption DEF InFlight, Home
    <3> QED  BY <1>1, <1>2, <1>3, <2>1, <2>3, <3>1 DEF RequestSound, FlightSound, KnownFor,
                ApprovedFor, InFlight
  <2>4. CASE ~ InFlight(s)
    BY <1>2, <1>3, <2>1, <2>4 DEF RequestSound, FlightSound, KnownFor, ApprovedFor, InFlight
  <2> QED  BY <2>2, <2>3, <2>4
<1> QED  BY <1>4, <1>5 DEF KInv

LEMMA SameKnown ==
    ASSUME TInv, KInv, UNCHANGED <<config, stores, pc, req, answer, history>>
    PROVE  KInv'
<1>1. Grows /\ StoresSound'
  BY DEF Grows, stores, KInv, StoresSound, OnlyApprovedStored, Permitted, Certain, history
<1>2. \A s \in Requests : Untouched(s)
  BY DEF Untouched, history
<1> QED  BY <1>1, <1>2, UntouchedSound DEF KInv

LEMMA RegisterElsewhereKnown ==
    ASSUME TInv, KInv, NEW d \in Docs, RegisterElsewhere(d)
    PROVE  KInv'
<1>1. Permitted' = Permitted \cup {d}
  BY DEF RegisterElsewhere, Permitted
<1>2. \A h \in Homes : table'[h] = IF h = Database THEN table[h] \cup {d} ELSE table[h]
  BY DEF RegisterElsewhere, TInv, TypeOK
<1>3. UNCHANGED <<config, made, global, text, loaded, pc, req, answer, acked, promised, stored, failed>>
  BY DEF RegisterElsewhere
<1>4. StoresSound'
  <2>1. \A p \in Processes : Certain(p) \subseteq Certain(p)'
    BY <1>2, <1>3 DEF Certain, Homes
  <2> QED  BY <1>1, <1>2, <1>3, <2>1 DEF KInv, StoresSound, OnlyApprovedStored
<1>5. Grows
  BY <1>1, <1>2, <1>3 DEF Grows
<1>6. \A s \in Requests : Untouched(s)
  BY <1>3 DEF Untouched
<1> QED  BY <1>4, <1>5, <1>6, UntouchedSound DEF KInv

LEMMA KnownNext == TInv /\ KInv /\ [Next]_vars => KInv'
<1> SUFFICES ASSUME TInv, KInv, [Next]_vars PROVE KInv'
  OBVIOUS
<1>1. CASE UNCHANGED vars
  BY <1>1, SameKnown DEF vars
<1>2. CASE \E x \in config.changes : ChangePolicy(x.site, x.caller, x.decision)
  BY <1>2, SameKnown DEF ChangePolicy
<1>3. CASE \E h \in Homes, k \in Keys : Expire(h, k)
  BY <1>3, SameKnown DEF Expire
<1>4. CASE \E d \in config.foreign : RegisterElsewhere(d)
  BY <1>4, ConfigAssumption, RegisterElsewhereKnown DEF TInv, TypeOK
<1>5. CASE Next
  BY <1>2, <1>3, <1>4, <1>5, ArriveKnown, AdvanceKnown, RestartKnown DEF Next
<1> QED  BY <1>1, <1>5

LEMMA KnownHolds == Spec => []KInv
  BY TypesHold, KnownInit, KnownNext, PTL DEF Spec

\* A client is told that a document is unknown only if this process, since it started,
\* has neither read it from an approved file nor answered its registration and, unless
\* a read failed, the backend did not have it when the request came.
THEOREM KnownDocumentsAreFound == Spec => []KnownIsFound
<1>1. KInv => KnownIsFound
  BY DEF KInv, RequestSound, KnownFor, KnownIsFound
<1> QED  BY <1>1, KnownHolds, PTL

\* 'required' mode executes only approved documents and those that other deployments
\* put into the table, before this one started or while it runs.
THEOREM OnlyApprovedDocumentsRun == Spec => []OnlyApprovedRun
<1>1. KInv => OnlyApprovedRun
  BY DEF KInv, RequestSound, ApprovedFor, OnlyApprovedRun, Permitted
<1> QED  BY <1>1, KnownHolds, PTL

-----------------------------------------------------------------------------
(* Whose answer is in the cache                                            *)

\* A request whose response may be served under key k.
Served(s, k) ==
    /\ pc[s] \in {"store", "done"}
    /\ req[s] \in Shapes
    /\ k = response_cache_key(Doc(s), Caller(s))
    /\ User[Caller(s)] # NoId
    /\ req[s].op \notin Mutations

\* Whatever is stored under a key, held or served was executed for that key.
OwnFor(r) ==
    /\ pc[r] = "idle" => held[r] = NoRequest
    /\ pc[r] \notin {"store", "done"} => source[r] = NoRequest
    /\ held[r] # NoRequest =>
           pc[r] # "idle" /\ Served(held[r], response_cache_key(Doc(r), Caller(r)))
    /\ source[r] \notin {NoRequest, r} => source[r] = held[r]

CInv ==
    /\ \A h \in Homes, k \in Keys :
           responses[h][k] # NoRequest => Served(responses[h][k], k)
    /\ \A r \in Requests : OwnFor(r)

LEMMA OwnInit == Init => CInv
  BY DEF Init, CInv, OwnFor

\* What was served stays so: a request that was executed does not change.
LEMMA ServedStays ==
    ASSUME TInv, NEW s \in Requests, NEW k, Served(s, k), req'[s] = req[s],
           pc'[s] \in {pc[s], "done"}
    PROVE  Served(s, k)'
  BY DEF Served, Doc, Caller

\* Enough for a step of one request.
LEMMA OwnStep ==
    ASSUME TInv, CInv, NEW r \in Requests,
           \A s \in Requests \ {r} : /\ pc'[s] = pc[s] /\ req'[s] = req[s]
                                     /\ held'[s] = held[s] /\ source'[s] = source[s],
           pc[r] \in {"store", "done"} => req'[r] = req[r] /\ pc'[r] \in {pc[r], "done"},
           \A h \in Homes, k \in Keys :
               \/ responses'[h][k] \in {responses[h][k], NoRequest}
               \/ responses'[h][k] = r /\ Served(r, k)',
           (\A s \in Requests, k \in Keys : Served(s, k) => Served(s, k)') => OwnFor(r)'
    PROVE  CInv'
<1>1. \A s \in Requests, k \in Keys : Served(s, k) => Served(s, k)'
  BY ServedStays DEF Served
<1>2. ASSUME NEW h \in Homes, NEW k \in Keys, responses'[h][k] # NoRequest
      PROVE  Served(responses[h][k], k)'
  <2>1. CASE responses'[h][k] = r /\ Served(r, k)'
    BY <2>1 DEF Served, Doc, Caller
  <2>2. CASE responses'[h][k] = responses[h][k]
    <3>1. responses[h][k] \in Requests /\ Served(responses[h][k], k)
      BY <1>2, <2>2 DEF CInv, TInv, TypeOK
    <3>2. PICK s \in Requests : s = responses[h][k] /\ Served(s, k)
      BY <3>1
    <3>3. Served(s, k)'
      BY <1>1, <3>2
    <3> QED  BY <2>2, <3>2, <3>3 DEF Served, Doc, Caller
  <2> QED  BY <1>2, <2>1, <2>2
<1>3. ASSUME NEW s \in Requests \ {r} PROVE OwnFor(s)'
  <2>1. OwnFor(s) /\ Doc(s)' = Doc(s) /\ Caller(s)' = Caller(s)
    BY DEF CInv, Doc, Caller
  <2>2. ASSUME held[s] # NoRequest
        PROVE  /\ pc[s] # "idle"
               /\ Served(held[s], response_cache_key(Doc(s), Caller(s)))'
    <3>1. /\ held[s] \in Requests /\ pc[s] # "idle"
          /\ Served(held[s], response_cache_key(Doc(s), Caller(s)))
      BY <2>1, <2>2 DEF OwnFor, TInv, TypeOK
    <3>2. response_cache_key(Doc(s), Caller(s)) \in Keys
      BY <3>1, KnownRequest
    <3> QED  BY <1>1, <2>1, <3>1, <3>2 DEF Served, Doc, Caller, response_cache_key
  <2> QED  BY <2>1, <2>2 DEF OwnFor
<1> QED  BY <1>1, <1>2, <1>3 DEF CInv

\* A request keeps what it holds, and may serve it.
LEMMA KeepOwn ==
    ASSUME TInv, CInv, NEW r \in Requests, pc[r] # "idle", pc'[r] # "idle",
           req'[r] = req[r], held'[r] = held[r], source'[r] \in {source[r], r, held[r]},
           pc'[r] \notin {"store", "done"} =>
               source'[r] = source[r] /\ pc[r] \notin {"store", "done"},
           \A s \in Requests, k \in Keys : Served(s, k) => Served(s, k)'
    PROVE  OwnFor(r)'
<1>1. OwnFor(r) /\ response_cache_key(Doc(r), Caller(r)) \in Keys
  BY KnownRequest DEF CInv
<1>2. Doc(r)' = Doc(r) /\ Caller(r)' = Caller(r)
  BY DEF Doc, Caller
<1>3. held[r] \in Requests \cup {NoRequest}
  BY DEF TInv, TypeOK
<1>4. held[r] # NoRequest => Served(held[r], response_cache_key(Doc(r), Caller(r)))'
  BY <1>1, <1>2, <1>3 DEF OwnFor, Served, Doc, Caller, response_cache_key
<1> QED  BY <1>1, <1>4 DEF OwnFor, Served, Doc, Caller, response_cache_key

LEMMA ArriveOwn ==
    ASSUME TInv, CInv, NEW r \in Requests, NEW q \in Shapes, Arrive(r, q)
    PROVE  CInv'
<1>1. ASSUME NEW step, step # "idle", NEW result, Accept(r, q, step, result), pc[r] = "idle"
      PROVE  CInv'
  <2>1. /\ \A s \in Requests \ {r} : /\ pc'[s] = pc[s] /\ req'[s] = req[s]
                                     /\ held'[s] = held[s] /\ source'[s] = source[s]
        /\ responses' = responses /\ pc'[r] = step
        /\ held'[r] = held[r] /\ source'[r] = source[r]
    BY <1>1 DEF Accept, TInv, TypeOK
  <2>2. OwnFor(r)'
    BY <1>1, <2>1 DEF CInv, OwnFor
  <2> QED  BY <1>1, <2>1, <2>2, OwnStep
<1>2. pc[r] = "idle" BY DEF Arrive
<1> QED  BY <1>1, <1>2 DEF Arrive, Unauthorized, RejectArbitrary, SkipApq, RefuseMismatch,
            BackendFails, StartApproval, StartRegistration, StartLookup

\* A step that leaves the cache and what the request holds.
LEMMA KeepStep ==
    ASSUME TInv, CInv, NEW r \in Requests, pc[r] # "idle",
           NEW step, step # "idle", pc[r] \in {"store", "done"} => step = "done",
           pc' = [pc EXCEPT ![r] = step], UNCHANGED <<req, held>>,
           NEW v \in {source[r], r, held[r]}, source' = [source EXCEPT ![r] = v],
           step \notin {"store", "done"} => v = source[r],
           \A h \in Homes, k \in Keys :
               \/ responses'[h][k] \in {responses[h][k], NoRequest}
               \/ responses'[h][k] = r /\ Served(r, k)'
    PROVE  CInv'
<1>1. /\ \A s \in Requests \ {r} : /\ pc'[s] = pc[s] /\ req'[s] = req[s]
                                   /\ held'[s] = held[s] /\ source'[s] = source[s]
      /\ pc'[r] = step /\ source'[r] = v
  BY DEF TInv, TypeOK
<1>2. (\A s \in Requests, k \in Keys : Served(s, k) => Served(s, k)') => OwnFor(r)'
  BY <1>1, KeepOwn
<1> QED  BY <1>1, <1>2, OwnStep

LEMMA StoreOwn ==
    ASSUME TInv, CInv, NEW r \in Requests, Store(r)
    PROVE  CInv'
<1>1. pc[r] = "store" /\ pc' = [pc EXCEPT ![r] = "done"] /\ UNCHANGED <<req, held>>
  BY DEF Store, Goto
<1>2. /\ Home(Proc(r)) \in Homes /\ response_cache_key(Doc(r), Caller(r)) \in Keys
      /\ req[r] \in Shapes
  BY <1>1, KnownRequest
<1>3. source' = [source EXCEPT ![r] = source[r]]
  BY DEF Store, TInv, TypeOK
<1>4. Storable(r) => Served(r, response_cache_key(Doc(r), Caller(r)))'
  <2>1. pc'[r] = "done" /\ Doc(r)' = Doc(r) /\ Caller(r)' = Caller(r)
    BY <1>1 DEF TInv, TypeOK, Doc, Caller
  <2>2. Storable(r) => User[Caller(r)] # NoId /\ req[r].op \notin Mutations
    BY DEF Storable, response_cache_user_id
  <2> QED  BY <1>1, <1>2, <2>1, <2>2 DEF Served, response_cache_key, response_cache_user_id
<1>5. CASE UNCHANGED responses
  BY <1>1, <1>3, <1>5, KeepStep
<1>6. CASE /\ Storable(r)
           /\ responses' = [responses EXCEPT ![Home(Proc(r))]
                                [response_cache_key(Doc(r), Caller(r))] = r]
  <2> DEFINE key == response_cache_key(Doc(r), Caller(r))
  <2> HIDE DEF key
  <2>1. responses' = [responses EXCEPT ![Home(Proc(r))][key] = r]
    BY <1>6 DEF key
  <2>2. responses \in [Homes -> [Keys -> Requests \cup {NoRequest}]]
    BY DEF TInv, TypeOK
  <2>3. ASSUME NEW h \in Homes, NEW k \in Keys
        PROVE  \/ responses'[h][k] = responses[h][k]
               \/ responses'[h][k] = r /\ k = key
    <3>1. CASE h = Home(Proc(r)) /\ k = key
      BY <2>1, <2>2, <3>1
    <3>2. CASE h # Home(Proc(r))
      BY <2>1, <2>2, <3>2
    <3>3. CASE h = Home(Proc(r)) /\ k # key
      BY <2>1, <2>2, <3>3
    <3> QED  BY <3>1, <3>2, <3>3
  <2>4. Served(r, key)'
    BY <1>4, <1>6, <1>1 DEF key, Served, Doc, Caller, response_cache_key, response_cache_user_id
  <2>5. key' = key
    BY <1>1 DEF key, Doc, Caller, response_cache_key, response_cache_user_id
  <2>6. \A h \in Homes, k \in Keys :
            \/ responses'[h][k] \in {responses[h][k], NoRequest}
            \/ responses'[h][k] = r /\ Served(r, k)'
    BY <2>3, <2>4, <2>5
  <2> QED  BY <1>1, <1>3, <2>6, KeepStep
<1> QED  BY <1>5, <1>6 DEF Store

LEMMA CacheHitOwn ==
    ASSUME TInv, CInv, NEW r \in Requests, CacheHit(r)
    PROVE  CInv'
<1>1. pc[r] = "lookup" /\ pc' = [pc EXCEPT ![r] = "gate"] /\ UNCHANGED <<req, source, responses>>
      /\ held' = [held EXCEPT ![r] = Cached(r)] /\ Cached(r) # NoRequest
  BY DEF CacheHit, Goto
<1>2. /\ Home(Proc(r)) \in Homes /\ response_cache_key(Doc(r), Caller(r)) \in Keys
  BY <1>1, KnownRequest
<1>3. /\ \A s \in Requests \ {r} : /\ pc'[s] = pc[s] /\ req'[s] = req[s]
                                   /\ held'[s] = held[s] /\ source'[s] = source[s]
      /\ pc'[r] = "gate" /\ held'[r] = Cached(r)
  BY <1>1 DEF TInv, TypeOK
<1>4. Cached(r) \in Requests /\ Served(Cached(r), response_cache_key(Doc(r), Caller(r)))
  BY <1>1, <1>2 DEF CInv, Cached, TInv, TypeOK
<1>5. PICK s \in Requests : s = Cached(r)
  BY <1>4
<1>6. ASSUME \A t \in Requests, k \in Keys : Served(t, k) => Served(t, k)'
      PROVE  OwnFor(r)'
  <2>1. PICK k \in Keys : k = response_cache_key(Doc(r), Caller(r))
    BY <1>2
  <2>2. Served(s, k)'
    BY <1>4, <1>5, <1>6, <2>1
  <2>3. response_cache_key(Doc(r), Caller(r))' = k
    BY <1>1, <2>1 DEF Doc, Caller, response_cache_key, response_cache_user_id
  <2>4. Served(held[r], response_cache_key(Doc(r), Caller(r)))'
    BY <1>3, <1>5, <2>2, <2>3 DEF Served, Doc, Caller
  <2>5. source[r] = NoRequest
    BY <1>1 DEF CInv, OwnFor
  <2> QED  BY <1>1, <1>3, <2>4, <2>5 DEF OwnFor
<1> QED  BY <1>1, <1>3, <1>6, OwnStep

LEMMA AdvanceOwn ==
    ASSUME TInv, CInv, NEW r \in Requests, Advance(r)
    PROVE  CInv'
<1>1. CASE Store(r) \/ CacheHit(r)
  BY <1>1, StoreOwn, CacheHitOwn
<1>2. source = [source EXCEPT ![r] = source[r]]
  BY DEF TInv, TypeOK
<1>3. CASE \/ Approve(r) \/ Resolve(r) \/ Register(r) \/ CacheMiss(r) \/ Gate(r)
  <2>1. pc[r] \notin {"idle", "store", "done"} /\ UNCHANGED <<req, held, source, responses>>
    BY <1>3 DEF Approve, Resolve, Register, CacheMiss, Gate, ReadDocument, ReadFails, Goto
  <2>2. PICK step \in {"run", "resolve", "fields", "done"} : pc' = [pc EXCEPT ![r] = step]
    BY <1>3 DEF Approve, Resolve, Register, CacheMiss, Gate, ReadDocument, ReadFails, Goto, Answer
  <2> QED  BY <1>2, <2>1, <2>2, KeepStep
<1>4. CASE FieldGate(r)
  <2>1. pc[r] = "fields" /\ UNCHANGED <<req, held, responses>>
    BY <1>4 DEF FieldGate
  <2>2. pc' = [pc EXCEPT ![r] = "done"]
    BY <1>4 DEF FieldGate, Answer
  <2>3. PICK v \in {source[r], held[r]} : source' = [source EXCEPT ![r] = v]
    BY <1>2, <1>4 DEF FieldGate
  <2> QED  BY <2>1, <2>2, <2>3, KeepStep
<1>5. CASE Execute(r)
  <2>1. pc[r] = "run" /\ UNCHANGED <<req, held, responses>> /\ pc' = [pc EXCEPT ![r] = "store"]
    BY <1>5 DEF Execute
  <2>2. PICK v \in {source[r], r} : source' = [source EXCEPT ![r] = v]
    BY <1>2, <1>5 DEF Execute
  <2> QED  BY <2>1, <2>2, KeepStep
<1> QED  BY <1>1, <1>3, <1>4, <1>5 DEF Advance

\* Steps that answer no request and only remove responses.
LEMMA RemoveOwn ==
    ASSUME TInv, CInv, UNCHANGED <<req, held, source>>,
           \A s \in Requests : pc'[s] \in {pc[s], "done"} /\ (pc[s] = "idle" => pc'[s] = "idle"),
           \A h \in Homes, k \in Keys : responses'[h][k] \in {responses[h][k], NoRequest}
    PROVE  CInv'
<1>1. \A s \in Requests, k \in Keys : Served(s, k) => Served(s, k)'
  BY ServedStays
<1>2. ASSUME NEW h \in Homes, NEW k \in Keys, responses'[h][k] # NoRequest
      PROVE  Served(responses[h][k], k)'
  <2>1. responses[h][k] \in Requests /\ Served(responses[h][k], k)
    BY <1>2 DEF CInv, TInv, TypeOK
  <2>2. PICK s \in Requests : s = responses[h][k] /\ Served(s, k)
    BY <2>1
  <2> QED  BY <1>1, <1>2, <2>2 DEF Served, Doc, Caller
<1>3. ASSUME NEW r \in Requests PROVE OwnFor(r)'
  <2>1. CASE pc[r] # "idle"
    <3>1. pc'[r] # "idle"
      BY <2>1
    <3>2. pc'[r] \notin {"store", "done"} => pc[r] \notin {"store", "done"}
      OBVIOUS
    <3> QED  BY <1>1, <2>1, <3>1, <3>2, KeepOwn
  <2>2. CASE pc[r] = "idle"
    BY <2>2 DEF CInv, OwnFor
  <2> QED  BY <2>1, <2>2
<1> QED  BY <1>2, <1>3 DEF CInv

LEMMA OwnNext == TInv /\ CInv /\ [Next]_vars => CInv'
<1> SUFFICES ASSUME TInv, CInv, [Next]_vars PROVE CInv'
  OBVIOUS
<1>1. CASE UNCHANGED vars
  BY <1>1, RemoveOwn DEF vars
<1>2. CASE \/ \E x \in config.changes : ChangePolicy(x.site, x.caller, x.decision)
           \/ \E d \in config.foreign : RegisterElsewhere(d)
  BY <1>2, RemoveOwn DEF ChangePolicy, RegisterElsewhere
<1>3. ASSUME NEW h \in Homes, NEW k \in Keys, Expire(h, k) PROVE CInv'
  <2>1. \A i \in Homes, j \in Keys : responses'[i][j] \in {responses[i][j], NoRequest}
    BY <1>3 DEF Expire, TInv, TypeOK
  <2> QED  BY <1>3, <2>1, RemoveOwn DEF Expire
<1>4. ASSUME NEW p \in Processes, Restart(p) PROVE CInv'
  <2>1. \A i \in Homes, j \in Keys : responses'[i][j] \in {responses[i][j], NoRequest}
    BY <1>4 DEF Restart, TInv, TypeOK
  <2>2. \A s \in Requests : pc'[s] \in {pc[s], "done"} /\ (pc[s] = "idle" => pc'[s] = "idle")
    BY <1>4 DEF Restart, InFlight
  <2> QED  BY <1>4, <2>1, <2>2, RemoveOwn DEF Restart
<1> QED  BY <1>1, <1>2, <1>3, <1>4, ArriveOwn, AdvanceOwn DEF Next

LEMMA OwnHolds == Spec => []CInv
  BY TypesHold, OwnInit, OwnNext, PTL DEF Spec

\* A response that is served from the cache was executed, as a query, for the
\* same document, variables, tenant and user.
THEOREM CachedAnswersAreOwn == Spec => []CachedAnswerIsOwn
<1>1. ASSUME TInv, CInv PROVE CachedAnswerIsOwn
  <2>1. SUFFICES ASSUME NEW r \in Requests, source[r] \notin {NoRequest, r}
                 PROVE  /\ Doc(source[r]) = Doc(r)
                        /\ User[Caller(source[r])] = User[Caller(r)] /\ User[Caller(r)] # NoId
                        /\ Scope[Caller(source[r])] = Scope[Caller(r)]
                        /\ req[source[r]].op \notin Mutations
                        /\ \/ req[source[r]].op = req[r].op
                           \/ \E o \in Operations \ {req[r].op} : DocOf[o] = Doc(r)
    BY DEF CachedAnswerIsOwn
  <2>2. PICK s : s = source[r] OBVIOUS
  <2>3. Served(s, response_cache_key(Doc(r), Caller(r)))
    BY <1>1, <2>1, <2>2 DEF CInv, OwnFor
  <2>4. /\ Doc(s) = Doc(r) /\ User[Caller(s)] = User[Caller(r)]
        /\ Scope[Caller(s)] = Scope[Caller(r)]
    BY <2>3 DEF Served, response_cache_key, response_cache_user_id
  <2>5. User[Caller(s)] # NoId /\ req[s].op \notin Mutations /\ req[s].op \in Operations
    BY <2>3, ShapeFields DEF Served
  <2> QED  BY <2>2, <2>4, <2>5 DEF Doc
<1> QED  BY <1>1, TypesHold, OwnHolds, PTL

-----------------------------------------------------------------------------
(* Nobody is answered who was denied all along                             *)

\* The property, for one request.
DataSeen(r) ==
    answer[r] = "data" =>
        /\ source[r] = r => \E s \in Asked(r) : \E d \in decisions[r][s] : d # "deny"
        /\ source[r] # r => "allow" \in decisions[r]["gate"] \/ "gate" \in unchecked[r]
        /\ "allow" \in decisions[r]["field"] \/ "field" \in unchecked[r]

\* What a request can be told is recorded, and who goes past the gate was allowed
\* at some moment or not asked about.
SeenBy(r) ==
    /\ InFlight(r) => \A s \in Sites : Verdicts(Proc(r), Caller(r), s) \subseteq decisions[r][s]
    /\ pc[r] = "fields" => "allow" \in decisions[r]["gate"] \/ "gate" \in unchecked[r]
    /\ InFlight(r) /\ pc[r] # "store" => answer[r] # "data"
    /\ pc[r] = "idle" => answer[r] = "none"
    /\ DataSeen(r)

DInv == \A r \in Requests : SeenBy(r)

LEMMA DeniedInit == Init => DInv
  BY DEF Init, DInv, SeenBy, DataSeen, InFlight

\* A request that is left alone, in a process that goes on, under the same policy.
LEMMA SameSeen ==
    ASSUME NEW r \in Requests, SeenBy(r), UNCHANGED <<config, policy>>,
           InFlight(r) => said'[Proc(r)] = said[Proc(r)],
           pc'[r] = pc[r], req'[r] = req[r], answer'[r] = answer[r], source'[r] = source[r],
           decisions'[r] = decisions[r], unchecked'[r] = unchecked[r]
    PROVE  SeenBy(r)'
<1>1. Proc(r)' = Proc(r) /\ Caller(r)' = Caller(r) /\ Asked(r)' = Asked(r)
  BY DEF Proc, Caller, Asked, Doc
<1>2. InFlight(r) => \A s \in Sites :
          Verdicts(Proc(r), Caller(r), s)' = Verdicts(Proc(r), Caller(r), s)
  BY <1>1 DEF Verdicts
<1> QED  BY <1>1, <1>2 DEF SeenBy, DataSeen, InFlight

\* A step of one request leaves the others alone.
LEMMA OthersSeen ==
    ASSUME DInv, NEW r \in Requests, UNCHANGED <<config, policy, said>>,
           \A s \in Requests \ {r} :
               /\ pc'[s] = pc[s] /\ req'[s] = req[s] /\ answer'[s] = answer[s]
               /\ source'[s] = source[s] /\ decisions'[s] = decisions[s]
               /\ unchecked'[s] = unchecked[s],
           SeenBy(r)'
    PROVE  DInv'
  BY SameSeen DEF DInv

LEMMA ArriveSeen ==
    ASSUME TInv, DInv, NEW r \in Requests, NEW q \in Shapes, Arrive(r, q)
    PROVE  DInv'
<1>1. ASSUME NEW step, step # "fields", step # "idle", NEW result, result # "data",
             Accept(r, q, step, result)
      PROVE  DInv'
  <2>1. /\ pc'[r] = step /\ req'[r] = q /\ answer'[r] = result
        /\ decisions'[r] = [s \in Sites |-> Verdicts(q.process, q.caller, s)]
        /\ UNCHANGED <<config, policy, said>>
    BY <1>1 DEF Accept, policyVars, TInv, TypeOK
  <2>2. \A s \in Sites : Verdicts(Proc(r), Caller(r), s)' = Verdicts(q.process, q.caller, s)
    BY <2>1 DEF Verdicts, Proc, Caller
  <2>3. SeenBy(r)'
    BY <1>1, <2>1, <2>2 DEF SeenBy, DataSeen, InFlight
  <2>4. \A s \in Requests \ {r} :
            /\ pc'[s] = pc[s] /\ req'[s] = req[s] /\ answer'[s] = answer[s]
            /\ source'[s] = source[s] /\ decisions'[s] = decisions[s]
            /\ unchecked'[s] = unchecked[s]
    BY <1>1 DEF Accept, TInv, TypeOK
  <2> QED  BY <2>1, <2>3, <2>4, OthersSeen
<1> QED  BY <1>1 DEF Arrive, Unauthorized, RejectArbitrary, SkipApq, RefuseMismatch,
            BackendFails, StartApproval, StartRegistration, StartLookup

\* Enough for a step that takes a request on.
LEMMA OnSeen ==
    ASSUME TInv, DInv, NEW r \in Requests, InFlight(r), NEW step, NEW result,
           step # "idle",
           pc' = [pc EXCEPT ![r] = step],
           answer' = [answer EXCEPT ![r] = result],
           UNCHANGED <<config, policy, said, req, decisions>>,
           \A s \in Requests \ {r} : source'[s] = source[s] /\ unchecked'[s] = unchecked[s],
           unchecked[r] \subseteq unchecked'[r],
           step = "fields" => \/ "allow" \in Verdicts(Proc(r), Caller(r), "gate")
                              \/ "gate" \in unchecked'[r],
           step \notin {"store", "done"} => result # "data",
           result = "data" =>
               \/ answer[r] = "data" /\ source'[r] = source[r]
               \/ /\ \/ /\ source'[r] = r
                        /\ \E s \in Asked(r) :
                              \E d \in Verdicts(Proc(r), Caller(r), s) : d # "deny"
                     \/ source'[r] # r /\ pc[r] = "fields"
                  /\ \/ "allow" \in Verdicts(Proc(r), Caller(r), "field")
                     \/ "field" \in unchecked'[r]
    PROVE  DInv'
<1>1. pc'[r] = step /\ answer'[r] = result
      /\ \A s \in Requests \ {r} : pc'[s] = pc[s] /\ answer'[s] = answer[s]
  BY DEF TInv, TypeOK
<1>2. SeenBy(r) /\ \A s \in Sites : Verdicts(Proc(r), Caller(r), s) \subseteq decisions[r][s]
  BY DEF DInv, SeenBy
<1>3. Asked(r)' = Asked(r) /\ Asked(r) \subseteq Sites /\ {"gate", "field"} \subseteq Sites
  BY DEF Asked, Doc, Sites
<1>4. \A s \in Sites : Verdicts(Proc(r), Caller(r), s)' = Verdicts(Proc(r), Caller(r), s)
  BY DEF Verdicts, Proc, Caller
<1>5. DataSeen(r)'
  <2>1. CASE answer[r] = "data" /\ source'[r] = source[r]
    BY <1>1, <1>2, <1>3, <2>1 DEF SeenBy, DataSeen
  <2>2. CASE result # "data"
    BY <1>1, <2>2 DEF DataSeen
  <2>3. CASE /\ result = "data"
             /\ \/ /\ source'[r] = r
                   /\ \E s \in Asked(r) :
                         \E d \in Verdicts(Proc(r), Caller(r), s) : d # "deny"
                \/ source'[r] # r /\ pc[r] = "fields"
             /\ \/ "allow" \in Verdicts(Proc(r), Caller(r), "field")
                \/ "field" \in unchecked'[r]
    BY <1>1, <1>2, <1>3, <2>3 DEF SeenBy, DataSeen
  <2> QED  BY <2>1, <2>2, <2>3
<1>6. SeenBy(r)'
  BY <1>1, <1>2, <1>3, <1>4, <1>5 DEF SeenBy, InFlight
<1> QED  BY <1>1, <1>6, OthersSeen

LEMMA AdvanceSeen ==
    ASSUME TInv, CInv, DInv, NEW r \in Requests, Advance(r)
    PROVE  DInv'
<1> USE DEF history, seen, policyVars
<1>0. SeenBy(r) BY DEF DInv
<1>1. /\ answer = [answer EXCEPT ![r] = answer[r]]
      /\ unchecked \in [Requests -> SUBSET Sites] /\ source \in [Requests -> Requests \cup {NoRequest}]
  BY DEF TInv, TypeOK
<1>2. CASE Approve(r) \/ Resolve(r)
  <2>1. InFlight(r) /\ pc[r] # "store"
    BY <1>2 DEF Approve, Resolve, ReadDocument, ReadFails, InFlight
  <2>2. \E step \in {"run", "done"}, result \in {answer[r], "not_in_list", "not_found"} :
            pc' = [pc EXCEPT ![r] = step] /\ answer' = [answer EXCEPT ![r] = result]
    BY <1>1, <1>2 DEF Approve, Resolve, ReadDocument, ReadFails, Goto, Answer
  <2>3. answer[r] # "data" BY <1>0, <2>1 DEF SeenBy
  <2>4. UNCHANGED <<config, policy, said, req, decisions, unchecked, source>>
    BY <1>2 DEF Approve, Resolve
  <2> QED  BY <2>1, <2>2, <2>3, <2>4, OnSeen
<1>3. CASE Register(r) \/ CacheHit(r) \/ CacheMiss(r)
  <2>1. InFlight(r) /\ pc[r] # "store"
    BY <1>3 DEF Register, CacheHit, CacheMiss, Goto, InFlight
  <2>2. answer[r] # "data" BY <1>0, <2>1 DEF SeenBy
  <2>3. PICK step \in {"run", "gate", "resolve"} :
            pc' = [pc EXCEPT ![r] = step] /\ answer' = [answer EXCEPT ![r] = answer[r]]
    BY <1>1, <1>3 DEF Register, CacheHit, CacheMiss, Goto
  <2>4. UNCHANGED <<config, policy, said, req, decisions, unchecked, source>>
    BY <1>3 DEF Register, CacheHit, CacheMiss
  <2> QED  BY <2>1, <2>2, <2>3, <2>4, OnSeen
<1>4. CASE Gate(r)
  <2>1. InFlight(r) /\ pc[r] # "store"
    BY <1>4 DEF Gate, InFlight
  <2>2. answer[r] # "data" BY <1>0, <2>1 DEF SeenBy
  <2>3. UNCHANGED <<config, policy, said, req, decisions, source>>
    BY <1>4 DEF Gate
  <2>4. PICK d \in Decision :
            /\ Ask(r, d)
            /\ \/ Answer(r, "gate", "forbidden")
               \/ d = "filter" /\ Goto(r, "gate", "resolve")
               \/ d = "allow" /\ Goto(r, "gate", "fields")
    BY <1>4 DEF Gate
  <2>5. /\ \A s \in Requests \ {r} : unchecked'[s] = unchecked[s]
        /\ unchecked[r] \subseteq unchecked'[r]
        /\ d \in Verdicts(Proc(r), Caller(r), "gate") \/ "gate" \in unchecked'[r]
    BY <1>1, <2>4 DEF Ask
  <2>6. CASE Answer(r, "gate", "forbidden")
    BY <2>1, <2>3, <2>5, <2>6, OnSeen DEF Answer
  <2>7. CASE Goto(r, "gate", "resolve")
    BY <1>1, <2>1, <2>2, <2>3, <2>5, <2>7, OnSeen DEF Goto
  <2>8. CASE d = "allow" /\ Goto(r, "gate", "fields")
    BY <1>1, <2>1, <2>2, <2>3, <2>5, <2>8, OnSeen DEF Goto
  <2> QED  BY <2>4, <2>6, <2>7, <2>8
<1>5. CASE FieldGate(r)
  <2>1. pc[r] = "fields" /\ InFlight(r)
    BY <1>5 DEF FieldGate, InFlight
  <2>2. held[r] # r
    BY <2>1, MapAssumption DEF CInv, OwnFor, Served
  <2>3. UNCHANGED <<config, policy, said, req, decisions>>
    BY <1>5 DEF FieldGate
  <2>4. /\ \A s \in Requests \ {r} : unchecked'[s] = unchecked[s] /\ source'[s] = source[s]
        /\ unchecked[r] \subseteq unchecked'[r]
    BY <1>1, <1>5 DEF FieldGate
  <2>5. CASE Answer(r, "fields", "forbidden")
    BY <2>1, <2>3, <2>4, <2>5, OnSeen DEF Answer
  <2>6. CASE /\ Answer(r, "fields", "data") /\ source' = [source EXCEPT ![r] = held[r]]
             /\ \/ "allow" \in Verdicts(Proc(r), Caller(r), "field")
                \/ "field" \in unchecked'[r]
    <3>1. source'[r] # r BY <1>1, <2>2, <2>6
    <3> QED  BY <2>1, <2>3, <2>4, <2>6, <3>1, OnSeen DEF Answer
  <2> QED  BY <1>1, <1>5, <2>5, <2>6 DEF FieldGate
<1>6. CASE Execute(r)
  <2>1. InFlight(r) BY <1>6 DEF Execute, InFlight
  <2>2. /\ UNCHANGED <<config, policy, said, req, decisions>>
        /\ pc' = [pc EXCEPT ![r] = "store"]
    BY <1>6 DEF Execute
  <2>3. /\ \A s \in Requests \ {r} : unchecked'[s] = unchecked[s] /\ source'[s] = source[s]
        /\ unchecked[r] \subseteq unchecked'[r]
    BY <1>1, <1>6 DEF Execute
  <2>4. CASE /\ \E s \in Asked(r) : \E d \in Verdicts(Proc(r), Caller(r), s) : d # "deny"
             /\ \/ "allow" \in Verdicts(Proc(r), Caller(r), "field")
                \/ "field" \in unchecked'[r]
             /\ answer' = [answer EXCEPT ![r] = "data"] /\ source'[r] = r
    BY <2>1, <2>2, <2>3, <2>4, OnSeen
  <2>5. CASE answer' = [answer EXCEPT ![r] = "errors"]
    BY <2>1, <2>2, <2>3, <2>5, OnSeen
  <2> QED  BY <1>1, <1>6, <2>4, <2>5 DEF Execute
<1>7. CASE Store(r)
  <2>1. InFlight(r) BY <1>7 DEF Store, Goto, InFlight
  <2>2. /\ UNCHANGED <<config, policy, said, req, decisions, unchecked, source>>
        /\ pc' = [pc EXCEPT ![r] = "done"] /\ answer' = [answer EXCEPT ![r] = answer[r]]
    BY <1>1, <1>7 DEF Store, Goto
  <2> QED  BY <2>1, <2>2, OnSeen
<1> QED  BY <1>2, <1>3, <1>4, <1>5, <1>6, <1>7 DEF Advance

\* A change of the policy is recorded by every request on its way; what was recorded
\* stays.
LEMMA PolicySeen ==
    ASSUME TInv, DInv, NEW s \in Sites, NEW c \in Callers, NEW d \in Decision,
           ChangePolicy(s, c, d)
    PROVE  DInv'
<1>1. UNCHANGED <<config, pc, req, answer, source, unchecked>>
  BY DEF ChangePolicy
<1>2. SUFFICES ASSUME NEW r \in Requests PROVE SeenBy(r)'
  BY DEF DInv
<1>3. /\ SeenBy(r) /\ Proc(r)' = Proc(r) /\ Caller(r)' = Caller(r) /\ Asked(r)' = Asked(r)
      /\ Asked(r) \subseteq Sites /\ {"gate", "field"} \subseteq Sites
  BY <1>1 DEF DInv, Proc, Caller, Asked, Doc, Sites
<1>4. decisions'[r] = IF InFlight(r)
                      THEN [t \in Sites |-> decisions[r][t] \cup Verdicts(Proc(r), Caller(r), t)']
                      ELSE decisions[r]
  BY DEF ChangePolicy
<1>5. \A t \in Sites : decisions[r][t] \subseteq decisions'[r][t]
  BY <1>4
<1>6. InFlight(r) => \A t \in Sites : Verdicts(Proc(r), Caller(r), t)' \subseteq decisions'[r][t]
  BY <1>4
<1> QED  BY <1>1, <1>3, <1>5, <1>6 DEF SeenBy, DataSeen, InFlight

LEMMA RestartSeen ==
    ASSUME TInv, DInv, NEW p \in Processes, Restart(p)
    PROVE  DInv'
<1>1. \A r \in Requests :
          /\ pc'[r] = IF InFlight(r) /\ Proc(r) = p THEN "done" ELSE pc[r]
          /\ answer'[r] = IF InFlight(r) /\ Proc(r) = p THEN "crashed" ELSE answer[r]
  BY DEF Restart
<1>2. UNCHANGED <<config, policy, req, source, decisions, unchecked>>
  BY DEF Restart, seen
<1>3. ASSUME NEW r \in Requests PROVE SeenBy(r)'
  <2>1. CASE InFlight(r) /\ Proc(r) = p
    BY <1>1, <2>1 DEF SeenBy, DataSeen, InFlight
  <2>2. CASE ~ (InFlight(r) /\ Proc(r) = p)
    <3>1. InFlight(r) => said'[Proc(r)] = said[Proc(r)]
      BY <2>2, KnownRequest DEF Restart, TInv, TypeOK, InFlight
    <3> QED  BY <1>1, <1>2, <2>2, <3>1, SameSeen DEF DInv
  <2> QED  BY <2>1, <2>2
<1> QED  BY <1>3 DEF DInv

LEMMA DeniedNext == TInv /\ CInv /\ DInv /\ [Next]_vars => DInv'
<1> SUFFICES ASSUME TInv, CInv, DInv, [Next]_vars PROVE DInv'
  OBVIOUS
<1>1. CASE UNCHANGED <<config, policyVars, pc, req, answer, source, seen>>
  BY <1>1, SameSeen DEF DInv, policyVars, seen
<1>2. CASE \E x \in config.changes : ChangePolicy(x.site, x.caller, x.decision)
  BY <1>2, ChangeFields, PolicySeen
<1>3. CASE \/ \E d \in config.foreign : RegisterElsewhere(d)
           \/ \E h \in Homes, k \in Keys : Expire(h, k)
           \/ UNCHANGED vars
  BY <1>1, <1>3 DEF RegisterElsewhere, Expire, vars
<1> QED  BY <1>2, <1>3, ArriveSeen, AdvanceSeen, RestartSeen DEF Next

LEMMA DeniedHolds == Spec => []DInv
  BY TypesHold, OwnHolds, DeniedInit, DeniedNext, PTL DEF Spec

\* Nobody is answered with data who could only be denied it during the whole request,
\* by the policy of that time or by what a decision cache has kept since the process
\* started; a cached response takes the gate of the operation without filters and
\* the gate of the fields, when the text of the document is there to ask about.
THEOREM DeniedGetNoData == Spec => []NoDataWhileDenied
<1>1. DInv => NoDataWhileDenied
  BY DEF DInv, SeenBy, DataSeen, NoDataWhileDenied
<1> QED  BY <1>1, DeniedHolds, PTL
=============================================================================
