------------------------ MODULE SubscriptionsProofs ------------------------
(***************************************************************************)
(* Proofs about the two modules of subscriptions/: a connection and the    *)
(* manager (Subscriptions), for any number of ids and tasks, and the value *)
(* cache (SubscriptionCache), for any number of subscribers and keys.      *)
(*                                                                         *)
(* The invariant of a connection says how registry, tasks and the two      *)
(* _cleanups fit together.  _cleanup works on a registry and on tasks that *)
(* the message it ends with has just changed, so that the part about them  *)
(* is a predicate of both (Consistent), shown first of the values handed   *)
(* to _cleanup and then of the next state.                                 *)
(***************************************************************************)
EXTENDS Subscriptions, SubscriptionCache, TLAPS

USE NoneAssumption, NoSubAssumption

States == {"connecting", "ready", "closing", "closed"}

\* Where a task is that nobody has cancelled, and one that is over or will be.
Iterating(at) == at \in {"scheduled", "running", "sending", "finishing"}
Ended(at) == at \in {"aborting", "cancelling", "done"}

\* A registry, the places of the tasks, their ids and the races fit together: a
\* task has an id once it is created; the registry has a task under its own id;
\* a live task that was not registered in a race is in the registry, and is the
\* only task of its id that is not done.
Consistent(sb, tk, ids, rc) ==
    /\ sb \in [Ids -> Tasks \cup {NoTask}]
    /\ tk \in [Tasks -> TaskAt]
    /\ ids \in [Tasks -> Ids \cup {NoId}]
    /\ rc \subseteq Tasks
    /\ \A t \in Tasks : ids[t] = NoId <=> tk[t] = "unborn"
    /\ \A i \in Ids : sb[i] # NoTask => ids[sb[i]] = i
    /\ \A t \in Tasks : Iterating(tk[t]) /\ t \notin rc =>
          /\ sb[ids[t]] = t
          /\ \A u \in Tasks : u # t /\ ids[u] = ids[t] => tk[u] = "done"

\* No task of a registry has been cancelled or has ended.
NoneEnded(sb, tk) == \A i \in Ids : sb[i] # NoTask => ~ Ended(tk[sb[i]])

\* Only tasks that were registered in a race are live.
OnlyRaced(tk, rc) == \A t \in Tasks : Iterating(tk[t]) => t \in rc

\* A task that has ended is in the registry only while somebody cleans up.
EndedInCleanup ==
    NoneEnded(subs, task) \/ handler = "cleanup" \/ manager = "cleanup" \/ interrupted

\* Whoever cleans up has cancelled every task that was registered without a race.
CleanupCancels ==
    handler \in {"cleanup", "done"} \/ manager = "cleanup" => OnlyRaced(task, raced)

\* Nothing is registered under the id of a subscribe that awaits graphql.
IdStaysFree == handler = "subscribing" => current \in Ids /\ subs[current] = NoTask

\* A connection that remove_connection or close_all works on is no longer listed,
\* so that neither starts again meanwhile.
Unlisted == manager # "idle" => ~ listed

IInv ==
    /\ TypeOK
    /\ Unlisted
    /\ Consistent(subs, task, taskId, raced)
    /\ EndedInCleanup
    /\ CleanupCancels
    /\ IdStaysFree
    /\ NotReadyAfterHandle

-----------------------------------------------------------------------------
(* Cancelling tasks                                                        *)

LEMMA CancelledTask == ASSUME NEW at \in TaskAt
  PROVE  /\ Cancelled(at) \in TaskAt
         /\ ~ Iterating(Cancelled(at))
         /\ Cancelled(at) = "unborn" <=> at = "unborn"
         /\ at = "done" => Cancelled(at) = "done"
  BY DEF TaskAt, Cancelled, Iterating

LEMMA CancelKeeps ==
  ASSUME NEW sb, NEW tk, NEW ids, NEW rc, Consistent(sb, tk, ids, rc), NEW S
  PROVE  /\ Consistent(sb, CancelTasks(S, tk), ids, rc)
         /\ \A t \in Tasks : Iterating(CancelTasks(S, tk)[t]) => t \notin S /\ Iterating(tk[t])
<1>. DEFINE ck == CancelTasks(S, tk)
<1>1. \A t \in Tasks : tk[t] \in TaskAt
  BY DEF Consistent
<1>2. \A t \in Tasks : /\ ck[t] \in TaskAt
                       /\ ck[t] = "unborn" <=> tk[t] = "unborn"
                       /\ tk[t] = "done" => ck[t] = "done"
                       /\ Iterating(ck[t]) => t \notin S /\ Iterating(tk[t])
  BY <1>1, CancelledTask DEF CancelTasks
<1>3. ck \in [Tasks -> TaskAt]
  BY <1>2 DEF CancelTasks
<1>. HIDE DEF ck
<1>4. Consistent(sb, ck, ids, rc)
  BY <1>2, <1>3 DEF Consistent
<1>. QED  BY <1>2, <1>4 DEF ck

LEMMA CancelAll ==
  ASSUME NEW sb, NEW tk, NEW ids, NEW rc, Consistent(sb, tk, ids, rc)
  PROVE  OnlyRaced(CancelTasks(Registered(sb), tk), rc)
<1>. DEFINE ck == CancelTasks(Registered(sb), tk)
<1>. SUFFICES ASSUME NEW t \in Tasks, Iterating(ck[t]), t \notin rc PROVE FALSE
  BY DEF OnlyRaced
<1>1. t \notin Registered(sb) /\ Iterating(tk[t])
  BY CancelKeeps
<1>2. ids[t] \in Ids /\ sb[ids[t]] = t
  BY <1>1 DEF Consistent, Iterating
<1>. QED  BY <1>1, <1>2 DEF Registered

-----------------------------------------------------------------------------
(* What steps of the handler have in common                                *)

\* Whatever _cleanup is entered with, the invariant holds after its first step.
LEMMA EnterCleanupInv ==
  ASSUME TypeOK, Unlisted, NEW st \in States, NEW sb, NEW tk, EnterCleanup(st, sb, tk),
         Consistent(sb, tk, taskId', raced'), current' \in Ids \cup {NoId},
         UNCHANGED <<interrupted, managerVars>>
  PROVE  IInv'
<1>. DEFINE S == Registered(sb)
<1>1. /\ task' = CancelTasks(S, tk) /\ subs' = sb /\ handlerWaits' = S
      /\ keepAlive' = IF keepAlive = "none" THEN "none" ELSE "ended"
      /\ \/ S = {} /\ state' = "closed" /\ handler' = "done"
         \/ S # {} /\ state' = st /\ handler' = "cleanup"
  BY DEF EnterCleanup
<1>2. Consistent(subs, task, taskId, raced)'
  BY <1>1, CancelKeeps
<1>3. OnlyRaced(task, raced)'
  BY <1>1, CancelAll
<1>4. S \subseteq Tasks
  BY DEF Consistent, Registered
<1>5. TypeOK'
  BY <1>1, <1>2, <1>4 DEF TypeOK, Consistent, States, HandlerAt, managerVars
<1>6. EndedInCleanup'
  BY <1>1 DEF EndedInCleanup, NoneEnded, Registered
<1>7. CleanupCancels' /\ IdStaysFree' /\ NotReadyAfterHandle' /\ Unlisted'
  BY <1>1, <1>3 DEF CleanupCancels, IdStaysFree, NotReadyAfterHandle, Unlisted, managerVars
<1>. QED  BY <1>2, <1>5, <1>6, <1>7 DEF IInv

\* The next round of the message loop, or _cleanup instead of it.
LEMMA LoopOnInv ==
  ASSUME TypeOK, Unlisted, NEW st \in States, NEW sb, NEW tk, LoopOn(st, sb, tk),
         Consistent(sb, tk, taskId', raced'), current' \in Ids \cup {NoId},
         NoneEnded(sb, tk) \/ manager = "cleanup" \/ interrupted,
         manager = "cleanup" => OnlyRaced(tk, raced'),
         UNCHANGED <<interrupted, managerVars>>
  PROVE  IInv'
<1>1. CASE st # "ready"
  BY <1>1, EnterCleanupInv DEF LoopOn
<1>2. CASE st = "ready"
  <2>1. /\ handler' = "idle" /\ state' = st /\ subs' = sb /\ task' = tk
        /\ UNCHANGED <<keepAlive, handlerWaits>>
    BY <1>2 DEF LoopOn
  <2>2. TypeOK'
    BY <2>1 DEF TypeOK, Consistent, States, HandlerAt, managerVars
  <2>3. EndedInCleanup' /\ CleanupCancels' /\ IdStaysFree' /\ NotReadyAfterHandle' /\ Unlisted'
    BY <2>1 DEF EndedInCleanup, CleanupCancels, IdStaysFree, NotReadyAfterHandle, managerVars, Unlisted
  <2>. QED  BY <2>1, <2>2, <2>3 DEF IInv
<1>. QED  BY <1>1, <1>2

\* A step that moves the handler, or something that is no task, and leaves the
\* registry alone.
LEMMA FrameInv ==
  ASSUME IInv, TypeOK', UNCHANGED <<subs, taskVars, interrupted>>,
         \/ UNCHANGED <<handler, current>>
         \/ handler' \notin {"cleanup", "done", "subscribing"} /\ handler # "cleanup"
         \/ /\ handler' = "subscribing" /\ handler = "idle"
            /\ current' \in Ids /\ subs[current'] = NoTask,
         manager' = "cleanup" <=> manager = "cleanup",
         state' \in {state, "closing", "closed"} \/ handler' # "done",
         UNCHANGED <<listed, manager>> \/ (manager' # "idle" => ~ listed')
  PROVE  IInv'
<1>1. Consistent(subs, task, taskId, raced)'
  BY DEF IInv, taskVars
<1>2. EndedInCleanup' /\ CleanupCancels' /\ IdStaysFree' /\ NotReadyAfterHandle' /\ Unlisted'
  BY DEF IInv, taskVars, EndedInCleanup, CleanupCancels, IdStaysFree, NotReadyAfterHandle, Unlisted
<1>. QED  BY <1>1, <1>2 DEF IInv

-----------------------------------------------------------------------------
(* The steps of the handler                                                *)

LEMMA HandshakeInv == ASSUME IInv, HandshakeNext PROVE IInv'
<1>. USE DEF taskVars, managerVars
<1>0. /\ TypeOK /\ Unlisted /\ Consistent(subs, task, taskId, raced) /\ state \in States
      /\ current \in Ids \cup {NoId}
  BY DEF IInv, TypeOK, States
<1>1. CASE ReceiveInit
  <2>1. TypeOK'
    BY <1>0, <1>1 DEF ReceiveInit, TypeOK, HandlerAt
  <2>. QED  BY <1>1, <2>1, FrameInv DEF ReceiveInit
<1>2. CASE AckSent
  <2>1. TypeOK'
    BY <1>0, <1>2 DEF AckSent, TypeOK, HandlerAt
  <2>. QED  BY <1>2, <2>1, FrameInv DEF AckSent
<1>3. ASSUME handler = "await_init", StartClose,
             UNCHANGED <<current, interrupted, taskId, raced, managerVars>>
      PROVE  IInv'
  <2>1. CASE state = "closed"
    BY <1>0, <1>3, <2>1, EnterCleanupInv DEF StartClose
  <2>2. CASE state # "closed"
    <3>1. TypeOK'
      BY <1>0, <1>3, <2>2 DEF StartClose, TypeOK, HandlerAt
    <3>. QED  BY <1>3, <2>2, <3>1, FrameInv DEF StartClose
  <2>. QED  BY <2>1, <2>2
<1>4. CASE ReceiveMalformedFirst
  <2>1. CASE ~ Sendable
    BY <1>0, <1>4, <2>1, EnterCleanupInv DEF ReceiveMalformedFirst
  <2>2. CASE Sendable
    <3>1. TypeOK'
      BY <1>0, <1>4, <2>2 DEF ReceiveMalformedFirst, TypeOK, HandlerAt
    <3>. QED  BY <1>4, <2>2, <3>1, FrameInv DEF ReceiveMalformedFirst
  <2>. QED  BY <2>1, <2>2
<1>5. CASE RejectSent
  BY <1>0, <1>5, EnterCleanupInv DEF RejectSent
<1>. QED
  BY <1>1, <1>2, <1>3, <1>4, <1>5 DEF HandshakeNext, InitTimeout, ReceiveOtherFirst

\* The handler is not cleaning up: what has ended is in the registry for another
\* reason, and the registry may be handed to the loop as it is.
LEMMA LoopOnSame ==
  ASSUME IInv, handler \notin {"cleanup", "done"}, LoopOn(state, subs, task),
         current' \in Ids \cup {NoId}, UNCHANGED <<interrupted, taskId, raced, managerVars>>
  PROVE  IInv'
<1>1. /\ TypeOK /\ Unlisted /\ Consistent(subs, task, taskId', raced') /\ state \in States
      /\ NoneEnded(subs, task) \/ manager = "cleanup" \/ interrupted
      /\ manager = "cleanup" => OnlyRaced(task, raced')
  BY DEF IInv, TypeOK, States, EndedInCleanup, CleanupCancels
<1>. QED  BY <1>1, LoopOnInv

LEMMA AnswerInv ==
  ASSUME IInv, handler \notin {"cleanup", "done"}, current' \in Ids \cup {NoId},
         IF Sendable
         THEN handler' = "sending" /\ UNCHANGED <<state, keepAlive, task, subs, handlerWaits>>
         ELSE LoopOn(state, subs, task),
         UNCHANGED <<interrupted, taskId, raced, managerVars>>
  PROVE  IInv'
<1>1. CASE Sendable
  <2>1. TypeOK'
    BY <1>1 DEF IInv, TypeOK, HandlerAt, managerVars
  <2>. QED  BY <1>1, <2>1, FrameInv DEF taskVars, managerVars
<1>2. CASE ~ Sendable
  BY <1>2, LoopOnSame
<1>. QED  BY <1>1, <1>2

\* subscribe() has returned: the new task is registered under an id that is free,
\* and is a race unless all earlier tasks of the id are done.
LEMMA SubscribedInv == ASSUME IInv, NEW t \in Tasks, Subscribed(t) PROVE IInv'
<1>. DEFINE sb == [subs EXCEPT ![current] = t]
            tk == [task EXCEPT ![t] = "scheduled"]
<1>0. /\ TypeOK /\ Unlisted /\ Consistent(subs, task, taskId, raced) /\ state \in States
      /\ current \in Ids /\ subs[current] = NoTask
      /\ handler = "subscribing" /\ task[t] = "unborn"
  BY DEF IInv, Subscribed, IdStaysFree, TypeOK, States
<1>1. /\ taskId' = [taskId EXCEPT ![t] = current] /\ current' = NoId
      /\ raced \subseteq raced' /\ raced' \subseteq raced \cup {t}
      /\ LoopOn(state, sb, tk)
      /\ UNCHANGED <<interrupted, managerVars>>
  BY DEF Subscribed
<1>2. t \notin raced' => /\ manager # "cleanup"
                         /\ \A u \in Tasks : taskId[u] = current => task[u] = "done"
  BY DEF Subscribed
<1>3. \A u \in Tasks : u # t => taskId'[u] = taskId[u] /\ tk[u] = task[u]
  BY <1>0, <1>1 DEF Consistent
<1>4. taskId'[t] = current /\ tk[t] = "scheduled" /\ taskId[t] = NoId
  BY <1>0, <1>1 DEF Consistent
<1>5. Consistent(sb, tk, taskId', raced')
  <2>1. /\ sb \in [Ids -> Tasks \cup {NoTask}]
        /\ tk \in [Tasks -> TaskAt]
        /\ taskId' \in [Tasks -> Ids \cup {NoId}]
        /\ raced' \subseteq Tasks
    BY <1>0, <1>1 DEF Consistent, TaskAt
  <2>2. \A u \in Tasks : taskId'[u] = NoId <=> tk[u] = "unborn"
    BY <1>0, <1>3, <1>4 DEF Consistent
  <2>3. \A i \in Ids : sb[i] # NoTask => taskId'[sb[i]] = i
    <3>. SUFFICES ASSUME NEW i \in Ids, sb[i] # NoTask PROVE taskId'[sb[i]] = i
      OBVIOUS
    <3>1. CASE i = current
      BY <1>0, <1>4, <3>1 DEF Consistent
    <3>2. CASE i # current
      <4>1. sb[i] = subs[i] /\ subs[i] \in Tasks /\ taskId[subs[i]] = i
        BY <1>0, <3>2 DEF Consistent
      <4>. QED  BY <1>3, <1>4, <4>1
    <3>. QED  BY <3>1, <3>2
  <2>4. ASSUME NEW v \in Tasks, Iterating(tk[v]), v \notin raced'
        PROVE  /\ sb[taskId'[v]] = v
               /\ \A u \in Tasks : u # v /\ taskId'[u] = taskId'[v] => tk[u] = "done"
    <3>1. CASE v = t
      BY <1>0, <1>2, <1>3, <1>4, <2>4, <3>1 DEF Consistent
    <3>2. CASE v # t
      <4>1. /\ Iterating(task[v]) /\ v \notin raced /\ taskId'[v] = taskId[v]
        BY <1>1, <1>3, <2>4, <3>2
      <4>2. /\ subs[taskId[v]] = v /\ taskId[v] \in Ids
            /\ \A u \in Tasks : u # v /\ taskId[u] = taskId[v] => task[u] = "done"
        BY <1>0, <4>1 DEF Consistent, Iterating
      <4>3. taskId[v] # current
        BY <1>0, <4>2
      <4>4. sb[taskId[v]] = v
        BY <1>0, <4>2, <4>3 DEF Consistent
      <4>5. ASSUME NEW u \in Tasks, u # v, taskId'[u] = taskId'[v] PROVE tk[u] = "done"
        BY <1>3, <1>4, <4>1, <4>2, <4>3, <4>5
      <4>. QED  BY <4>1, <4>4, <4>5
    <3>. QED  BY <3>1, <3>2
  <2>. HIDE DEF sb, tk
  <2>. QED  BY <2>1, <2>2, <2>3, <2>4 DEF Consistent
<1>6. NoneEnded(sb, tk) \/ manager = "cleanup" \/ interrupted
  <2>. SUFFICES ASSUME manager # "cleanup", ~ interrupted PROVE NoneEnded(sb, tk)
    BY Zenon
  <2>1. NoneEnded(subs, task)
    BY <1>0 DEF IInv, EndedInCleanup
  <2>2. ASSUME NEW i \in Ids, sb[i] # NoTask PROVE ~ Ended(tk[sb[i]])
    <3>1. sb[i] \in {t, subs[i]} /\ sb[i] \in Tasks
      BY <1>0, <2>2 DEF Consistent
    <3>2. CASE sb[i] = t
      BY <1>4, <3>2 DEF Ended
    <3>3. CASE sb[i] = subs[i] /\ sb[i] # t
      BY <1>3, <2>1, <2>2, <3>1, <3>3 DEF NoneEnded
    <3>. QED  BY <3>1, <3>2, <3>3
  <2>. QED  BY <2>2 DEF NoneEnded
<1>7. manager = "cleanup" => OnlyRaced(tk, raced')
  <2>. SUFFICES ASSUME manager = "cleanup", NEW v \in Tasks, Iterating(tk[v])
                PROVE  v \in raced'
    BY DEF OnlyRaced
  <2>1. OnlyRaced(task, raced)
    BY DEF IInv, CleanupCancels
  <2>. QED  BY <1>1, <1>2, <1>3, <2>1 DEF OnlyRaced
<1>8. current' \in Ids \cup {NoId}
  BY <1>1
<1>. HIDE DEF sb, tk
<1>. QED  BY <1>0, <1>1, <1>5, <1>6, <1>7, <1>8, LoopOnInv

\* A registered task that leaves the registry as it is cancelled.
LEMMA CompleteInv == ASSUME IInv, NEW i \in Ids, ReceiveComplete(i) PROVE IInv'
<1>0. /\ TypeOK /\ Unlisted /\ Consistent(subs, task, taskId, raced) /\ state \in States
      /\ handler = "idle" /\ current' \in Ids \cup {NoId}
      /\ UNCHANGED <<interrupted, taskId, raced, managerVars>>
  BY DEF IInv, ReceiveComplete, TypeOK, States
<1>1. CASE subs[i] = NoTask
  BY <1>0, <1>1, LoopOnSame DEF ReceiveComplete
<1>2. CASE subs[i] # NoTask
  <2>. DEFINE sb == [subs EXCEPT ![i] = NoTask]
              tk == CancelTasks({subs[i]}, task)
  <2>1. LoopOn(state, sb, tk)
    BY <1>2 DEF ReceiveComplete
  <2>2. /\ Consistent(subs, tk, taskId, raced)
        /\ \A t \in Tasks : Iterating(tk[t]) => t # subs[i] /\ Iterating(task[t])
    BY <1>0, CancelKeeps
  <2>3. \A t \in Tasks : t # subs[i] => tk[t] = task[t]
    BY DEF CancelTasks
  <2>. HIDE DEF tk
  <2>4. Consistent(sb, tk, taskId, raced)
    <3>1. sb \in [Ids -> Tasks \cup {NoTask}]
      BY <1>0 DEF Consistent
    <3>2. \A j \in Ids : sb[j] # NoTask => taskId[sb[j]] = j
      BY <1>0 DEF Consistent
    <3>3. ASSUME NEW t \in Tasks, Iterating(tk[t]), t \notin raced PROVE sb[taskId[t]] = t
      <4>1. subs[taskId[t]] = t /\ t # subs[i] /\ taskId[t] \in Ids
        BY <2>2, <3>3 DEF Consistent, Iterating
      <4>. QED  BY <1>0, <4>1 DEF Consistent
    <3>. HIDE DEF sb
    <3>. QED  BY <2>2, <3>1, <3>2, <3>3 DEF Consistent
  <2>5. NoneEnded(sb, tk) \/ manager = "cleanup" \/ interrupted
    <3>. SUFFICES ASSUME manager # "cleanup", ~ interrupted,
                         NEW j \in Ids, sb[j] # NoTask
                  PROVE  ~ Ended(tk[sb[j]])
      BY Zenon DEF NoneEnded
    <3>1. j # i /\ sb[j] = subs[j] /\ subs[j] \in Tasks /\ taskId[subs[j]] = j
      BY <1>0 DEF Consistent
    <3>2. taskId[subs[i]] = i
      BY <1>0, <1>2 DEF Consistent
    <3>3. NoneEnded(subs, task)
      BY <1>0 DEF IInv, EndedInCleanup
    <3>. QED  BY <2>3, <3>1, <3>2, <3>3 DEF NoneEnded
  <2>6. manager = "cleanup" => OnlyRaced(tk, raced)
    BY <2>2 DEF IInv, CleanupCancels, OnlyRaced
  <2>. HIDE DEF sb
  <2>. QED  BY <1>0, <2>1, <2>4, <2>5, <2>6, LoopOnInv
<1>. QED  BY <1>1, <1>2

LEMMA LoopInv == ASSUME IInv, LoopNext PROVE IInv'
<1>0. TypeOK /\ current \in Ids \cup {NoId}
  BY DEF IInv, TypeOK
<1>1. CASE ReceiveAnswered
  BY <1>0, <1>1, AnswerInv DEF ReceiveAnswered, Answer
<1>2. CASE HandlerSent
  BY <1>0, <1>2, LoopOnSame DEF HandlerSent
<1>3. CASE ReceiveUnknown
  BY <1>0, <1>3, LoopOnSame DEF ReceiveUnknown
<1>4. CASE ReceiveTerminate
  <2>1. TypeOK'
    BY <1>0, <1>4 DEF ReceiveTerminate, TypeOK, HandlerAt, taskVars, managerVars
  <2>. QED  BY <1>4, <2>1, FrameInv DEF ReceiveTerminate, managerVars
<1>5. CASE SubscribeRefused
  BY <1>5, AnswerInv DEF SubscribeRefused
<1>6. ASSUME NEW i \in Ids, ReceiveSubscribe(i) PROVE IInv'
  <2>1. TypeOK'
    BY <1>0, <1>6 DEF ReceiveSubscribe, TypeOK, HandlerAt, taskVars, managerVars
  <2>. QED  BY <1>6, <2>1, FrameInv DEF ReceiveSubscribe, managerVars
<1>. QED
  BY <1>1, <1>2, <1>3, <1>4, <1>5, <1>6, CompleteInv, SubscribedInv DEF LoopNext

\* The registry may be cleared once only races are live.
LEMMA EmptyRegistry ==
  ASSUME NEW tk, NEW ids, NEW rc, Consistent(subs, tk, ids, rc), OnlyRaced(tk, rc)
  PROVE  Consistent([i \in Ids |-> NoTask], tk, ids, rc)
  BY DEF Consistent, OnlyRaced

LEMMA HandlerEndsInv == ASSUME IInv, HandlerEnds PROVE IInv'
<1>0. /\ TypeOK /\ Unlisted /\ Consistent(subs, task, taskId, raced) /\ state \in States
      /\ current \in Ids \cup {NoId}
  BY DEF IInv, TypeOK, States
<1>1. CASE Disconnect
  BY <1>0, <1>1, EnterCleanupInv DEF Disconnect, States
<1>2. CASE HandlerSendFails
  BY <1>0, <1>2, EnterCleanupInv DEF HandlerSendFails, States
<1>3. CASE HandlerClosed
  BY <1>0, <1>3, EnterCleanupInv DEF HandlerClosed, States
<1>4. CASE HandlerCancelled
  BY <1>0, <1>4, EnterCleanupInv DEF HandlerCancelled
<1>5. CASE HandlerCleanedUp
  <2>. USE <1>5 DEF HandlerCleanedUp, taskVars, managerVars
  <2>1. OnlyRaced(task, raced)
    BY DEF IInv, CleanupCancels
  <2>2. Consistent(subs, task, taskId, raced)'
    BY <1>0, <2>1, EmptyRegistry
  <2>3. TypeOK'
    BY <1>0 DEF TypeOK, HandlerAt
  <2>4. EndedInCleanup' /\ CleanupCancels' /\ IdStaysFree' /\ NotReadyAfterHandle' /\ Unlisted'
    BY <1>0, <2>1 DEF EndedInCleanup, NoneEnded, CleanupCancels, OnlyRaced, IdStaysFree,
                NotReadyAfterHandle, Unlisted
  <2>. QED  BY <2>2, <2>3, <2>4 DEF IInv
<1>6. CASE HandlerCancelledInCleanup
  <2>. USE <1>6 DEF HandlerCancelledInCleanup, connection, taskVars, managerVars
  <2>1. TypeOK'
    BY <1>0 DEF TypeOK, HandlerAt
  <2>2. CleanupCancels'
    BY DEF IInv, CleanupCancels, OnlyRaced
  <2>3. EndedInCleanup' /\ IdStaysFree' /\ NotReadyAfterHandle' /\ Unlisted'
    BY <1>0 DEF EndedInCleanup, IdStaysFree, NotReadyAfterHandle, Unlisted
  <2>. QED  BY <1>0, <2>1, <2>2, <2>3 DEF IInv
<1>. QED  BY <1>1, <1>2, <1>3, <1>4, <1>5, <1>6 DEF HandlerEnds

-----------------------------------------------------------------------------
(* The steps of the tasks, of the keep-alive and of the manager            *)

\* A task goes on: nothing is cancelled, ended or registered.
LEMMA TaskGoesOn ==
  ASSUME IInv, NEW t \in Tasks, Iterating(task[t]), NEW to \in TaskAt, Iterating(to),
         task' = [task EXCEPT ![t] = to], UNCHANGED <<state, subs, taskFrame>>
  PROVE  IInv'
<1>. USE DEF taskFrame, managerVars
<1>0. TypeOK /\ Consistent(subs, task, taskId, raced)
  BY DEF IInv
<1>1. /\ task' \in [Tasks -> TaskAt]
      /\ \A u \in Tasks : /\ Iterating(task'[u]) <=> Iterating(task[u])
                          /\ Ended(task'[u]) <=> Ended(task[u])
                          /\ task'[u] = "unborn" <=> task[u] = "unborn"
                          /\ task'[u] = "done" <=> task[u] = "done"
  BY <1>0 DEF Consistent, Iterating, Ended
<1>2. Consistent(subs, task, taskId, raced)'
  BY <1>0, <1>1 DEF Consistent
<1>3. TypeOK'
  BY <1>0, <1>1 DEF TypeOK
<1>4. EndedInCleanup'
  BY <1>0, <1>1 DEF IInv, Consistent, EndedInCleanup, NoneEnded
<1>5. CleanupCancels'
  BY <1>1 DEF IInv, CleanupCancels, OnlyRaced
<1>6. IdStaysFree' /\ NotReadyAfterHandle' /\ Unlisted'
  BY DEF IInv, IdStaysFree, NotReadyAfterHandle, Unlisted
<1>. QED  BY <1>2, <1>3, <1>4, <1>5, <1>6 DEF IInv

\* A task ends and leaves the registry, by its id: no other live task that was
\* registered without a race has that id.
LEMMA FinishInv ==
  ASSUME IInv, NEW t \in Tasks, task[t] \notin {"unborn", "done"}, Finish(t),
         state' \in {state, "closing"}, UNCHANGED taskFrame
  PROVE  IInv'
<1>. USE DEF taskFrame, managerVars
<1>0. TypeOK /\ Consistent(subs, task, taskId, raced) /\ taskId[t] \in Ids
  BY DEF IInv, Consistent
<1>1. /\ task' = [task EXCEPT ![t] = "done"]
      /\ subs' = [subs EXCEPT ![taskId[t]] = NoTask]
  BY DEF Finish
<1>2. /\ task' \in [Tasks -> TaskAt] /\ subs' \in [Ids -> Tasks \cup {NoTask}]
      /\ task'[t] = "done" /\ \A u \in Tasks : u # t => task'[u] = task[u]
      /\ subs'[taskId[t]] = NoTask /\ \A i \in Ids : i # taskId[t] => subs'[i] = subs[i]
  BY <1>0, <1>1 DEF Consistent, TaskAt
<1>3. Consistent(subs, task, taskId, raced)'
  <2>1. \A u \in Tasks : taskId[u] = NoId <=> task'[u] = "unborn"
    BY <1>0, <1>2 DEF Consistent
  <2>2. \A i \in Ids : subs'[i] # NoTask => taskId[subs'[i]] = i
    BY <1>0, <1>2 DEF Consistent
  <2>3. ASSUME NEW v \in Tasks, Iterating(task'[v]), v \notin raced
        PROVE  /\ subs'[taskId[v]] = v
               /\ \A u \in Tasks : u # v /\ taskId[u] = taskId[v] => task'[u] = "done"
    <3>1. v # t /\ Iterating(task[v])
      BY <1>2, <2>3 DEF Iterating
    <3>2. /\ subs[taskId[v]] = v /\ taskId[v] \in Ids
          /\ \A u \in Tasks : u # v /\ taskId[u] = taskId[v] => task[u] = "done"
      BY <1>0, <2>3, <3>1 DEF Consistent, Iterating
    <3>3. taskId[v] # taskId[t]
      BY <3>1, <3>2
    <3>. QED  BY <1>2, <3>1, <3>2, <3>3
  <2>4. /\ taskId' \in [Tasks -> Ids \cup {NoId}] /\ raced' \subseteq Tasks
    BY <1>0 DEF Consistent
  <2>. QED  BY <1>2, <2>1, <2>2, <2>3, <2>4 DEF Consistent
<1>4. TypeOK'
  BY <1>0, <1>2 DEF TypeOK
<1>5. EndedInCleanup'
  <2>. SUFFICES ASSUME NoneEnded(subs, task) PROVE NoneEnded(subs', task')
    BY DEF IInv, EndedInCleanup
  <2>. SUFFICES ASSUME NEW i \in Ids, subs'[i] # NoTask PROVE ~ Ended(task'[subs'[i]])
    BY DEF NoneEnded
  <2>1. i # taskId[t] /\ subs'[i] = subs[i] /\ subs[i] \in Tasks /\ taskId[subs[i]] = i
    BY <1>0, <1>2 DEF Consistent
  <2>. QED  BY <1>2, <2>1 DEF NoneEnded
<1>6. CleanupCancels'
  BY <1>2 DEF IInv, CleanupCancels, OnlyRaced, Iterating
<1>7. IdStaysFree' /\ NotReadyAfterHandle' /\ Unlisted'
  BY <1>0, <1>2 DEF IInv, IdStaysFree, NotReadyAfterHandle, Unlisted
<1>. QED  BY <1>3, <1>4, <1>5, <1>6, <1>7 DEF IInv

\* A task that never ran ends and stays in the registry.
LEMMA AbortInv == ASSUME IInv, NEW t \in Tasks, TaskAborts(t) PROVE IInv'
<1>. USE DEF TaskAborts, taskFrame, managerVars
<1>0. TypeOK /\ Consistent(subs, task, taskId, raced)
  BY DEF IInv
<1>1. /\ task' \in [Tasks -> TaskAt]
      /\ \A u \in Tasks : /\ Iterating(task'[u]) <=> Iterating(task[u])
                          /\ Ended(task'[u]) <=> Ended(task[u])
                          /\ task'[u] = "unborn" <=> task[u] = "unborn"
                          /\ task[u] = "done" => task'[u] = "done"
  BY <1>0 DEF Consistent, Iterating, Ended, TaskAt
<1>2. Consistent(subs, task, taskId, raced)'
  BY <1>0, <1>1 DEF Consistent
<1>3. TypeOK'
  BY <1>0, <1>1 DEF TypeOK
<1>4. EndedInCleanup'
  BY <1>0, <1>1 DEF IInv, Consistent, EndedInCleanup, NoneEnded
<1>5. CleanupCancels'
  BY <1>1 DEF IInv, CleanupCancels, OnlyRaced
<1>6. IdStaysFree' /\ NotReadyAfterHandle' /\ Unlisted'
  BY DEF IInv, IdStaysFree, NotReadyAfterHandle, Unlisted
<1>. QED  BY <1>2, <1>3, <1>4, <1>5, <1>6 DEF IInv

LEMMA TaskInv == ASSUME IInv, NEW t \in Tasks, TaskNext(t) PROVE IInv'
<1>1. CASE TaskStarts(t) \/ TaskYields(t) \/ TaskSent(t)
  BY <1>1, TaskGoesOn DEF TaskStarts, TaskYields, TaskSent, Iterating, TaskAt
<1>2. CASE TaskEnds(t)
  <2>1. CASE Sendable
    BY <1>2, <2>1, TaskGoesOn DEF TaskEnds, Iterating, TaskAt
  <2>2. CASE ~ Sendable
    BY <1>2, <2>2, FinishInv DEF TaskEnds
  <2>. QED  BY <2>1, <2>2
<1>3. CASE TaskFinished(t) \/ TaskSendFails(t) \/ TaskUnwinds(t)
  BY <1>3, FinishInv DEF TaskFinished, TaskSendFails, TaskUnwinds
<1>. QED  BY <1>1, <1>2, <1>3, AbortInv DEF TaskNext

LEMMA KeepAliveInv == ASSUME IInv, KeepAliveNext PROVE IInv'
<1>1. TypeOK'
  BY DEF IInv, TypeOK, KeepAliveNext, KeepAliveTick, KeepAliveSent, KeepAliveSendFails,
         keepAliveFrame, taskVars, managerVars
<1>. QED
  BY <1>1, FrameInv DEF KeepAliveNext, KeepAliveTick, KeepAliveSent, KeepAliveSendFails,
         keepAliveFrame, taskVars, managerVars

\* remove_connection cancels what is registered, like the handler's cleanup.
LEMMA RemoveInv == ASSUME IInv, RemoveConnection PROVE IInv'
<1>. USE DEF RemoveConnection, managerFrame
<1>. DEFINE S == Registered(subs)
<1>0. TypeOK /\ Consistent(subs, task, taskId, raced) /\ S \subseteq Tasks
  BY DEF IInv, Consistent, Registered
<1>1. /\ task' = CancelTasks(S, task)
      /\ UNCHANGED <<subs, taskId, raced, handler, current, interrupted>>
      /\ \/ S = {} /\ state' = "closed" /\ UNCHANGED manager
         \/ S # {} /\ manager' = "cleanup" /\ UNCHANGED state
  OBVIOUS
<1>2. Consistent(subs, task, taskId, raced)' /\ OnlyRaced(task, raced)'
  BY <1>0, <1>1, CancelKeeps, CancelAll
<1>3. TypeOK'
  <2>1. listed' \in BOOLEAN /\ interrupted' \in BOOLEAN
    BY <1>0, Zenon DEF TypeOK
  <2>2. state' \in States /\ manager' \in {"idle", "cleanup", "closing"}
    BY <1>0, <1>1 DEF TypeOK, States
  <2>. QED  BY <1>0, <1>1, <1>2, <2>1, <2>2 DEF TypeOK, Consistent, States
<1>4. EndedInCleanup'
  BY <1>1 DEF EndedInCleanup, NoneEnded, Registered
<1>5. CleanupCancels' /\ IdStaysFree' /\ NotReadyAfterHandle' /\ Unlisted'
  BY <1>1, <1>2 DEF IInv, CleanupCancels, IdStaysFree, NotReadyAfterHandle, Unlisted
<1>. QED  BY <1>2, <1>3, <1>4, <1>5 DEF IInv

LEMMA ManagerCleanedUpInv == ASSUME IInv, ManagerCleanedUp PROVE IInv'
<1>. USE DEF ManagerCleanedUp, managerFrame
<1>1. OnlyRaced(task, raced)
  BY DEF IInv, CleanupCancels
<1>2. Consistent(subs, task, taskId, raced)'
  BY <1>1, EmptyRegistry DEF IInv
<1>3. TypeOK'
  BY DEF IInv, TypeOK
<1>4. EndedInCleanup' /\ CleanupCancels' /\ IdStaysFree' /\ NotReadyAfterHandle' /\ Unlisted'
  BY <1>1 DEF IInv, EndedInCleanup, NoneEnded, CleanupCancels, OnlyRaced, IdStaysFree,
              NotReadyAfterHandle, Unlisted
<1>. QED  BY <1>2, <1>3, <1>4 DEF IInv

LEMMA ManagerInv == ASSUME IInv, ManagerNext PROVE IInv'
<1>1. CASE CloseAll
  <2>1. manager' = "cleanup" <=> manager = "cleanup"
    BY <1>1 DEF IInv, Unlisted, TypeOK, CloseAll
  <2>2. TypeOK'
    BY <1>1 DEF IInv, TypeOK, CloseAll, managerFrame
  <2>. QED  BY <1>1, <2>1, <2>2, FrameInv DEF CloseAll, managerFrame, taskVars
<1>3. CASE ManagerClosed
  <2>1. TypeOK'
    BY <1>3 DEF IInv, TypeOK, ManagerClosed, managerFrame
  <2>. QED  BY <1>3, <2>1, FrameInv DEF ManagerClosed, managerFrame, taskVars
<1>2. CASE Broadcast \/ BroadcastStarts \/ BroadcastSent \/ BroadcastFails
  <2>1. TypeOK'
    BY <1>2 DEF IInv, TypeOK, Broadcast, BroadcastStarts, BroadcastSent, BroadcastFails,
                managerFrame
  <2>. QED
    BY <1>2, <2>1, FrameInv DEF Broadcast, BroadcastStarts, BroadcastSent, BroadcastFails,
                managerFrame, taskVars
<1>. QED  BY <1>1, <1>2, <1>3, RemoveInv, ManagerCleanedUpInv DEF ManagerNext

-----------------------------------------------------------------------------
LEMMA InitInv == Init => IInv
<1>. SUFFICES ASSUME Init PROVE IInv
  OBVIOUS
<1>. USE DEF Init
<1>1. listed \in BOOLEAN /\ interrupted \in BOOLEAN
  OBVIOUS
<1>2. TypeOK
  BY <1>1 DEF TypeOK, HandlerAt, TaskAt
<1>3. Consistent(subs, task, taskId, raced)
  BY DEF Consistent, TaskAt, Iterating
<1>4. EndedInCleanup /\ CleanupCancels /\ IdStaysFree /\ NotReadyAfterHandle /\ Unlisted
  BY DEF Unlisted, EndedInCleanup, NoneEnded, CleanupCancels, IdStaysFree, NotReadyAfterHandle
<1>. QED  BY <1>2, <1>3, <1>4 DEF IInv

LEMMA Stutter == ASSUME IInv, UNCHANGED vars PROVE IInv'
<1>. USE DEF vars, connection, taskVars, managerVars
<1>1. TypeOK' /\ Consistent(subs, task, taskId, raced)'
  BY DEF IInv, TypeOK
<1>2. EndedInCleanup' /\ CleanupCancels' /\ IdStaysFree' /\ NotReadyAfterHandle' /\ Unlisted'
  BY DEF IInv, EndedInCleanup, CleanupCancels, IdStaysFree, NotReadyAfterHandle, Unlisted
<1>. QED  BY <1>1, <1>2 DEF IInv

LEMMA Invariance == Spec => []IInv
<1>1. IInv /\ [Next]_vars => IInv'
  BY HandshakeInv, LoopInv, HandlerEndsInv, TaskInv, KeepAliveInv, ManagerInv, Stutter DEF Next
<1>. QED  BY <1>1, InitInv, PTL DEF Spec

\* Type correctness of a connection.
THEOREM TypeCorrect == Spec => []TypeOK
<1>1. IInv => TypeOK
  BY DEF IInv
<1>. QED  BY <1>1, Invariance, PTL

\* The registry names only tasks of the id, and ended ones only while somebody
\* cleans up: complete, the `finally` of a task and _cleanup leave no stale entry.
THEOREM RegistryIsSound == Spec => []RegistrySound
<1>1. IInv => RegistrySound
  BY DEF IInv, Consistent, EndedInCleanup, NoneEnded, Ended, RegistrySound
<1>. QED  BY <1>1, Invariance, PTL

\* A live task is found in the registry under its id, but for the two races.
THEOREM LiveTasksAreRegistered == Spec => []LiveTasksRegistered
<1>1. IInv => LiveTasksRegistered
  BY DEF IInv, Consistent, Iterating, Live, LiveTasksRegistered
<1>. QED  BY <1>1, Invariance, PTL

\* When handle() has returned, only tasks that were registered in a race are live.
THEOREM CleanupReaches == Spec => []CleanupReachesAll
<1>1. IInv => CleanupReachesAll
  BY DEF IInv, CleanupCancels, OnlyRaced, Iterating, Live, CleanupReachesAll
<1>. QED  BY <1>1, Invariance, PTL

\* A connection whose handle() has returned by itself is never READY again.
THEOREM NeverReadyAgain == Spec => []NotReadyAfterHandle
<1>1. IInv => NotReadyAfterHandle
  BY DEF IInv
<1>. QED  BY <1>1, Invariance, PTL

\* Some id goes from one task to another.
Replaces(sb) == \E i \in Ids : subs[i] # NoTask /\ sb[i] # NoTask /\ sb[i] # subs[i]

LEMMA RegistryStep == ASSUME IInv, [Next]_vars PROVE ~ Replaces(subs')
<1>0. Consistent(subs, task, taskId, raced)
  BY DEF IInv
<1>1. CASE UNCHANGED subs
  BY <1>1 DEF Replaces
<1>2. CASE subs' = [i \in Ids |-> NoTask]
  BY <1>2 DEF Replaces
<1>3. ASSUME NEW i \in Ids, subs' = [subs EXCEPT ![i] = NoTask] PROVE ~ Replaces(subs')
  BY <1>0, <1>3 DEF Replaces, Consistent
<1>4. ASSUME NEW st, NEW sb, NEW tk, LoopOn(st, sb, tk) \/ EnterCleanup(st, sb, tk) 
      PROVE  subs' = sb
  BY <1>4 DEF LoopOn, EnterCleanup
<1>5. ASSUME HandshakeNext PROVE UNCHANGED subs
  BY <1>4, <1>5 DEF HandshakeNext, ReceiveInit, AckSent, InitTimeout, ReceiveOtherFirst,
                    StartClose, ReceiveMalformedFirst, RejectSent
<1>6. CASE LoopNext
  <2>1. CASE ReceiveAnswered \/ HandlerSent \/ ReceiveUnknown \/ ReceiveTerminate \/ SubscribeRefused
    <3>1. UNCHANGED subs
      BY <1>4, <2>1 DEF ReceiveAnswered, Answer, HandlerSent, ReceiveUnknown, ReceiveTerminate,
                        SubscribeRefused
    <3>. QED  BY <1>1, <3>1
  <2>2. ASSUME NEW i \in Ids, ReceiveSubscribe(i) PROVE ~ Replaces(subs')
    BY <1>1, <2>2 DEF ReceiveSubscribe
  <2>3. ASSUME NEW i \in Ids, ReceiveComplete(i) PROVE ~ Replaces(subs')
    <3>1. CASE subs[i] = NoTask
      BY <1>1, <1>4, <2>3, <3>1 DEF ReceiveComplete
    <3>2. CASE subs[i] # NoTask
      <4>1. subs' = [subs EXCEPT ![i] = NoTask]
        BY <1>4, <2>3, <3>2 DEF ReceiveComplete
      <4>. QED  BY <1>3, <4>1
    <3>. QED  BY <3>1, <3>2
  <2>4. ASSUME NEW t \in Tasks, Subscribed(t) PROVE ~ Replaces(subs')
    <3>1. subs' = [subs EXCEPT ![current] = t]
      BY <1>4, <2>4 DEF Subscribed
    <3>2. current \in Ids /\ subs[current] = NoTask
      BY <2>4 DEF Subscribed, IInv, IdStaysFree
    <3>. QED  BY <1>0, <3>1, <3>2 DEF Replaces, Consistent
  <2>. QED  BY <1>6, <2>1, <2>2, <2>3, <2>4 DEF LoopNext
<1>7. CASE HandlerEnds
  <2>1. UNCHANGED subs \/ subs' = [i \in Ids |-> NoTask]
    BY <1>4, <1>7 DEF HandlerEnds, Disconnect, HandlerSendFails, HandlerClosed, HandlerCleanedUp,
                      HandlerCancelled, HandlerCancelledInCleanup, connection
  <2>. QED  BY <1>1, <1>2, <2>1
<1>8. ASSUME NEW t \in Tasks, TaskNext(t) PROVE ~ Replaces(subs')
  <2>1. CASE Finish(t) /\ taskId[t] \in Ids
    BY <1>3, <2>1 DEF Finish
  <2>2. CASE Finish(t) /\ taskId[t] \notin Ids
    <3>1. UNCHANGED subs
      BY <1>0, <2>2 DEF Finish, Consistent
    <3>. QED  BY <1>1, <3>1
  <2>3. CASE UNCHANGED subs
    BY <1>1, <2>3
  <2>. QED
    BY <1>8, <2>1, <2>2, <2>3 DEF TaskNext, TaskStarts, TaskYields, TaskSent, TaskEnds, TaskFinished,
                      TaskSendFails, TaskUnwinds, TaskAborts
<1>9. CASE KeepAliveNext
  BY <1>1, <1>9 DEF KeepAliveNext, KeepAliveTick, KeepAliveSent, KeepAliveSendFails, keepAliveFrame
<1>10. CASE ManagerNext
  BY <1>1, <1>2, <1>10 DEF ManagerNext, RemoveConnection, ManagerCleanedUp, CloseAll, ManagerClosed,
                      Broadcast, BroadcastStarts, BroadcastSent, BroadcastFails
<1>11. CASE UNCHANGED vars
  BY <1>1, <1>11 DEF vars, connection
<1>. QED  BY <1>1, <1>5, <1>6, <1>7, <1>8, <1>9, <1>10, <1>11 DEF Next

\* subscribe() never replaces a task that is registered, although the id is looked
\* up before graphql is awaited and stored after it.
THEOREM TasksAreNotReplaced == Spec => NoReplacement
<1>1. IInv /\ [Next]_vars =>
        [\A i \in Ids : subs[i] # NoTask /\ subs'[i] # NoTask => subs'[i] = subs[i]]_vars
  BY RegistryStep DEF Replaces
<1>. QED  BY <1>1, Invariance, PTL DEF Spec, NoReplacement

-----------------------------------------------------------------------------
(* SubscriptionCache                                                       *)

\* Whoever is inside `async with` is the holder of the lock it entered with.
HoldersHold == \A s \in Subscribers : Holding(s) => holder[lock[s]] = s

\* A call inside or in front of `async with` has a lock, and unless the cleanup
\* has removed it, that lock is the lock of its key.
LocksKnown ==
    \A s \in Subscribers : Holding(s) \/ pc[s] = "waiting" =>
        /\ lock[s] \in Subscribers
        /\ s \in displaced \/ locks[key[s]] = lock[s]

CacheIInv == CacheTypeOK /\ HoldersHold /\ LocksKnown

LEMMA CacheInitInv == CacheInit => CacheIInv
<1>. SUFFICES ASSUME CacheInit PROVE CacheIInv
  OBVIOUS
<1>1. /\ cleaner \in BOOLEAN /\ orphaned \in BOOLEAN
      /\ displaced \subseteq Subscribers
  BY DEF CacheInit
<1>2. CacheTypeOK
  BY <1>1 DEF CacheInit, CacheTypeOK
<1>3. HoldersHold /\ LocksKnown
  BY DEF CacheInit, HoldersHold, LocksKnown, Holding
<1>. QED  BY <1>2, <1>3 DEF CacheIInv

LEMMA MissInv == ASSUME CacheIInv, NEW s \in Subscribers, Miss(s) PROVE CacheIInv'
<1>. USE DEF CacheIInv, Miss
<1>. DEFINE l == IF locks[key[s]] = NoSub THEN s ELSE locks[key[s]]
<1>0. l \in Subscribers
  BY DEF CacheTypeOK
<1>1. CacheTypeOK'
  BY <1>0 DEF CacheTypeOK, Entered, loops
<1>2. HoldersHold'
  BY <1>0 DEF CacheTypeOK, HoldersHold, LocksKnown, Holding
<1>3. LocksKnown'
  <2>. SUFFICES ASSUME NEW t \in Subscribers, (Holding(t) \/ pc[t] = "waiting")'
                PROVE  lock'[t] \in Subscribers /\ (t \in displaced' \/ locks'[key'[t]] = lock'[t])
    BY DEF LocksKnown
  <2>1. CASE t = s
    BY <2>1, <1>0 DEF CacheTypeOK
  <2>2. CASE t # s
    <3>1. (Holding(t) \/ pc[t] = "waiting") /\ lock'[t] = lock[t]
      BY <2>2 DEF CacheTypeOK, Holding
    <3>2. lock[t] \in Subscribers /\ (t \in displaced \/ locks[key[t]] = lock[t])
      BY <3>1 DEF LocksKnown
    <3>3. CASE key[t] = key[s] /\ t \notin displaced
      BY <3>1, <3>2, <3>3 DEF CacheTypeOK
    <3>4. CASE key[t] # key[s] \/ t \in displaced
      BY <3>1, <3>2, <3>4 DEF CacheTypeOK
    <3>. QED  BY <3>3, <3>4
  <2>. QED  BY <2>1, <2>2
<1>. QED  BY <1>1, <1>2, <1>3

LEMMA AcquireInv == ASSUME CacheIInv, NEW s \in Subscribers, Acquire(s) PROVE CacheIInv'
<1>. USE DEF CacheIInv, Acquire
<1>0. lock[s] \in Subscribers
  BY DEF LocksKnown
<1>1. CacheTypeOK'
  BY <1>0 DEF CacheTypeOK, Entered, loops
<1>2. HoldersHold'
  BY <1>0 DEF CacheTypeOK, HoldersHold, LocksKnown, Holding
<1>3. LocksKnown'
  BY <1>0 DEF CacheTypeOK, LocksKnown, Holding
<1>. QED  BY <1>1, <1>2, <1>3

LEMMA LeaveInv == ASSUME CacheIInv, NEW s \in Subscribers, Leave(s) PROVE CacheIInv'
<1>. USE DEF CacheIInv, Leave
<1>0. lock[s] \in Subscribers
  BY DEF LocksKnown
<1>1. CacheTypeOK'
  BY <1>0 DEF CacheTypeOK, loops
<1>2. HoldersHold'
  BY <1>0 DEF CacheTypeOK, HoldersHold, LocksKnown, Holding
<1>3. LocksKnown'
  BY <1>0 DEF CacheTypeOK, LocksKnown, Holding
<1>. QED  BY <1>1, <1>2, <1>3

\* A step of one call that leaves the locks alone and does not put it in front
\* of, or inside, `async with`.
LEMMA CallLocalInv ==
  ASSUME CacheIInv, NEW s \in Subscribers, NEW from, NEW to, At(s, from, to),
         to \in {"cached", "done", "generating", "yielding"},
         to \in {"generating", "yielding"} => Holding(s),
         UNCHANGED <<lockVars, key, lock, loops, displaced>>,
         cache' \in [Keys -> {"absent", "fresh", "expired"}]
  PROVE  CacheIInv'
<1>. USE DEF CacheIInv, At, lockVars, loops
<1>1. CacheTypeOK'
  BY DEF CacheTypeOK
<1>2. HoldersHold' /\ LocksKnown'
  BY DEF CacheTypeOK, HoldersHold, LocksKnown, Holding
<1>. QED  BY <1>1, <1>2

LEMMA CallInv == ASSUME CacheIInv, NEW s \in Subscribers, SubscriberNext(s) PROVE CacheIInv'
<1>0. cache \in [Keys -> {"absent", "fresh", "expired"}] /\ key[s] \in Keys
  BY DEF CacheIInv, CacheTypeOK
<1>1. CASE Hit(s)
  BY <1>0, <1>1, CallLocalInv DEF Hit
<1>2. CASE Generate(s)
  <2>1. Holding(s)
    BY <1>2 DEF Generate, At, Holding
  <2>2. cache' \in [Keys -> {"absent", "fresh", "expired"}]
    BY <1>0, <1>2 DEF Generate
  <2>. QED  BY <1>2, <2>1, <2>2, CallLocalInv DEF Generate
<1>3. CASE Resume(s)
  <2>1. Holding(s)
    BY <1>3 DEF Resume, At, Holding
  <2>. QED  BY <1>0, <1>3, <2>1, CallLocalInv DEF Resume
<1>4. CASE LeaveCached(s)
  BY <1>0, <1>4, CallLocalInv DEF LeaveCached
<1>5. CASE GiveUp(s)
  BY <1>0, <1>5, CallLocalInv DEF GiveUp
<1>. QED
  BY <1>1, <1>2, <1>3, <1>4, <1>5, MissInv, AcquireInv, LeaveInv DEF SubscriberNext

LEMMA CacheCleanupInv == ASSUME CacheIInv, Cleanup PROVE CacheIInv'
<1>. USE DEF CacheIInv, Cleanup
<1>1. CacheTypeOK'
  BY DEF CacheTypeOK, loops
<1>2. HoldersHold'
  BY DEF HoldersHold, Holding
<1>3. LocksKnown'
  BY DEF CacheTypeOK, LocksKnown, Holding
<1>. QED  BY <1>1, <1>2, <1>3

LEMMA CacheFrameInv ==
  ASSUME CacheIInv, UNCHANGED <<lockVars, pc, key, lock, displaced>>,
         cache' \in [Keys -> {"absent", "fresh", "expired"}],
         cleaner' \in BOOLEAN, orphaned' \in BOOLEAN
  PROVE  CacheIInv'
<1>1. CacheTypeOK'
  BY DEF CacheIInv, CacheTypeOK, lockVars
<1>2. HoldersHold' /\ LocksKnown'
  BY DEF CacheIInv, HoldersHold, LocksKnown, Holding, lockVars
<1>. QED  BY <1>1, <1>2 DEF CacheIInv

LEMMA CacheNextInv == CacheIInv /\ [CacheNext]_cacheVars => CacheIInv'
<1>. SUFFICES ASSUME CacheIInv, [CacheNext]_cacheVars PROVE CacheIInv'
  OBVIOUS
<1>0. /\ cache \in [Keys -> {"absent", "fresh", "expired"}]
      /\ cleaner \in BOOLEAN /\ orphaned \in BOOLEAN
  BY DEF CacheIInv, CacheTypeOK
<1>1. CASE Start
  <2>1. cleaner' \in BOOLEAN /\ orphaned' \in BOOLEAN
    BY <1>0, <1>1, Zenon DEF Start
  <2>. QED  BY <1>0, <1>1, <2>1, CacheFrameInv DEF Start
<1>2. CASE Stop
  BY <1>0, <1>2, CacheFrameInv DEF Stop
<1>3. CASE Cleanup
  BY <1>3, CacheCleanupInv
<1>4. ASSUME NEW k \in Keys, Expire(k) PROVE CacheIInv'
  <2>1. cache' \in [Keys -> {"absent", "fresh", "expired"}]
    BY <1>0, <1>4 DEF Expire
  <2>. QED  BY <1>0, <1>4, <2>1, CacheFrameInv DEF Expire, loops
<1>5. ASSUME NEW s \in Subscribers, SubscriberNext(s) PROVE CacheIInv'
  BY <1>5, CallInv
<1>6. CASE UNCHANGED cacheVars
  BY <1>0, <1>6, CacheFrameInv DEF cacheVars, loops
<1>. QED  BY <1>1, <1>2, <1>3, <1>4, <1>5, <1>6 DEF CacheNext

LEMMA CacheInvariance == CacheSpec => []CacheIInv
  BY CacheInitInv, CacheNextInv, PTL DEF CacheSpec

\* Type correctness of the subscription cache.
THEOREM CacheTypeCorrect == CacheSpec => []CacheTypeOK
  BY CacheInvariance, PTL DEF CacheIInv

\* Two generators of one key run at once only when the cleanup has removed the
\* lock of one of them.
THEOREM GeneratorsAreSingle == CacheSpec => []OneGenerator
<1>1. CacheIInv => OneGenerator
  BY DEF CacheIInv, HoldersHold, LocksKnown, OneGenerator, Generating, Holding
<1>. QED  BY <1>1, CacheInvariance, PTL
=============================================================================
