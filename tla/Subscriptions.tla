--------------------------- MODULE Subscriptions ---------------------------
(***************************************************************************)
(* One WebSocket connection of subscriptions/websocket.py and what the     *)
(* SubscriptionManager does to it.                                         *)
(*                                                                         *)
(* The tasks of one event loop share the connection: its handler (handle), *)
(* one task per subscription (_handle_subscription_generator), the         *)
(* keep-alive task, and the manager's callers (remove_connection,          *)
(* broadcast, close_all).  A step runs from one `await` to the next.  The  *)
(* socket may refuse any send; a client sends any message at any time.     *)
(***************************************************************************)
EXTENDS Naturals, FiniteSets

CONSTANTS
    Ids,     \* subscription ids the client uses
    Tasks,   \* subscription tasks; their number bounds the subscriptions accepted
    NoId, NoTask

ASSUME NoneAssumption == NoId \notin Ids /\ NoTask \notin Tasks

VARIABLES
    state,        \* self.state
    handler,      \* what the task running handle() awaits
    current,      \* the id of the subscribe message being handled
    subs,         \* self.subscriptions
    task,         \* where each subscription task is
    taskId,       \* the id each subscription task was created for
    handlerWaits, \* the tasks the handler's _cleanup gathers
    keepAlive,    \* where the keep-alive task is
    listed,       \* whether manager.connections holds the connection
    manager,      \* what the manager's remove_connection or close_all awaits
    managerWaits, \* the tasks remove_connection's _cleanup gathers
    broadcast,    \* where the manager's broadcast to this connection is
    raced,        \* history: tasks registered under an id whose previous task is still
                  \* unwinding, or while remove_connection cleans up
    interrupted   \* history: the handler was cancelled inside its _cleanup

connection == <<state, current, subs, keepAlive>>
taskVars == <<task, taskId, raced>>
managerVars == <<listed, manager, managerWaits, broadcast>>
vars == <<connection, handler, handlerWaits, interrupted, taskVars, managerVars>>

HandlerAt == {"await_init", "acking", "rejecting", "idle", "sending", "subscribing",
              "closing", "cleanup", "done"}
TaskAt == {"unborn", "scheduled", "running", "sending", "finishing",
           "aborting", "cancelling", "done"}

TypeOK ==
    /\ state \in {"connecting", "ready", "closing", "closed"}
    /\ handler \in HandlerAt
    /\ current \in Ids \cup {NoId}
    /\ subs \in [Ids -> Tasks \cup {NoTask}]
    /\ task \in [Tasks -> TaskAt]
    /\ taskId \in [Tasks -> Ids \cup {NoId}]
    /\ handlerWaits \subseteq Tasks
    /\ keepAlive \in {"none", "sleeping", "sending", "ended"}
    /\ listed \in BOOLEAN
    /\ manager \in {"idle", "cleanup", "closing"}
    /\ managerWaits \subseteq Tasks
    /\ broadcast \in {"none", "queued", "sending"}
    /\ raced \subseteq Tasks
    /\ interrupted \in BOOLEAN

\* add_connection has registered the connection and the server calls handle().
Init ==
    /\ state = "connecting"
    /\ handler = "await_init"
    /\ current = NoId
    /\ subs = [i \in Ids |-> NoTask]
    /\ task = [t \in Tasks |-> "unborn"]
    /\ taskId = [t \in Tasks |-> NoId]
    /\ handlerWaits = {}
    /\ keepAlive = "none"
    /\ listed = TRUE
    /\ manager = "idle"
    /\ managerWaits = {}
    /\ broadcast = "none"
    /\ raced = {}
    /\ interrupted = FALSE

\* send_message drops a message unless the connection is in one of these states.
Sendable == state \in {"ready", "connecting"}

Registered(sb) == {sb[i] : i \in Ids} \ {NoTask}

\* task.cancel(): a task that has not had its first step never runs its
\* body, nor the `finally` that leaves the registry.
Cancelled(at) ==
    CASE at = "scheduled" -> "aborting"
      [] at \in {"running", "sending", "finishing"} -> "cancelling"
      [] OTHER -> at

CancelTasks(S, tk) == [t \in Tasks |-> IF t \in S THEN Cancelled(tk[t]) ELSE tk[t]]

-----------------------------------------------------------------------------
(* _cleanup(), entered by the handler with state st, registry sb and tasks *)
(* tk.  Without subscriptions it does not await.                           *)

\* Mutants: _cleanup does not cancel; it neither cancels nor waits.
EnterCleanupNoCancel(st, sb, tk) ==
    /\ keepAlive' = IF keepAlive = "none" THEN "none" ELSE "ended"
    /\ task' = tk
    /\ subs' = sb
    /\ handlerWaits' = Registered(sb)
    /\ IF Registered(sb) = {}
       THEN state' = "closed" /\ handler' = "done"
       ELSE state' = st /\ handler' = "cleanup"

EnterCleanupOnlyClears(st, sb, tk) ==
    /\ keepAlive' = IF keepAlive = "none" THEN "none" ELSE "ended"
    /\ task' = tk
    /\ subs' = [i \in Ids |-> NoTask]
    /\ state' = "closed"
    /\ handler' = "done"
    /\ UNCHANGED handlerWaits

EnterCleanup(st, sb, tk) ==
    /\ keepAlive' = IF keepAlive = "none" THEN "none" ELSE "ended"
    /\ task' = CancelTasks(Registered(sb), tk)
    /\ subs' = sb
    /\ handlerWaits' = Registered(sb)
    /\ IF Registered(sb) = {}
       THEN state' = "closed" /\ handler' = "done"
       ELSE state' = st /\ handler' = "cleanup"

\* Back to the condition of _message_loop.
LoopOn(st, sb, tk) ==
    IF st = "ready"
    THEN /\ handler' = "idle"
         /\ state' = st
         /\ subs' = sb
         /\ task' = tk
         /\ UNCHANGED <<keepAlive, handlerWaits>>
    ELSE EnterCleanup(st, sb, tk)

\* Mutant: _cleanup does not set CLOSED.
HandlerCleanedUpKeepsState ==
    /\ handler = "cleanup"
    /\ \A t \in handlerWaits : task[t] = "done"
    /\ subs' = [i \in Ids |-> NoTask]
    /\ handler' = "done"
    /\ handlerWaits' = {}
    /\ UNCHANGED <<state, current, keepAlive, interrupted, taskVars, managerVars>>

\* The gather returns when the tasks it waits for are done.
HandlerCleanedUp ==
    /\ handler = "cleanup"
    /\ \A t \in handlerWaits : task[t] = "done"
    /\ subs' = [i \in Ids |-> NoTask]
    /\ state' = "closed"
    /\ handler' = "done"
    /\ handlerWaits' = {}
    /\ UNCHANGED <<current, keepAlive, interrupted, taskVars, managerVars>>

\* The server cancels the task that runs handle(), at whatever it awaits.
HandlerCancelled ==
    /\ handler \notin {"cleanup", "done"}
    /\ EnterCleanup(state, subs, task)
    /\ current' = NoId
    /\ UNCHANGED <<interrupted, taskId, raced, managerVars>>

\* ... and inside _cleanup: the gather raises, the rest is skipped.
HandlerCancelledInCleanup ==
    /\ handler = "cleanup"
    /\ handler' = "done"
    /\ handlerWaits' = {}
    /\ interrupted' = TRUE
    /\ UNCHANGED <<connection, taskVars, managerVars>>

-----------------------------------------------------------------------------
(* _wait_for_connection_init()                                             *)

\* connection_init arrives.  The acknowledgement is dropped, without an
\* await, when the manager has closed the connection meanwhile.
ReceiveInit ==
    /\ handler = "await_init"
    /\ IF Sendable
       THEN handler' = "acking" /\ UNCHANGED <<state, keepAlive>>
       ELSE handler' = "idle" /\ state' = "ready" /\ keepAlive' = "sleeping"
    /\ UNCHANGED <<current, subs, handlerWaits, interrupted, taskVars, managerVars>>

\* The acknowledgement is sent; READY is set whatever happened meanwhile.
AckSent ==
    /\ handler = "acking"
    /\ state' = "ready"
    /\ keepAlive' = "sleeping"
    /\ handler' = "idle"
    /\ UNCHANGED <<current, subs, handlerWaits, interrupted, taskVars, managerVars>>

\* A send the handler awaits fails: CLOSING, and the exception ends the loop.
HandlerSendFails ==
    /\ handler \in {"acking", "sending", "rejecting"}
    /\ EnterCleanup("closing", subs, task)
    /\ UNCHANGED <<current, interrupted, taskId, raced, managerVars>>

\* _close(), from the init timeout, a first message that is not
\* connection_init, or connection_terminate.
StartClose ==
    IF state = "closed"
    THEN EnterCleanup(state, subs, task)
    ELSE /\ state' = "closing"
         /\ handler' = "closing"
         /\ UNCHANGED <<keepAlive, task, subs, handlerWaits>>

\* Mutant: the timeout is swallowed and the wait starts again.
InitTimeoutSwallowed ==
    /\ handler = "await_init"
    /\ UNCHANGED vars

InitTimeout ==
    /\ handler = "await_init"
    /\ StartClose
    /\ UNCHANGED <<current, interrupted, taskId, raced, managerVars>>

ReceiveOtherFirst ==
    /\ handler = "await_init"
    /\ StartClose
    /\ UNCHANGED <<current, interrupted, taskId, raced, managerVars>>

\* websocket.close() returned or raised.
HandlerClosed ==
    /\ handler = "closing"
    /\ EnterCleanup("closed", subs, task)
    /\ UNCHANGED <<current, interrupted, taskId, raced, managerVars>>

\* A malformed message before the handshake ends the connection after an
\* error message.
ReceiveMalformedFirst ==
    /\ handler = "await_init"
    /\ IF Sendable
       THEN handler' = "rejecting" /\ UNCHANGED <<state, keepAlive, task, subs, handlerWaits>>
       ELSE EnterCleanup(state, subs, task)
    /\ UNCHANGED <<current, interrupted, taskId, raced, managerVars>>

RejectSent ==
    /\ handler = "rejecting"
    /\ EnterCleanup(state, subs, task)
    /\ UNCHANGED <<current, interrupted, taskId, raced, managerVars>>

-----------------------------------------------------------------------------
(* _message_loop() and _handle_message()                                   *)

\* websocket.disconnect, during the handshake or in the loop.
Disconnect ==
    /\ handler \in {"await_init", "idle"}
    /\ EnterCleanup("closing", subs, task)
    /\ UNCHANGED <<current, interrupted, taskId, raced, managerVars>>

\* Messages answered by one message and no other effect: ping, a malformed
\* message, a subscribe without an id, with an id that is registered, over
\* the query limits or that does not parse.
Answer ==
    /\ IF Sendable
       THEN handler' = "sending" /\ UNCHANGED <<state, keepAlive, task, subs, handlerWaits>>
       ELSE LoopOn(state, subs, task)
    /\ UNCHANGED <<current, interrupted, taskId, raced, managerVars>>

ReceiveAnswered ==
    /\ handler = "idle"
    /\ Answer

HandlerSent ==
    /\ handler = "sending"
    /\ LoopOn(state, subs, task)
    /\ UNCHANGED <<current, interrupted, taskId, raced, managerVars>>

\* A message of an unknown type is logged.
ReceiveUnknown ==
    /\ handler = "idle"
    /\ LoopOn(state, subs, task)
    /\ UNCHANGED <<current, interrupted, taskId, raced, managerVars>>

\* Mutant: the id is not looked up before the await.
ReceiveSubscribeUnchecked(i) ==
    /\ handler = "idle"
    /\ handler' = "subscribing"
    /\ current' = i
    /\ UNCHANGED <<state, subs, keepAlive, handlerWaits, interrupted, taskVars, managerVars>>

\* A subscribe whose id is free awaits graphql's subscribe().
ReceiveSubscribe(i) ==
    /\ handler = "idle"
    /\ subs[i] = NoTask
    /\ handler' = "subscribing"
    /\ current' = i
    /\ UNCHANGED <<state, subs, keepAlive, handlerWaits, interrupted, taskVars, managerVars>>

\* Mutant: the registry maps the id to itself instead of to the task.
SubscribedSwapped(t) ==
    /\ handler = "subscribing"
    /\ task[t] = "unborn"
    /\ taskId' = [taskId EXCEPT ![t] = current]
    /\ current' = NoId
    /\ LoopOn(state, [subs EXCEPT ![current] = current], [task EXCEPT ![t] = "scheduled"])
    /\ UNCHANGED <<raced, interrupted, managerVars>>

\* subscribe() returned an iterator: a task is created and registered.
Subscribed(t) ==
    /\ handler = "subscribing"
    /\ task[t] = "unborn"
    /\ taskId' = [taskId EXCEPT ![t] = current]
    /\ raced' = IF \/ manager = "cleanup"
                   \/ \E u \in Tasks : taskId[u] = current /\ task[u] # "done"
                THEN raced \cup {t} ELSE raced
    /\ current' = NoId
    /\ LoopOn(state, [subs EXCEPT ![current] = t], [task EXCEPT ![t] = "scheduled"])
    /\ UNCHANGED <<interrupted, managerVars>>

\* subscribe() returned errors or raised: an error message.
SubscribeRefused ==
    /\ handler = "subscribing"
    /\ current' = NoId
    /\ IF Sendable
       THEN handler' = "sending" /\ UNCHANGED <<state, keepAlive, task, subs, handlerWaits>>
       ELSE LoopOn(state, subs, task)
    /\ UNCHANGED <<interrupted, taskId, raced, managerVars>>

\* Mutant: the task leaves the registry and is not cancelled.
ReceiveCompleteNoCancel(i) ==
    /\ handler = "idle"
    /\ LoopOn(state, [subs EXCEPT ![i] = NoTask], task)
    /\ UNCHANGED <<current, interrupted, taskId, raced, managerVars>>

\* _handle_complete: leave the registry and cancel the task.
ReceiveComplete(i) ==
    /\ handler = "idle"
    /\ IF subs[i] = NoTask
       THEN LoopOn(state, subs, task)
       ELSE LoopOn(state, [subs EXCEPT ![i] = NoTask], CancelTasks({subs[i]}, task))
    /\ UNCHANGED <<current, interrupted, taskId, raced, managerVars>>

\* _handle_terminate sets CLOSING before _close, so _close always closes.
ReceiveTerminate ==
    /\ handler = "idle"
    /\ state' = "closing"
    /\ handler' = "closing"
    /\ UNCHANGED <<current, subs, keepAlive, handlerWaits, interrupted, taskVars, managerVars>>

-----------------------------------------------------------------------------
(* _handle_subscription_generator(), the body of task t                    *)

taskFrame == <<current, keepAlive, handler, handlerWaits, interrupted, taskId, raced, managerVars>>

\* Mutant: the `finally` clause is missing.
FinishStays(t) ==
    /\ task' = [task EXCEPT ![t] = "done"]
    /\ UNCHANGED subs

\* The `finally` clause: leave the registry, by id.
Finish(t) ==
    /\ task' = [task EXCEPT ![t] = "done"]
    /\ subs' = [subs EXCEPT ![taskId[t]] = NoTask]

TaskStarts(t) ==
    /\ task[t] = "scheduled"
    /\ task' = [task EXCEPT ![t] = "running"]
    /\ UNCHANGED <<state, subs, taskFrame>>

\* The iterator yields: data or its errors are sent, or dropped.
TaskYields(t) ==
    /\ task[t] = "running"
    /\ Sendable
    /\ task' = [task EXCEPT ![t] = "sending"]
    /\ UNCHANGED <<state, subs, taskFrame>>

TaskSent(t) ==
    /\ task[t] = "sending"
    /\ task' = [task EXCEPT ![t] = "running"]
    /\ UNCHANGED <<state, subs, taskFrame>>

\* The iterator ends or raises: a last message (complete or error), if it
\* can be sent, and the end of the task.
TaskEnds(t) ==
    /\ task[t] = "running"
    /\ IF Sendable
       THEN task' = [task EXCEPT ![t] = "finishing"] /\ UNCHANGED subs
       ELSE Finish(t)
    /\ UNCHANGED <<state, taskFrame>>

TaskFinished(t) ==
    /\ task[t] = "finishing"
    /\ Finish(t)
    /\ UNCHANGED <<state, taskFrame>>

\* A send of the task fails: CLOSING; the error message that would follow is
\* dropped because of it.
TaskSendFails(t) ==
    /\ task[t] \in {"sending", "finishing"}
    /\ state' = "closing"
    /\ Finish(t)
    /\ UNCHANGED taskFrame

\* The cancellation is delivered and the iterator has unwound.
TaskUnwinds(t) ==
    /\ task[t] = "cancelling"
    /\ Finish(t)
    /\ UNCHANGED <<state, taskFrame>>

TaskAborts(t) ==
    /\ task[t] = "aborting"
    /\ task' = [task EXCEPT ![t] = "done"]
    /\ UNCHANGED <<state, subs, taskFrame>>

-----------------------------------------------------------------------------
(* _keep_alive()                                                           *)

keepAliveFrame == <<current, subs, handler, handlerWaits, interrupted, taskVars, managerVars>>

\* The interval has passed: send a ping, or find the connection not READY.
KeepAliveTick ==
    /\ keepAlive = "sleeping"
    /\ keepAlive' = IF Sendable THEN "sending" ELSE "ended"
    /\ UNCHANGED <<state, keepAliveFrame>>

KeepAliveSent ==
    /\ keepAlive = "sending"
    /\ keepAlive' = IF state = "ready" THEN "sleeping" ELSE "ended"
    /\ UNCHANGED <<state, keepAliveFrame>>

KeepAliveSendFails ==
    /\ keepAlive = "sending"
    /\ keepAlive' = "ended"
    /\ state' = "closing"
    /\ UNCHANGED keepAliveFrame

-----------------------------------------------------------------------------
(* SubscriptionManager                                                     *)

managerFrame == <<current, handler, handlerWaits, interrupted, taskId, raced>>

\* Mutant: remove_connection waits for the tasks without cancelling them.
RemoveConnectionNoCancel ==
    /\ listed
    /\ listed' = FALSE
    /\ managerWaits' = Registered(subs)
    /\ IF Registered(subs) = {}
       THEN state' = "closed" /\ UNCHANGED manager
       ELSE manager' = "cleanup" /\ UNCHANGED state
    /\ UNCHANGED <<subs, keepAlive, task, broadcast, managerFrame>>

\* remove_connection: leave the dictionary, then _cleanup.
RemoveConnection ==
    /\ listed
    /\ listed' = FALSE
    /\ keepAlive' = IF keepAlive = "none" THEN "none" ELSE "ended"
    /\ task' = CancelTasks(Registered(subs), task)
    /\ managerWaits' = Registered(subs)
    /\ IF Registered(subs) = {}
       THEN state' = "closed" /\ UNCHANGED manager
       ELSE manager' = "cleanup" /\ UNCHANGED state
    /\ UNCHANGED <<subs, broadcast, managerFrame>>

ManagerCleanedUp ==
    /\ manager = "cleanup"
    /\ \A t \in managerWaits : task[t] = "done"
    /\ subs' = [i \in Ids |-> NoTask]
    /\ state' = "closed"
    /\ manager' = "idle"
    /\ managerWaits' = {}
    /\ UNCHANGED <<keepAlive, task, listed, broadcast, managerFrame>>

\* close_all: leave the dictionary, then _close.
CloseAll ==
    /\ listed
    /\ listed' = FALSE
    /\ IF state = "closed"
       THEN UNCHANGED <<state, manager>>
       ELSE state' = "closing" /\ manager' = "closing"
    /\ UNCHANGED <<subs, keepAlive, task, managerWaits, broadcast, managerFrame>>

ManagerClosed ==
    /\ manager = "closing"
    /\ state' = "closed"
    /\ manager' = "idle"
    /\ UNCHANGED <<subs, keepAlive, task, listed, managerWaits, broadcast, managerFrame>>

\* broadcast picks the READY connections; their sends start later and check
\* the state again.  One broadcast at a time.
Broadcast ==
    /\ listed
    /\ state = "ready"
    /\ broadcast = "none"
    /\ broadcast' = "queued"
    /\ UNCHANGED <<state, subs, keepAlive, task, listed, manager, managerWaits, managerFrame>>

BroadcastStarts ==
    /\ broadcast = "queued"
    /\ broadcast' = IF Sendable THEN "sending" ELSE "none"
    /\ UNCHANGED <<state, subs, keepAlive, task, listed, manager, managerWaits, managerFrame>>

BroadcastSent ==
    /\ broadcast = "sending"
    /\ broadcast' = "none"
    /\ UNCHANGED <<state, subs, keepAlive, task, listed, manager, managerWaits, managerFrame>>

BroadcastFails ==
    /\ broadcast = "sending"
    /\ broadcast' = "none"
    /\ state' = "closing"
    /\ UNCHANGED <<subs, keepAlive, task, listed, manager, managerWaits, managerFrame>>

-----------------------------------------------------------------------------
HandshakeNext ==
    ReceiveInit \/ AckSent \/ InitTimeout \/ ReceiveOtherFirst \/ ReceiveMalformedFirst \/ RejectSent

LoopNext ==
    \/ ReceiveAnswered \/ HandlerSent \/ ReceiveUnknown \/ ReceiveTerminate \/ SubscribeRefused
    \/ \E i \in Ids : ReceiveSubscribe(i) \/ ReceiveComplete(i)
    \/ \E t \in Tasks : Subscribed(t)

HandlerEnds ==
    \/ Disconnect \/ HandlerSendFails \/ HandlerClosed
    \/ HandlerCleanedUp \/ HandlerCancelled \/ HandlerCancelledInCleanup

TaskNext(t) ==
    \/ TaskStarts(t) \/ TaskYields(t) \/ TaskSent(t) \/ TaskEnds(t) \/ TaskFinished(t)
    \/ TaskSendFails(t) \/ TaskUnwinds(t) \/ TaskAborts(t)

KeepAliveNext == KeepAliveTick \/ KeepAliveSent \/ KeepAliveSendFails

ManagerNext ==
    \/ RemoveConnection \/ ManagerCleanedUp \/ CloseAll \/ ManagerClosed
    \/ Broadcast \/ BroadcastStarts \/ BroadcastSent \/ BroadcastFails

Next ==
    \/ HandshakeNext \/ LoopNext \/ HandlerEnds \/ KeepAliveNext \/ ManagerNext
    \/ \E t \in Tasks : TaskNext(t)

Spec == Init /\ [][Next]_vars
\* The event loop runs every task that is ready; the socket's send and close,
\* graphql's subscribe() and a cancelled generator return or raise; the init
\* timer fires.  Nothing is assumed of the client, of running generators or of
\* the manager's callers.
Fairness ==
    /\ WF_vars(InitTimeout)
    /\ WF_vars(AckSent \/ RejectSent \/ HandlerSent \/ HandlerSendFails)
    /\ WF_vars(SubscribeRefused \/ \E t \in Tasks : Subscribed(t))
    /\ WF_vars(HandlerClosed)
    /\ WF_vars(HandlerCleanedUp)
    /\ WF_vars(ManagerCleanedUp)
    /\ WF_vars(ManagerClosed)
    /\ \A t \in Tasks : WF_vars(TaskUnwinds(t) \/ TaskAborts(t))

FairSpec == Spec /\ Fairness

-----------------------------------------------------------------------------
(* Properties                                                              *)

\* A task that iterates its generator and nobody has cancelled.
Live(t) == task[t] \in {"scheduled", "running", "sending", "finishing"}

\* The registry names only tasks created for that id, and a finished one only
\* while a _cleanup is about to clear it: the `finally` of the generator, the
\* complete message and the two _cleanups leave no stale entry that would
\* refuse the id for ever.
RegistrySound ==
    \A i \in Ids : subs[i] # NoTask =>
        /\ taskId[subs[i]] = i
        /\ task[subs[i]] = "done" => handler = "cleanup" \/ manager = "cleanup" \/ interrupted

\* Every live task is in the registry under its id, where complete and
\* _cleanup find it, unless it was registered while an older task of the id
\* was unwinding or while remove_connection cleaned up.
LiveTasksRegistered ==
    \A t \in Tasks : Live(t) /\ t \notin raced => subs[taskId[t]] = t

\* When handle() has returned, whichever way, no task it served is left
\* iterating, but for the two registration races.
CleanupReachesAll ==
    handler = "done" => \A t \in Tasks : Live(t) => t \in raced

\* After handle() the connection is never READY: a broadcast, a keep-alive or
\* a late task may still fail and write CLOSING, none makes it usable again.
NotReadyAfterHandle ==
    handler = "done" /\ ~ interrupted => state \in {"closing", "closed"}

\* A registered task is never replaced by another: the id is looked up before
\* `await subscribe()` and stored after it, and nothing registers in between.
NoReplacement ==
    [][\A i \in Ids : subs[i] # NoTask /\ subs'[i] # NoTask => subs'[i] = subs[i]]_vars

\* A connection that starts to close or to clean up finishes.
ClosingEnds == handler \in {"closing", "cleanup"} ~> handler = "done"

\* A client that never sends connection_init does not hold the handler.
HandshakeEnds == handler = "await_init" ~> handler \in {"idle", "done"}

\* remove_connection and close_all return.
ManagerReturns == manager # "idle" ~> manager = "idle"
=============================================================================
