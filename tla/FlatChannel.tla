----------------------------- MODULE FlatChannel ------------------------------
(***************************************************************************)
(* The bypass channel of protoros2: FlatPublisher and FlatSubscription over *)
(* iceoryx2 (flat_backend.cpp, flat_subscription.hpp, flat_publisher.hpp). *)
(*                                                                         *)
(* One receiving process: an EnterpriseNode whose backend owns a WaitSet   *)
(* and the poll thread that serves it, and its subscriptions, which user   *)
(* threads create and drop at any time.  The publishers belong to other    *)
(* nodes.  Publishing is two calls of iceoryx2, send and notify, and       *)
(* reception two wake-ups, the listener's event and the guard condition;   *)
(* the steps of the poll thread are cut at the mutex, at the weak_ptr      *)
(* locks and at every call whose effect another thread can see.            *)
(*                                                                         *)
(* One topic is modelled: a subscription and a publisher of different      *)
(* topics share nothing but the poll thread.                               *)
(***************************************************************************)
EXTENDS Naturals, Sequences, FiniteSets

CONSTANTS Publishers,         \* FlatPublishers of the topic
          Subscriptions,      \* FlatSubscriptions of the topic in this process
          PullSubscriptions,  \* those in WaitSetPull mode; the others are CallbackPush
          QueueDepth,         \* iceoryx2's per-connection buffer
          Bodies,             \* what a payload can be to the subscriber
          MaxCalls,           \* bound on the publish calls of one publisher
          NoTask              \* the poll thread has no dispatch under way

ASSUME PullAssumption == PullSubscriptions \subseteq Subscriptions
ASSUME DepthAssumption == QueueDepth \in Nat \ {0}
\* "valid": parses as the subscriber's type; "empty": zero bytes, which is what
\* a Protobuf message of default values serializes to; "foreign": does not parse.
ASSUME BodyAssumption == Bodies \subseteq {"valid", "empty", "foreign"}
ASSUME BoundAssumption == MaxCalls \in Nat
ASSUME NoTaskAssumption == NoTask \notin Subscriptions

VARIABLES
  calls,       \* calls[p]: publish calls so far; the n-th carries number n
  fails,       \* fails[p]: publish_fail_count_
  toNotify,    \* publishers that have sent a sample and not yet called notify
  queue,       \* queue[s][p]: samples of p that s has not received, oldest first
  missed,      \* missed[s]: publishers some sample of which nothing announces to s
  event,       \* event[s]: the listener of s has an event pending
  guard,       \* guard[s]: the guard condition of s is triggered
  stage,       \* stage[s]: where s is in its life, see Stages
  subscriber,  \* subscriptions whose subscriber_ exists
  listener,    \* subscriptions whose listener_ exists
  attached,    \* subscriptions whose listener is attached to the WaitSet
  registered,  \* subscriptions in attachment_map_
  seen,        \* seen[s][p]: number of the last sample of p handed to the user of s
  got,         \* got[s][p]: how many samples of p were handed to the user of s
  node,        \* the user holds the EnterpriseNode
  backend,     \* the EnterpriseNodeBackendImpl, see Backends
  ok,          \* rclcpp::ok()
  pc,          \* the poll thread, see PollStates
  batch,       \* subscriptions the current round of the poll thread has to serve
  final,       \* the round is the last one, of copied callbacks, after shutdown
  task         \* the subscription whose callback the poll thread has copied

pubVars  == <<calls, fails, toNotify>>
dataVars == <<queue, missed, event>>
userVars == <<seen, got>>
subVars  == <<stage, subscriber, listener, attached, registered>>
nodeVars == <<node, backend, ok>>
pollVars == <<pc, batch, final, task>>
vars == <<pubVars, dataVars, guard, subVars, userVars, nodeVars, pollVars>>

Stages ==
  {"absent",     \* not created
   "listening",  \* constructor: the subscriber step is done, the listener is next
   "attaching",  \* constructed; activate() is next
   "pushing",    \* attached to the WaitSet, not yet in attachment_map_
   "active",     \* create_flat_subscription has returned
   "released",   \* the user dropped it during a drain: the poll thread holds it
   "orphaned",   \* the user dropped it: only the poll thread's self keeps the backend
   "closing",    \* ~FlatSubscriptionBackendImpl, before unregister_listener
   "detached",   \* ... after it, before the members are destroyed
   "closed"}     \* gone

Backends ==
  {"up",
   "joining",    \* ~EnterpriseNodeBackendImpl: stop_polling_ is set, join() called
   "destroyed",
   "aborted"}    \* the poll thread ran the destructor and joined itself

PollStates ==
  {"off",        \* not started
   "top",        \* the loop condition
   "wait",       \* in wait_and_process_once_with_timeout
   "batch",      \* between two attachments that fired
   "lock",       \* a callback is copied, weak_self.lock() is next
   "events",     \* on_data_received: draining the listener is next
   "trigger",    \* ... triggering the guard condition is next
   "hook",       \* ... weak_sub.lock() is next
   "drain",      \* in drain_pending_payloads
   "release",    \* on_data_received is over, self goes out of scope
   "unregister", \* the thread runs ~FlatSubscriptionBackendImpl
   "close",
   "exited",
   "aborted"}

\* The thread has copied the callback of a subscription and not yet dropped it.
Dispatching == {"lock", "events", "trigger", "hook", "drain", "release",
                "unregister", "close"}

\* self of the copied callback is alive: the poll thread shares the backend of s.
Held(s) == task = s /\ pc \in {"events", "trigger", "hook", "drain", "release"}

\* Subscriptions whose backend holds a reference on the node's backend.
Holders == {s \in Subscriptions : stage[s] \notin {"absent", "closed"}}

Empty == [p \in Publishers |-> <<>>]

Init ==
  /\ calls = [p \in Publishers |-> 0]
  /\ fails = [p \in Publishers |-> 0]
  /\ toNotify = {}
  /\ queue = [s \in Subscriptions |-> Empty]
  /\ missed = [s \in Subscriptions |-> {}]
  /\ event = [s \in Subscriptions |-> FALSE]
  /\ guard = [s \in Subscriptions |-> FALSE]
  /\ stage = [s \in Subscriptions |-> "absent"]
  /\ subscriber = {} /\ listener = {} /\ attached = {} /\ registered = {}
  /\ seen = [s \in Subscriptions |-> [p \in Publishers |-> 0]]
  /\ got = [s \in Subscriptions |-> [p \in Publishers |-> 0]]
  /\ node = TRUE /\ backend = "up" /\ ok = TRUE
  /\ pc = "off" /\ batch = {} /\ final = FALSE /\ task = NoTask

-------------------------------------------------------------------------------
(* Publishing: FlatPublisherBackendImpl::publish_protobuf and publish_raw. *)

CanPublish(p) == calls[p] < MaxCalls /\ p \notin toNotify

\* A full buffer drops its oldest sample (iceoryx2's safe overflow).
Push(q, sample) == Append(IF Len(q) = QueueDepth THEN Tail(q) ELSE q, sample)

\* The loan, the serialization and the send succeed: every connected
\* subscriber has the sample.
Send(p, body) ==
  /\ CanPublish(p)
  /\ LET sample == [num |-> calls[p] + 1, body |-> body]
     IN queue' = [s \in Subscriptions |->
                    IF s \in subscriber
                    THEN [queue[s] EXCEPT ![p] = Push(@, sample)]
                    ELSE queue[s]]
  /\ calls' = [calls EXCEPT ![p] = @ + 1]
  /\ toNotify' = toNotify \union {p}
  /\ UNCHANGED <<fails, missed, event, guard, subVars, userVars, nodeVars, pollVars>>

\* Slip: no return after a failed serialization; the send fails as well.
BugPublishFails(p) ==
  /\ CanPublish(p)
  /\ calls' = [calls EXCEPT ![p] = @ + 1]
  /\ fails' = [fails EXCEPT ![p] = @ + 2]
  /\ UNCHANGED <<toNotify, dataVars, guard, subVars, userVars, nodeVars, pollVars>>

\* The loan, the serialization or the send fails: the message is dropped.
PublishFails(p) ==
  /\ CanPublish(p)
  /\ calls' = [calls EXCEPT ![p] = @ + 1]
  /\ fails' = [fails EXCEPT ![p] = @ + 1]
  /\ UNCHANGED <<toNotify, dataVars, guard, subVars, userVars, nodeVars, pollVars>>

\* Those the sample reached that will not hear of it.
Unannounced(p, heard) ==
  [s \in Subscriptions |->
     IF s \in heard THEN {}
     ELSE IF queue[s][p] # <<>> THEN missed[s] \union {p} ELSE missed[s]]

\* notify() wakes every listener there is now; events do not accumulate.
Notify(p) ==
  /\ p \in toNotify
  /\ toNotify' = toNotify \ {p}
  /\ event' = [s \in Subscriptions |-> event[s] \/ s \in listener]
  /\ missed' = Unannounced(p, listener)
  /\ UNCHANGED <<calls, fails, queue, guard, subVars, userVars, nodeVars, pollVars>>

\* No notifier_ (its creation failed), a notify() whose error is discarded, or
\* the death of the publishing process between the two calls.
MissedNotify(p) ==
  /\ p \in toNotify
  /\ toNotify' = toNotify \ {p}
  /\ missed' = Unannounced(p, {})
  /\ UNCHANGED <<calls, fails, queue, event, guard, subVars, userVars, nodeVars, pollVars>>

PublisherNext ==
  \E p \in Publishers : \/ \E body \in Bodies : Send(p, body)
                        \/ PublishFails(p)
                        \/ Notify(p)
                        \/ MissedNotify(p)

-------------------------------------------------------------------------------
(* The life of a subscription on the thread of its user:                   *)
(* EnterpriseNode::create_flat_subscription, then dropping the pointer.    *)

\* The subscriber step of the constructor; it fails when iceoryx2 does.
CreateSubscriber(s) ==
  /\ node /\ stage[s] = "absent"
  /\ stage' = [stage EXCEPT ![s] = "listening"]
  /\ subscriber' \in {subscriber, subscriber \union {s}}
  /\ UNCHANGED <<pubVars, dataVars, guard, listener, attached, registered, userVars,
                 nodeVars, pollVars>>

\* The listener step, which fails on its own, and the guard condition.
CreateListener(s) ==
  /\ ok /\ stage[s] = "listening"
  /\ stage' = [stage EXCEPT ![s] = "attaching"]
  /\ listener' \in {listener, listener \union {s}}
  /\ UNCHANGED <<pubVars, dataVars, guard, subscriber, attached, registered, userVars,
                 nodeVars, pollVars>>

\* The guard condition of an invalid context: the constructor throws and its
\* members are destroyed.
ConstructionThrows(s) ==
  /\ ~ok /\ stage[s] = "listening"
  /\ stage' = [stage EXCEPT ![s] = "closed"]
  /\ subscriber' = subscriber \ {s}
  /\ queue' = [queue EXCEPT ![s] = Empty]
  /\ missed' = [missed EXCEPT ![s] = {}]
  /\ UNCHANGED <<pubVars, event, guard, listener, attached, registered, userVars,
                 nodeVars, pollVars>>

\* activate(), subscribe(), register_listener() up to attach_notification.
Attach(s) ==
  /\ stage[s] = "attaching" /\ s \in listener
  /\ stage' = [stage EXCEPT ![s] = "pushing"]
  /\ attached' = attached \union {s}
  /\ UNCHANGED <<pubVars, dataVars, guard, subscriber, listener, registered, userVars,
                 nodeVars, pollVars>>

\* No listener, no WaitSet or a failed attach: activate() returns silently.
ActivateUnattached(s) ==
  /\ stage[s] = "attaching"
  /\ stage' = [stage EXCEPT ![s] = "active"]
  /\ UNCHANGED <<pubVars, dataVars, guard, subscriber, listener, attached, registered,
                 userVars, nodeVars, pollVars>>

\* Under map_mutex_: the attachment is recorded and the thread started.
Register(s) ==
  /\ stage[s] = "pushing"
  /\ stage' = [stage EXCEPT ![s] = "active"]
  /\ registered' = registered \union {s}
  /\ pc' = IF pc = "off" THEN "top" ELSE pc
  /\ UNCHANGED <<pubVars, dataVars, guard, subscriber, listener, attached, userVars,
                 nodeVars, batch, final, task>>

\* The user drops the last SharedPtr.  The hook's lock keeps the subscription
\* through a drain, the callback's lock keeps its backend.
Reset(s) ==
  /\ stage[s] = "active"
  /\ stage' = [stage EXCEPT ![s] = IF ~Held(s) THEN "closing"
                                   ELSE IF pc = "drain" THEN "released"
                                   ELSE "orphaned"]
  /\ UNCHANGED <<pubVars, dataVars, guard, subscriber, listener, attached, registered,
                 userVars, nodeVars, pollVars>>

\* Slip: a destructor that does not unregister the listener.
BugDetach(s) ==
  /\ stage[s] = "closing"
  /\ stage' = [stage EXCEPT ![s] = "detached"]
  /\ UNCHANGED <<pubVars, dataVars, guard, attached, registered, subscriber, listener,
                 userVars, nodeVars>>

\* unregister_listener: the WaitSetGuard is destroyed with the map's entry.
Detach(s) ==
  /\ stage[s] = "closing"
  /\ stage' = [stage EXCEPT ![s] = "detached"]
  /\ attached' = attached \ {s}
  /\ registered' = registered \ {s}
  /\ UNCHANGED <<pubVars, dataVars, guard, subscriber, listener, userVars, nodeVars>>

\* The members are destroyed: listener_, subscriber_ and, last, node_backend_.
Destroy(s) ==
  /\ stage[s] = "detached"
  /\ stage' = [stage EXCEPT ![s] = "closed"]
  /\ subscriber' = subscriber \ {s}
  /\ listener' = listener \ {s}
  /\ queue' = [queue EXCEPT ![s] = Empty]
  /\ missed' = [missed EXCEPT ![s] = {}]
  /\ event' = [event EXCEPT ![s] = FALSE]
  /\ guard' = [guard EXCEPT ![s] = FALSE]
  /\ UNCHANGED <<pubVars, attached, registered, userVars, node, ok>>

PollDestroys(s) == task = s /\ pc \in {"unregister", "close"}

Unregister(s) == Detach(s) /\ ~PollDestroys(s) /\ UNCHANGED pollVars

\* The last reference on the node's backend may go with the subscription.
Close(s) ==
  /\ Destroy(s) /\ ~PollDestroys(s)
  /\ backend' = IF ~node /\ Holders = {s} THEN "joining" ELSE backend
  /\ UNCHANGED pollVars

\* The EnterpriseNode goes; its methods are not running.
DropNode ==
  /\ node
  /\ \A s \in Subscriptions : stage[s] \notin {"listening", "attaching", "pushing"}
  /\ node' = FALSE
  /\ backend' = IF Holders = {} THEN "joining" ELSE backend
  /\ UNCHANGED <<pubVars, dataVars, guard, subVars, userVars, ok, pollVars>>

\* Slip: the thread is detached instead of joined.
BugJoin ==
  /\ backend = "joining"
  /\ backend' = "destroyed"
  /\ UNCHANGED <<pubVars, dataVars, guard, subVars, userVars, node, ok, pollVars>>

\* stop_waitset_thread: join() returns once the thread is over.
Join ==
  /\ backend = "joining" /\ pc \in {"off", "exited"}
  /\ backend' = "destroyed"
  /\ UNCHANGED <<pubVars, dataVars, guard, subVars, userVars, node, ok, pollVars>>

\* rclcpp::shutdown(), from a signal or any thread.
Shutdown ==
  /\ ok /\ ok' = FALSE
  /\ UNCHANGED <<pubVars, dataVars, guard, subVars, userVars, node, backend, pollVars>>

\* A user thread is inside the constructor, activate() or the destructor.
LibraryRuns(s) ==
  \/ CreateListener(s) \/ ConstructionThrows(s)
  \/ Attach(s) \/ ActivateUnattached(s) \/ Register(s)
  \/ Unregister(s) \/ Close(s)

UserNext ==
  \/ \E s \in Subscriptions : CreateSubscriber(s) \/ LibraryRuns(s) \/ Reset(s)
  \/ DropNode \/ Join \/ Shutdown

-------------------------------------------------------------------------------
(* The poll thread: start_waitset_thread_if_needed and on_data_received.   *)

Goto(state) == pc' = state
OnlyPoll == UNCHANGED <<pubVars, dataVars, guard, subVars, userVars, nodeVars>>
Stop == backend # "up"  \* stop_polling_

\* Slip: the loop ends on shutdown without waking anybody.
BugPollTopSilent ==
  /\ pc = "top"
  /\ Goto(IF Stop \/ ~ok THEN "exited" ELSE "wait")
  /\ OnlyPoll /\ UNCHANGED <<batch, final, task>>

\* Slip: the loop tests rclcpp::ok() only.
BugPollTopDeaf ==
  /\ pc = "top"
  /\ \/ ~ok /\ Goto("batch") /\ batch' = registered /\ final' = TRUE
     \/ ok /\ Goto("wait") /\ UNCHANGED <<batch, final>>
  /\ OnlyPoll /\ UNCHANGED task

PollTop ==
  /\ pc = "top"
  /\ \/ Stop /\ Goto("exited") /\ UNCHANGED <<batch, final>>
     \/ /\ ~Stop /\ ~ok  \* copy every callback and run it once, to wake executors
        /\ Goto("batch") /\ batch' = registered /\ final' = TRUE
     \/ ~Stop /\ ok /\ Goto("wait") /\ UNCHANGED <<batch, final>>
  /\ OnlyPoll /\ UNCHANGED task

Ready == {s \in attached : event[s]}

PollWait ==
  /\ pc = "wait" /\ Ready # {}
  /\ Goto("batch") /\ batch' = Ready
  /\ OnlyPoll /\ UNCHANGED <<final, task>>

\* The 50 ms pass; a timeout that only leads back to the wait is a stutter.
PollTimeout ==
  /\ pc = "wait" /\ Ready = {} /\ (Stop \/ ~ok)
  /\ Goto("top")
  /\ OnlyPoll /\ UNCHANGED <<batch, final, task>>

\* Slip: the event is consumed before the attachment is looked up.
BugPollLookup(s) ==
  /\ pc = "batch" /\ s \in batch
  /\ batch' = batch \ {s}
  /\ event' = [event EXCEPT ![s] = FALSE]
  /\ IF final \/ s \in registered
     THEN Goto("lock") /\ task' = s
     ELSE Goto("batch") /\ UNCHANGED task
  /\ UNCHANGED <<pubVars, queue, missed, guard, subVars, userVars, nodeVars, final>>

\* Under map_mutex_: find the attachment that fired and copy its callback.
\* The last round copied its callbacks at the top.
PollLookup(s) ==
  /\ pc = "batch" /\ s \in batch
  /\ batch' = batch \ {s}
  /\ IF final \/ s \in registered
     THEN Goto("lock") /\ task' = s
     ELSE Goto("batch") /\ UNCHANGED task
  /\ OnlyPoll /\ UNCHANGED final

PollBatchDone ==
  /\ pc = "batch" /\ batch = {}
  /\ Goto(IF final THEN "exited" ELSE "top")
  /\ OnlyPoll /\ UNCHANGED <<batch, final, task>>

\* Slip: the callback captures this instead of weak_self.
BugPollLock ==
  /\ pc = "lock" /\ Goto("events")
  /\ OnlyPoll /\ UNCHANGED <<batch, final, task>>

\* weak_self.lock() of the copied callback.
PollLock ==
  /\ pc = "lock"
  /\ IF stage[task] = "active"
     THEN Goto("events") /\ UNCHANGED task
     ELSE Goto("batch") /\ task' = NoTask
  /\ OnlyPoll /\ UNCHANGED <<batch, final>>

\* try_wait_all: every pending event is consumed at once.
PollDrainEvents ==
  /\ pc = "events" /\ Goto("trigger")
  /\ event' = [event EXCEPT ![task] = FALSE]
  /\ UNCHANGED <<pubVars, queue, missed, guard, subVars, userVars, nodeVars, batch, final, task>>

\* Slip: only the hook is called.
BugPollTrigger ==
  /\ pc = "trigger" /\ Goto("hook")
  /\ UNCHANGED <<pubVars, dataVars, guard, subVars, userVars, nodeVars, batch, final, task>>

PollTrigger ==
  /\ pc = "trigger" /\ Goto("hook")
  /\ guard' = [guard EXCEPT ![task] = TRUE]
  /\ UNCHANGED <<pubVars, dataVars, subVars, userVars, nodeVars, batch, final, task>>

\* on_data_event_: weak_sub.lock(), and drain_pending_payloads returns at once
\* unless the mode is CallbackPush.
PollHook ==
  /\ pc = "hook"
  /\ Goto(IF stage[task] = "active" /\ task \notin PullSubscriptions
          THEN "drain" ELSE "release")
  /\ OnlyPoll /\ UNCHANGED <<batch, final, task>>

\* The user gets the sample if it parses: process_payload's callback, a pull's
\* take().  Empty and foreign ones are consumed and dropped.
HandOver(s, p, sample) ==
  IF sample.body = "valid"
  THEN /\ seen' = [seen EXCEPT ![s][p] = sample.num]
       /\ got' = [got EXCEPT ![s][p] = @ + 1]
  ELSE UNCHANGED userVars

\* Slip: one sample per event.
BugPollTakeOne(p) ==
  /\ pc = "drain" /\ queue[task][p] # <<>>
  /\ HandOver(task, p, Head(queue[task][p]))
  /\ queue' = [queue EXCEPT ![task][p] = Tail(@)]
  /\ Goto("release")
  /\ UNCHANGED <<pubVars, missed, event, guard, subVars, nodeVars, batch, final, task>>

\* Slip: the newest sample first.
BugPollTakeNewest(p) ==
  /\ pc = "drain" /\ queue[task][p] # <<>>
  /\ LET q == queue[task][p]
     IN /\ HandOver(task, p, q[Len(q)])
        /\ queue' = [queue EXCEPT ![task][p] = SubSeq(q, 1, Len(q) - 1)]
  /\ UNCHANGED <<pubVars, missed, event, guard, subVars, nodeVars, pollVars>>

\* take_payload with process_payload: receive() yields the oldest sample of some
\* connection; the callback gets it only if it is neither empty nor foreign.
PollTake(p) ==
  /\ pc = "drain" /\ queue[task][p] # <<>>
  /\ HandOver(task, p, Head(queue[task][p]))
  /\ queue' = [queue EXCEPT ![task][p] = Tail(@)]
  /\ UNCHANGED <<pubVars, missed, event, guard, subVars, nodeVars, pollVars>>

\* receive() finds nothing: the drain is complete.
PollDrained ==
  /\ pc = "drain" /\ queue[task] = Empty
  /\ Goto("release")
  /\ missed' = [missed EXCEPT ![task] = {}]
  /\ UNCHANGED <<pubVars, queue, event, guard, subVars, userVars, nodeVars, batch, final, task>>

\* receive() reports an error, which take_payload turns into "nothing left".
PollReceiveError ==
  /\ pc = "drain"
  /\ Goto("release")
  /\ missed' = [missed EXCEPT ![task] = {p \in Publishers : queue[task][p] # <<>>}]
  /\ UNCHANGED <<pubVars, queue, event, guard, subVars, userVars, nodeVars, batch, final, task>>

\* self goes out of scope: the thread may hold the last reference.
PollRelease ==
  /\ pc = "release"
  /\ IF stage[task] = "active"
     THEN Goto("batch") /\ task' = NoTask /\ UNCHANGED stage
     ELSE /\ Goto("unregister") /\ UNCHANGED task
          /\ stage' = [stage EXCEPT ![task] = "closing"]
  /\ UNCHANGED <<pubVars, dataVars, guard, subscriber, listener, attached, registered,
                 userVars, nodeVars, batch, final>>

PollUnregister ==
  /\ pc = "unregister" /\ Detach(task) /\ Goto("close")
  /\ UNCHANGED <<batch, final, task>>

\* With the subscription may go the last reference on the node's backend, and
\* the thread joins itself: join() throws and the destructor is noexcept.
PollClose ==
  /\ pc = "close" /\ Destroy(task)
  /\ IF ~node /\ Holders = {task}
     THEN Goto("aborted") /\ backend' = "aborted"
     ELSE Goto("batch") /\ UNCHANGED backend
  /\ task' = NoTask
  /\ UNCHANGED <<batch, final>>

PollNext ==
  \/ PollTop \/ PollWait \/ PollTimeout \/ (\E s \in Subscriptions : PollLookup(s))
  \/ PollBatchDone \/ PollLock \/ PollDrainEvents \/ PollTrigger \/ PollHook
  \/ (\E p \in Publishers : PollTake(p)) \/ PollDrained \/ PollReceiveError
  \/ PollRelease \/ PollUnregister \/ PollClose

-------------------------------------------------------------------------------
Alive == backend # "aborted"

\* The process is gone, or has nothing left to do.
Terminated ==
  /\ \/ ~Alive
     \/ /\ backend = "destroyed" /\ toNotify = {}
        /\ \A p \in Publishers : calls[p] = MaxCalls
  /\ UNCHANGED vars

Next == \/ Alive /\ (PublisherNext \/ UserNext \/ PollNext)
        \/ Terminated

Spec == Init /\ [][Next]_vars

\* The poll thread, a publisher between its two calls and a user thread inside
\* one of the library's functions keep running; nothing makes a user publish,
\* create, drop or shut down.
Fairness ==
  /\ WF_vars(Alive /\ PollNext)
  /\ \A p \in Publishers : WF_vars(Alive /\ (Notify(p) \/ MissedNotify(p)))
  /\ \A s \in Subscriptions : WF_vars(Alive /\ LibraryRuns(s))
  /\ WF_vars(Alive /\ Join)

FairSpec == Spec /\ Fairness

-------------------------------------------------------------------------------
Sample == [num : 1..MaxCalls, body : Bodies]

DataTypeOK ==
  /\ calls \in [Publishers -> 0..MaxCalls]
  /\ fails \in [Publishers -> 0..MaxCalls]
  /\ \A p \in Publishers : fails[p] <= calls[p]
  /\ toNotify \subseteq Publishers
  /\ queue \in [Subscriptions -> [Publishers -> Seq(Sample)]]
  /\ \A s \in Subscriptions, p \in Publishers : Len(queue[s][p]) <= QueueDepth
  /\ missed \in [Subscriptions -> SUBSET Publishers]
  /\ event \in [Subscriptions -> BOOLEAN]
  /\ guard \in [Subscriptions -> BOOLEAN]
  /\ seen \in [Subscriptions -> [Publishers -> 0..MaxCalls]]
  /\ got \in [Subscriptions -> [Publishers -> Nat]]

LifeTypeOK ==
  /\ stage \in [Subscriptions -> Stages]
  /\ subscriber \subseteq Subscriptions
  /\ listener \subseteq Subscriptions
  /\ attached \subseteq Subscriptions
  /\ registered \subseteq Subscriptions
  /\ node \in BOOLEAN /\ backend \in Backends /\ ok \in BOOLEAN

PollTypeOK ==
  /\ pc \in PollStates /\ batch \subseteq Subscriptions /\ final \in BOOLEAN
  /\ task \in IF pc \in Dispatching THEN Subscriptions ELSE {NoTask}

\* The state the code can represent: no connection holds more than its buffer,
\* and the poll thread has a callback in hand exactly while it dispatches.
TypeOK == DataTypeOK /\ LifeTypeOK /\ PollTypeOK

\* The poll thread is working on the samples of s.
Serving(s) == task = s /\ pc \in {"trigger", "hook", "drain"}

\* The backend of s is on its way out, its samples with it.
Dying(s) == stage[s] \in {"orphaned", "closing", "detached"}

\* A sample never waits in a queue without something that will make its
\* subscriber look: whoever sends after the listener's events are consumed
\* (on_data_received) still notifies after that, and the drain that follows
\* the consumption takes all it can see.  The exceptions are the samples the
\* code does not announce, which "missed" names.
NoLostWakeup ==
  \A s \in Subscriptions, p \in Publishers :
    queue[s][p] # <<>> =>
      \/ p \in toNotify \/ event[s] \/ p \in missed[s]
      \/ Serving(s) \/ Dying(s)
      \/ s \in PullSubscriptions /\ guard[s]

\* The poll thread never runs on_data_received on a destroyed backend nor the
\* drain on a destroyed FlatSubscription, whenever the user drops them: what the
\* weak captures of subscribe() and activate() are for.
DispatchTouchesLiveObjects ==
  /\ pc \in {"events", "trigger", "hook", "drain", "release"} =>
       stage[task] \in {"active", "released", "orphaned"}
  /\ pc = "drain" => stage[task] # "orphaned"

\* The WaitSet never holds a listener that is gone, nor the map an attachment
\* that is not in the WaitSet: the guard goes before the listener
\* (unregister_listener), also when the poll thread runs the destructor.
DetachedBeforeClosed == registered \subseteq attached /\ attached \subseteq listener

\* No step of the poll thread uses the backend once its destructor has returned,
\* and the backend outlives every subscription that holds it.
BackendOutlivesUsers ==
  backend = "destroyed" =>
    pc \in {"off", "exited"} /\ Holders = {} /\ attached = {}

-------------------------------------------------------------------------------
\* The thread that destroys the node's backend is never the one it joins.
\* flat_subscription.hpp only asks user callbacks not to destroy subscriptions;
\* a user thread that drops the subscription and the node during a dispatch
\* leaves the last reference to the poll thread.
NoSelfJoin == backend # "aborted"

Promise == INSTANCE LatestWins

\* Best effort, latest wins: what each subscription's callback gets of one
\* publisher is in the order of the publish calls, without repetition, whatever
\* is dropped by a full buffer, a failed publish or a teardown.
ImplementsLatestWins == Promise!Spec

Queued(s, p, n) == \E i \in 1..Len(queue[s][p]) : queue[s][p][i].num = n

\* Every announced sample of a dispatched CallbackPush subscription is drained
\* (or overwritten by a newer one) without any further publish.
PushDelivery ==
  \A s \in Subscriptions \ PullSubscriptions, p \in Publishers, n \in 1..MaxCalls :
    Queued(s, p, n) /\ s \in registered /\ ok
      ~> ~Queued(s, p, n) \/ p \in missed[s] \/ s \notin registered \/ ~ok

\* Dropping a subscription or the node always ends: no thread is left waiting
\* for the map's mutex, for a dispatch or for the poll thread.
TeardownCompletes ==
  /\ \A s \in Subscriptions : stage[s] \in {"released", "orphaned", "closing"}
                                ~> stage[s] = "closed"
  /\ backend = "joining" ~> backend = "destroyed"

\* A shutdown triggers the guard condition of every subscription the poll thread
\* serves, so that an executor or a wait_for_data blocked on it returns.
ShutdownWakesAll ==
  \A s \in Subscriptions :
    ~ok /\ s \in registered /\ ~final /\ pc # "off"
      ~> guard[s] \/ s \notin registered
===============================================================================
