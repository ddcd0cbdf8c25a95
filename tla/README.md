# protoros2 in TLA+

protoros2 lets ROS 2 nodes exchange Protobuf messages on two kinds of channel. The *proto*
channel is a ROS topic: `ProtoPublisher` and `ProtoSubscription` wrap rclcpp's endpoints and
send the Protobuf bytes as they are when the middleware speaks Protobuf (Track A), or convert
through a `TypeAdapter` when it does not (Track B). The *flat* channel goes around the
middleware: `FlatPublisher` and `FlatSubscription` exchange samples through iceoryx2 shared
memory, and a thread of the node's backend turns iceoryx2's events into callbacks and into
triggers of rclcpp guard conditions. `EnterpriseNode` makes the endpoints of both.

This directory specifies that system, model-checks it with TLC and proves its main safety
properties with TLAPS. Paths below are relative to `src/`; `fb` is
`protoros2/src/flat_backend.cpp`, `fs` is `protoros2/include/protoros2/flat_subscription.hpp`,
`fp` is `flat_publisher.hpp`, `en` `enterprise_node.hpp`, `pp` `proto_publisher.hpp`, `ps`
`proto_subscription.hpp` and `po` `proto_polling_subscriber.hpp`, all next to it.

    tlc -config channel_safety.cfg FlatChannel.tla     # one run
    tlapm FlatChannelProofs.tla                        # the proofs of one module


## 1. The system and what is hard about it

| Component | State | Operations | Specified in |
|---|---|---|---|
| Node backend and poll thread (`fb` 45-180) | iceoryx2 node, WaitSet, `attachment_map_` under `map_mutex_`, `poll_thread_`, `stop_polling_` | register and unregister a listener, the poll loop, stop and join | `FlatChannel` |
| FlatPublisher (`fp`, `fb` 182-291) | publisher, notifier, `publish_fail_count_` | `publish`, `is_valid` | `FlatChannel`, `FlatEndpoints` |
| FlatSubscription (`fs`, `fb` 293-451) | subscriber, listener, guard condition, mode, waitable | construct, `activate`, drain, `take`, `wait_for_data`, destroy | `FlatChannel`, `FlatPull`, `FlatEndpoints` |
| FlatSubscriptionWaitable (`fs` 40-129) | a weak pointer to its subscription, the in-use flag of rclcpp | `add_to_wait_set`, `is_ready`, `take_data`, `execute`, `get_waitable` | `FlatPull` (lifetimes), `FlatExecutors` (threads and wait sets) |
| EnterpriseNode (`en`) | `flat_backend_`, made lazily | the factories of flat and proto endpoints | `FlatChannel`, `FlatPull`, `FlatExecutors`, `FlatEndpoints`, `ProtoRouting` |
| ProtoSubscription (`ps`) | which track it is on | `take`, executor callbacks | `ProtoPolling` (`take`), `ProtoRouting` (callbacks) |
| ProtoPollingSubscriber (`po`) | cached message and timestamp | `take_data` of Latest, Newest, All | `ProtoPolling`, `ProtoRouting` (beside publishers of its process) |
| ProtoPublisher (`pp`) | which track it is on | two overloads of `publish` | `ProtoRouting` |
| Bytes benchmark (`protoros2_example/src/enterprise_bytes_*.cpp`) | frame number, cached message; last number, counts, throughput window | timer, callback, summary of the destructor | `BytesBenchmark` |
| Other examples, CMake macros, rosbag2 converter, scripts, tests | none that outlives a call | | not modelled, see section 7 |

How they interact:

- A *publish* is two calls of iceoryx2. `send` puts the sample into the buffer of every
  connected subscriber, dropping the oldest sample of a full one; `notify` wakes every
  listener. Another thread can run between them, and the second can fail or never come.
- The *poll thread* waits on the WaitSet. For an attachment that fired it looks up the callback
  under `map_mutex_`, copies it, releases the mutex and calls it: that drains the listener's
  events (`fb` 429), triggers the guard condition (`fb` 432) and runs the subscription's hook,
  which drains the samples into the user's callback in CallbackPush mode and does nothing in
  WaitSetPull mode.
- A *WaitSetPull* subscription is read by somebody else: a user thread in
  `wait_for_data`/`take`, or an rclcpp executor, perhaps of several threads, through the
  waitable. Which of them may is decided once, by the arguments of `create_flat_subscription`;
  no lock protects the iceoryx2 subscriber they all would call.
- *Lifetimes* are shared. The copied callback holds weak pointers and locks them one after the
  other; every subscription backend holds the node backend; the destructor of the node backend
  joins the poll thread; a user may drop a subscription or the node in any thread at any time.

What tests hardly reach, and what the properties are therefore about (PROJECT.json, `hazards`,
lists every place with its line):

- *Interleavings*: a subscription destroyed between the copy of its callback and the call; a
  sample sent between the consumption of an event and the last receive; a drop during a drain,
  between `take_data` and `execute`, or while `rcl_wait` blocks.
- *Lost wake-ups*: two conversions (sample to event, event to trigger), each of which merges; a
  trigger spent while the callback group of its subscription is taken.
- *Several receivers*: an executor's threads, the poll thread and a user's wait set at one
  subscription.
- *Teardown*: guard, listener, map entry, subscription, backend and thread must go in an order
  that holds whichever thread releases the last reference; a shutdown must wake everybody.
- *Partial failure*: every iceoryx2 creation may fail alone; a `take` may consume a sample and
  fail; a publish may fail or be announced to nobody.
- *Overflow and numbering*: full buffers, skipped, repeated and restarted frame numbers.


## 2. The modules

| Module | What it is |
|---|---|
| `LatestWins` | The abstract promise of either channel: publish, and deliver something newer than before |
| `LatestWinsProofs` | What that promise amounts to: at most once, and never back |
| `FlatChannel` | The flat channel: publishers, subscriptions and their lives, the node backend and its poll thread |
| `FlatChannelProofs` | Its theorems |
| `FlatPull` | Extends `FlatChannel` with the consumers of WaitSetPull subscriptions: a polling thread and an executor |
| `FlatPullProofs` | Its theorems |
| `FlatExecutors` | Who receives from a FlatSubscription: the poll thread, the threads of an executor, users with wait sets |
| `FlatExecutorsProofs` | Its theorems |
| `FlatEndpoints` | Topic names, entities that fail to be created, and what `is_valid()` says of an endpoint |
| `FlatEndpointsProofs` | Its theorems |
| `ProtoPolling` | The three polling policies over `ProtoSubscription::take` |
| `ProtoPollingProofs` | Its theorems |
| `ProtoRouting` | The way of a message on the proto channel: tracks, intra-process delivery, the two `publish` |
| `ProtoRoutingProofs` | Its theorems |
| `BytesBenchmark` | The frame numbers, drop counts and spot check of the bytes benchmark |
| `BytesBenchmarkProofs` | Its theorems |
| `MCFlatEndpoints`, `MCFlatExecutors`, `MCBytesBenchmark` | Sets of topics, of arguments of the factories and of profiles for TLC |

### FlatChannel

One receiving process: a node, its backend with the poll thread, and subscriptions of one topic
that user threads create and drop at any time. The publishers belong to other processes, so
they hold nothing of this node. A payload is `"valid"` (it parses), `"empty"` (zero bytes,
which a message of default values serializes to) or `"foreign"` (it does not parse): this is
all `process_payload` (`fs` 217-272) tells apart.

| State | In the code |
|---|---|
| `calls`, `fails`, `toNotify` | publish calls, `publish_fail_count_`, publishers between `send` and `notify` |
| `queue[s][p]` | the buffer of one iceoryx2 connection |
| `missed[s]` | (history) publishers some sample of which the code announces to nobody |
| `event[s]`, `guard[s]` | an event pending at the listener, the guard condition triggered |
| `stage[s]` | how far constructor, `activate` and destructor of `s` have come, and who still holds it |
| `subscriber`, `listener`, `attached`, `registered` | `subscriber_`, `listener_`, the WaitSet's attachments, `attachment_map_` |
| `seen`, `got` | (history) what the user was handed of each publisher |
| `node`, `backend`, `ok` | the user's `EnterpriseNode`, the backend with its destructor, `rclcpp::ok()` |
| `pc`, `batch`, `final`, `task` | the poll thread: where it is, attachments still to serve, the last round after a shutdown, the callback in hand |

The actions of the poll thread are cut where another thread can see or change something: the
two mutex sections (`PollTop` copies all callbacks, `PollLookup` one), `weak_self.lock()`
(`PollLock`), the consumption of events, the trigger, `weak_sub.lock()` (`PollHook`), each
`receive` (`PollTake`), and the end of the callback, where the thread may hold the last
reference and run the destructors itself (`PollRelease`, `PollUnregister`, `PollClose`). On the
users' side `CreateSubscriber`, `CreateListener`, `Attach` and `Register` are the steps of
`create_flat_subscription`, each with its silent failure, `ConstructionThrows` is the guard
condition of an invalid context, and `Reset`, `Unregister`, `Close` drop the pointer. `DropNode`
and `Join` destroy the backend, `Shutdown` is `rclcpp::shutdown()`.

Wake-ups with neither event nor stop nor shutdown lead the thread back to its wait and are
stutters. One step covers `receive` and the callback: while it runs, no other thread can
observe the difference except through `Reset`, which the `drain` state allows before and after.

### FlatPull

Every action of `FlatChannel` plus two consumers. The polling thread (`PollingWoken`,
`PollingTake`, `PollingDone`, `PollingReceiveError`) is the loop of
`protoros2_example/src/enterprise_flat_polling_subscriber.cpp` 40-53 behind `wait_for_data`
(`fs` 335-349); the WaitSet example has the same loop. The executor (`ExecCollect` ...
`ExecStop`) is rclcpp's single-threaded executor, external code, reduced to the calls it makes
on the waitable: collect, wait, ask each waitable once, `take_data`, `execute`. `WaitReturns`
clears the triggers the wait set holds, as rcl does. `spun`, chosen in the initial state, says
which subscriptions are in the executor; the others are polled. A `take()` that refuses a payload
(empty or foreign) returns false as if the queue were empty; what the polling loop then leaves
behind goes into `missed`.

### FlatExecutors

`FlatPull` has one consumer per subscription and lets it be dropped at any time; `FlatExecutors`
has subscriptions that stay and all consumers at once. `config` holds the arguments of
`create_flat_subscription` (`Option`: a callback or not, the mode, the callback group), and `Mode`,
`Added` and `Drains` are what the two overloads (`en` 298-350, 363-382) and
`drain_pending_payloads` (`fs` 275-279) make of them. The rest is what then happens:

- `PollDispatch`, `PollTake`, `PollDrained`: `on_data_received` with the hook of `activate`.
- `Enter` ... `CallbackDone`, for each thread: the loop of rclcpp's MultiThreadedExecutor. Under
  the wait mutex it goes through the waitables of the last wake-up, asking `is_ready` (`Ask`,
  `Asked`: two steps, as `has_samples()` takes time), passes over those whose exclusive group
  is taken, and calls `take_data` (`TakeData`); outside of the mutex it calls `execute`. When nothing
  is left it collects its wait set, which throws for a waitable that is in another one
  (`refused`), and waits. After a callback of an exclusive group it interrupts itself
  (`notified`). All of this is rclcpp's, external, and modelled by the calls it makes on the waitable.
- `AddWaitable` ... `UserDone`, for each wait set: the WaitSet example
  (`enterprise_flat_waitset_subscriber.cpp` 28-52). `FlagAfterAdd` is the in-use flag once the
  pointer of `get_waitable` is let go: still set, as the WaitSet got a copy of the one pointer the
  subscription keeps (`fs` 166-171, 365).

`Receivers(s)` are those inside `has_samples()` or `receive()` of the subscriber of `s`. There is
one publisher, and a sample is a number; those in `Foreign` do not parse. `handed` and `discarded`
are history variables.

### FlatEndpoints

The endpoints of one node, before and beside the threads: `Normalize` is the constructor of
`FlatSubscription` (a slash in front), `CleanTopic` the backends (drop it, turn the others into
`_`), and every creation in iceoryx2 succeeds or fails by itself (`May`). `publisher`,
`notifier`, `subscriber` and `listener` are the optional members; `ValidPublisher` and
`ValidSubscription` are the two `valid()`. Construction is one step: `FlatChannel` has its
interleavings. Samples are their publishers, as the properties ask only who reaches whom.

### ProtoPolling

One thread in `take_data()`; samples arrive between its takes. The policy and the track are
chosen in the initial state. `newData` and `info` are the locals that `take` writes to, which
is where the policies differ: Latest reuses them for every take, All makes a new message each
time, Newest takes once. `TakeMalformed` is a sample that Track A consumes, parses in part and
rejects (`ps` 71-74); `TakeThrows` is the same sample on Track B, where rclcpp throws;
`TakeNothing` is the take that finds nothing, whose `message_info` rcl has zeroed.

### ProtoRouting

The proto endpoints of one process. Whether the middleware speaks Protobuf and which publishers
have intra-process delivery is chosen in the initial state, the option of a subscription when it is
created. `Track` and `UsesIntra` are the decision of `create_proto_subscription` (`en` 137-151);
`Resolved` is rclcpp's own reading of the same option, which the code has to agree with.
`PublishConst` is the overload for `const &` in one step; that for `unique_ptr` is cut at the place
where it has counted the subscriptions of the process (`Count`) and not yet published
(`PublishUnique`). rclcpp is external and modelled by what the code relies on: delivery within the
process to subscriptions that have it enabled, through the middleware when there are others, the
copy of a message that came both ways dropped, an exception for bytes from a publisher with
intra-process delivery. Discovery is taken as done when an endpoint is created. `due` is a history
variable.

The subscriptions in `polled` belong to a `ProtoPollingSubscriber`, whose constructor leaves the
intra-process setting to the node (`po` 144-156) and puts the subscription where no executor serves
it. Its `take()` (`TakePolled`) reads the middleware's queue only, and a copy in it is consumed and
reported like an empty queue (`ps` 83).

### BytesBenchmark

Talker and listener around the promise of `LatestWins`, with both processes restarting. A frame
carries its sizes and its number of hashes, and `Byte` computes its contents where the listener
looks. `first`, `published`, and `nth` and `lastNth`, which number the frames of all talkers together,
are history variables.

The listener's callback is cut up: `Receive` computes what it will store, `Store` stores one
counter, in any order, since the compiler may order plain stores between two calls it does not
see into as it likes. On the flat channel the callback runs on the poll thread, and `Stop` and
`Summarize`, the destructor that reads the counters one by one for the final report
(`enterprise_bytes_listener.cpp` 124-136), run beside it; on the proto channel `Stop` waits for the
callback, since one thread spins both. `Log` is `throughput_mbps()`, which the throttled message at
the end of a callback calls or not; its byte counts are in frames, and whether two seconds are
over is left open.


## 3. Runs

Every run finishes with 2 workers in a few minutes at most. "Violation" runs show a place where
the code does something its documentation excludes; section 6 describes each.

| Run | Instance | Checks |
|---|---|---|
| `channel_safety` | 1 publisher x 3 calls, a push and a pull subscription, buffers of 2 | `TypeOK`, `NoLostWakeup`, `DispatchTouchesLiveObjects`, `DetachedBeforeClosed`, `BackendOutlivesUsers`, `ImplementsLatestWins` |
| `channel_live` | 1 publisher x 3 calls of all payload kinds, a push subscription, fairness | `PushDelivery`, `TeardownCompletes`, `ShutdownWakesAll` |
| `channel_self_join` | 2 push subscriptions, 1 call | violation of `NoSelfJoin` |
| `pull_consumers` | a pull subscription, polled or in the executor, 2 calls that parse or not, buffer of 2, fairness | `PullTypeOK`, `CallbackHoldsSubscription`, `PollingNeverStalls`, `ImplementsLatestWins`, `TriggerReachesTake`, `PollingDelivery` |
| `pull_backlog` | the same, buffer of 2 | violation of `ExecutorNeverStalls` |
| `pull_guard` | the same, 1 call | violation of `WaitSetGuardsAlive` |
| `proto_policies` | all policies, both tracks, 6 samples, history of 2 | `TypeOK`, `DrainsToNewest`, `NeverOlder`, `StampMatches` |
| `proto_partial` | Latest, native | violation of `ReturnsParsed` |
| `executor_threads` | 2 subscriptions in 7 pairs of arguments, 2 threads, 2 wait sets, buffer of 2, 3 calls of which one does not parse, fairness | `TypeOK`, `OneReceiver`, `OneWaitSet`, `OnlyMisuseConflicts`, `ExecutorDrains`, `ImplementsLatestWins`, `CallbackServed` |
| `routing_tracks` | 2 publishers x 2 calls, 2 subscriptions, one of which may be polled, depth 2, every setting | `TypeOK`, `NewestReaches`, `ImplementsLatestWins` |
| `endpoints_meet` | 3 names, two of them one topic; a publisher, a push and a pull subscription | `TypeOK`, `ValidEndpointsMeet` |
| `bench_tiers` | the three tiers of the talker, 3 chunks of 256 bytes, one of 1000, 257 of 1; both channels, 4 frames, buffer of 2, 2 restarts | `TypeOK`, `DropsAreExact`, `NoPhantomDrops`, `SummaryIsOfItsRun`, `IntactFramesPass`, `FramesInOneWindow` |

Why these bounds are enough. A buffer of 2 with 3 calls overflows, and holds a sample behind
the one being taken; the hazards of ordering and merging need no more. Two subscriptions, one of
each mode, are what the teardown needs: one that is dispatched while the other goes and takes the
last reference on the backend. One publisher suffices for the runs of the channel because
publishers share nothing but the event and guard of a subscription, and what a second one adds
there (an event that stands for two samples) a second call of the first adds too; the theorems of
section 5 hold for any number. The names of `endpoints_meet` contain a slash inside, in front,
and in place of nothing, and two of them differ only in the leading one. Six samples through a
history of two give every order of arrival, overflow and take within one call. In
`routing_tracks` two subscriptions are the least that mix the ways of a message, and one may come or
go in the middle of a publish to the other; two publishers share the queues. The tiers are the
sizes of `enterprise_bytes_talker.cpp` themselves: the bytes are computed, never enumerated. The
other profiles have several small chunks, an odd size, and more chunks than bytes; all of them pass the spot check,
and section 6 says what becomes of the rest. Four
frames through a buffer of two lose some in the middle and leave one to count during the report.
The pairs of `executor_threads` have every value of every argument, next to a subscription that
shares its group or its thread; two threads and two wait sets are the least that get in each
other's way, and the third call finds the group of the first still at work and the second queued.
Its safety properties are proved for all other sizes.

`CHECK_DEADLOCK FALSE` is in the runs of `FlatEndpoints`, `ProtoRouting` and `BytesBenchmark`: when the bound on
publishes is reached and everything is read, nothing is left to do. `ProtoPolling` can always
begin another call, in `FlatExecutors` other work can always wake the executor, and in `FlatChannel`
and `FlatPull` an end state is stated (`Terminated`), so there deadlock is checked: no thread waits for a lock, a join or a wake-up
that cannot come.

The bounds in the modules are `MaxCalls` (publish calls of one publisher), `MaxSamples`,
`MaxFrames` and `MaxRestarts`; numbers are unbounded otherwise. In `ProtoRouting` foreign
bytes arrive only while the queue has room, so that they displace no message. Frame
numbers have 64 bits; their wrap-around is out of reach of any run of the program.


## 4. Fairness

- `WF(PollNext)`: the poll thread is an operating-system thread whose loop blocks at most 50 ms
  (`fb` 157) and on `map_mutex_`, which is never held across a callback.
- `WF(Notify \/ MissedNotify)` per publisher: `notify` follows `send` in the same function; the
  disjunction leaves open whether it works.
- `WF(LibraryRuns(s))` per subscription: a user thread inside the constructor, `activate` or the
  destructor gets on. `WF(Join)`: `join()` returns once the thread has exited.
- In `FlatExecutors` `WF(PollNext)` and `WF(ThreadRuns(t))` for each thread of the executor: both
  are operating-system threads, and callbacks return. The executor's threads take turns at the mutex
  and weak fairness of each suffices, since a thread that holds it gets on. `OtherWork`, a wake-up
  that nothing in this system causes, is left out of it; so is every step of a user.
- In `FlatPull` also the polling thread (the timer of the example) and the executor, which
  spins; `ExecOtherWork`, other work waking it, is *not* fair, since nothing guarantees any.

Nothing makes a user publish, create, drop or shut down, and strong fairness is used nowhere.
`PushDelivery` and `PollingDelivery` stop asking for a sample that the code announced to nobody
(`missed`), whose subscription is no longer registered, or once the context is shut down.


## 5. Proofs

TLAPS proves the following for every set of publishers, subscriptions and topics, every buffer
depth and every bound. The only assumptions are those the modules declare about their constants:
depths are positive, bounds are natural numbers, `NoTask` and `NoTopic` are none of the real
ones, pull subscriptions are subscriptions, publishers and subscriptions are different things.
`JoinIsBoundedHolds`, which counts, also assumes finitely many subscriptions. Theorems marked with *
hold under a condition on how the library is used, discussed below.

| Theorem | Says | Rests on |
|---|---|---|
| `FlatChannelProofs!TypeCorrect` | `Spec => []TypeOK` | `PushIsBuffer` |
| `FlatChannelProofs!ControlHolds` | `Spec => [](LifeInv /\ DispatchInv /\ BackendInv)` | `TypeCorrect` |
| `FlatChannelProofs!DispatchIsSafe` | no dispatch on a destroyed object | `ControlHolds` |
| `FlatChannelProofs!DetachIsFirst` | guard and entry go before the listener | `ControlHolds` |
| `FlatChannelProofs!BackendIsLast` | a destroyed backend has no thread, no user, no attachment | `ControlHolds` |
| `FlatChannelProofs!NoWakeupIsLost` | every queued sample has a wake-up under way or is named in `missed` | `TypeCorrect`, `ControlHolds` |
| `FlatChannelProofs!OrderHolds` | `Spec => []OrderInv` | `PushInOrder`, `TailInOrder`, `StepKinds` |
| `FlatChannelProofs!Refinement` | `Spec => LatestWins!Spec` | `TypeCorrect`, `OrderHolds` |
| `FlatChannelProofs!DeliversOnce` | at most once, never back | `Refinement`, `LatestWinsProofs` |
| `FlatChannelProofs!JoinWaitsForNoCallback` | the thread being joined runs no user code and gets no more work | `ControlHolds`, `JoinStep` |
| `FlatChannelProofs!JoinIsBoundedHolds` | the join takes at most 2 steps for each fired attachment, and 3 more | `JoinStep`, `KilledInv` |
| `FlatChannelProofs!NoSelfJoinByDrops`* | no self-join if no subscription is dropped during its dispatch | `ControlHolds` |
| `FlatChannelProofs!NoSelfJoinByOrder`* | no self-join if the node is dropped after its subscriptions | `ControlHolds` |
| `FlatChannelProofs!LastRoundWakesAll`* | the thread that ended by itself has woken everybody, if nobody is activated after the shutdown | `ControlHolds` |
| `FlatPullProofs!PullTypeCorrect` | `PullSpec => [](TypeOK /\ PullTypeOK)` | `TypeStep`, `HandIsTyped`, `ReceiveIsTyped`, `HandOverIsTyped` |
| `FlatPullProofs!CallbackIsSafe` | user code runs on subscriptions that its thread shares | `PullTypeCorrect`, `ActiveStays` |
| `FlatPullProofs!PollingIsAwake` | no polled subscription stalls in front of announced samples | `PullTypeCorrect`, `ChannelAnnounces`, `DrainStep` |
| `FlatPullProofs!PullOrderHolds` | `PullSpec => [](OrderInv /\ HandInv /\ DrainInv)` | `OrderStep`, `HandStep`, `PullOrderStep` |
| `FlatPullProofs!PullRefinement` | `PullSpec => LatestWins!Spec` | `PromiseStep`, `PullOrderHolds` |
| `FlatPullProofs!PullDeliversOnce` | at most once, never back | `PullRefinement`, `LatestWinsProofs` |
| `FlatPullProofs!ExecutorKeepsUp`* | the executor stalls only on a backlog | `PullTypeCorrect`, `GrowsStep`, `ExpectedStep` |
| `FlatPullProofs!GuardsAliveByDrops`* | the wait set's guards are alive if drops happen while the executor is awake | `PullTypeCorrect` |
| `FlatExecutorsProofs!TypeCorrect` | `Spec => []TypeOK` | `PushIsBuffer`, `ReceiveIsTyped`, `HandOverIsTyped` |
| `FlatExecutorsProofs!OwnedInvariant` | `Spec => []Owned` | `TypeCorrect`, `SpunIsPulled` |
| `FlatExecutorsProofs!OneReceiverHolds` | one thread at a time inside a subscriber | `OwnedInvariant` |
| `FlatExecutorsProofs!OneWaitSetHolds` | no waitable in two wait sets | `OwnedInvariant` |
| `FlatExecutorsProofs!OnlyMisuseConflictsHolds` | stolen messages and conflicts need a misused subscription | `OwnedInvariant`, `RefusedIsMisused` |
| `FlatExecutorsProofs!NoticingInvariant` | `Spec => []Noticing` | `TypeCorrect`, `OwnedInvariant` |
| `FlatExecutorsProofs!ExecutorDrainsHolds` | nothing of an exclusive group is left behind | `NoticingInvariant` |
| `FlatExecutorsProofs!ExclusionInvariant` | `Spec => []Exclusion` | `TypeCorrect` |
| `FlatExecutorsProofs!InOrderInvariant` | `Spec => []InOrder` | `OwnedInvariant`, `ExclusionInvariant`, `ReceiveAscends`, `HandOverAdvances` |
| `FlatExecutorsProofs!RefinesLatestWins` | `Spec => LatestWins!Spec` | `InOrderInvariant` |
| `ProtoPollingProofs!TypeCorrect` | `Spec => []TypeOK` | `Invariant` |
| `ProtoPollingProofs!DrainsToNewestHolds` | Latest ends on the newest sample of its beginning, or a newer one | `Invariant` |
| `ProtoPollingProofs!NeverOlderHolds` | Latest never goes back | `Invariant`, `Consumed` |
| `ProtoPollingProofs!StampMatchesHolds` | the timestamp is that of the message returned | `Invariant` |
| `ProtoPollingProofs!SpoiledByTailHolds` | only Latest on the native track, by a malformed sample after a good one, returns what was not parsed | `Invariant` |
| `ProtoPollingProofs!ReturnsParsedElsewhere`* | everything returned was parsed without that policy, that track or such samples | `Invariant` |
| `ProtoRoutingProofs!TypeCorrect` | `Spec => []TypeOK` | `SendIsTyped`, `CallbackIsTyped`, `TakeIsTyped` |
| `ProtoRoutingProofs!OrderHolds` | `Spec => []OrderInv` | `PublishEffect`, `Reception`, `AscendsOnPush`, `AscendsOnTake` |
| `ProtoRoutingProofs!NewestArrives` | `Spec => []NewestReaches` | `OrderHolds`, `SentReaches`, `SeenGrows` |
| `ProtoRoutingProofs!ProtoRefinement` | `Spec => LatestWins!Spec` | `OrderHolds`, `CallbackDelivers` |
| `ProtoRoutingProofs!RoutesDeliverOnce` | at most once, never back, by either way | `ProtoRefinement`, `LatestWinsProofs` |
| `BytesBenchmarkProofs!TypeCorrect` | `Spec => []TypeOK` | `PushedFrames`, `PoppedFrames` |
| `BytesBenchmarkProofs!DropsAreExactHolds` | received and dropped frames add up to the run | `Invariant` |
| `BytesBenchmarkProofs!NoPhantomDropsHolds` | they never exceed what was published | `Invariant` |
| `BytesBenchmarkProofs!SummaryIsOfItsRunHolds` | neither does the summary read beside the poll thread | `Invariant` |
| `BytesBenchmarkProofs!FramesInOneWindowHolds` | a frame is in one throughput window | `Invariant` |
| `BytesBenchmarkProofs!IntactFramesPassHolds` | no frame of a profile whose last chunk starts at a multiple of 256 bytes fails the spot check | `SpotCheck`, `FilledStep`, `Invariant` |
| `BytesBenchmarkProofs!UnevenFramesFailAlways` | every frame of another profile does | `SpotCheck`, `ChecksStep`, `Invariant` |
| `FlatEndpointsProofs!TypeCorrect` | `Spec => []TypeOK` | `OverflowKeepsNewest`, `FrameIsTyped` |
| `FlatEndpointsProofs!ValidIsEnough` | `Spec => ValidEndpointsMeet` | `OneTopicOneService`, `OverflowKeepsNewest` |
| `LatestWinsProofs!AtMostOnceHolds` | `got <= seen <= calls` for every connection, without a bound on the calls | `Inductive` |
| `LatestWinsProofs!NeverBackHolds` | a delivery catches up; what was passed over never comes back | `Inductive` |

The inductive invariants stand in the modules of the proofs. TLC finds each of them true on the
instances of section 3; for a theorem marked with *, on the same instance with the condition conjoined to its
next-state relation.

*The life of a subscription.* That a dispatch only touches live objects is not inductive: it
says nothing about why a subscription dropped at the wrong moment is still there. `DispatchInv`
gives, for every place of the poll thread, the stages its subscription can be in; `LifeInv`
says where an attached, a registered and a held subscription can be, and in particular that
`released` and `orphaned`, the stages in which only the poll thread keeps it, imply that the poll
thread does (`Held`). `BackendInv` adds that a backend being destroyed has no holders, which
makes creation and destruction exclude each other. The conjunction is inductive; the three safety
properties are its consequences.

*Wake-ups.* `NoLostWakeup` is inductive given the above. The step to look at is
`PollDrainEvents`, which makes the event false for samples that may have been sent meanwhile: the
poll thread is then `Serving` the subscription, and stays so until it has either drained or
triggered a guard condition. `DispatchInv` has `pc = "hook" => guard[task]` for the pull side of
that argument.

*Order.* `OrderInv` says that a connection holds increasing numbers, all greater than the last
one handed over and none greater than the number of calls. It is what makes each `PollTake` a
`Deliver` of `LatestWins` or a stutter; `StepKinds` sorts all other actions by the three variables
the promise is about.

*What the promise is worth.* `LatestWins` only says that a delivery hands over something newer. `LatestWinsProofs`
concludes that a subscription gets no sample twice and none that was passed over; with the
refinements (`SamePromise` identifies the two instances) this holds of both channels.

*The join.* That `TeardownCompletes` holds needs a scheduler that runs the poll thread; that the join waits for
nothing else does not. Nobody holds a backend whose destructor runs (`BackendInv`), so nothing is attached, the
thread has nothing in hand, and every lookup it makes fails: `JoinStep` shows that it stays in the
states of `Harmless` with a batch that no step adds to. `Remaining` counts what is left, and `JoinIsBounded`
says that every step of the thread lowers it.

*When the poll thread joins itself.* It must hold the last reference on a subscription, hence the subscription must
have been dropped during its dispatch, and the last on the backend, hence the node must have gone before. `NoSelfJoinByDrops` and
`NoSelfJoinByOrder` show that excluding either is enough. Both conditions are on the user's side: `fs` asks the first of
callbacks only, which is not enough, and neither is asked of the other threads of the program.

*The last round.* After a shutdown `LastRound` follows each subscription served by the poll thread: it has been
triggered, or is in the batch, or in hand before its trigger; drops only take it away.
The hypothesis is needed: TLC shows that a subscription activated between the copy of the callbacks in
`PollTop` and the end of the thread is never woken. `ShutdownWakesAll`, the liveness property,
leaves it out by asking for `~final`.

*Consumers.* A step of `PullSpec` is one of the channel or one of a consumer (`StepOfWhom`), so that
`FlatPullProofs` reuses what `FlatChannelProofs` says of a step of the channel (`TypeStep`, `OrderStep`,
`PromiseStep`). New is what lies between the two. `ActiveStays`: only the drop of the last pointer
ends the life of an active subscription. `ChannelAnnounces`: of the channel's steps only `PollDrainEvents` and the drain
consume an announcement; the first leaves the trigger to come, and the drain is not of a pull
subscription (`DrainInv`). `HandInv`: what the executor has taken and not yet given to the callback is newer than
all that was seen and older than all that is queued, however the buffer overflows meanwhile.

*The stall of the executor.* `Expected` is the invariant that the stall breaks: the samples of a subscription in an executor are
announced, or the executor is still to ask it (`ToAsk`). Only `ExecTake` can break it, by reading one sample
of two. Under `NoBacklog`, which bounds the samples waiting at a subscription by one, it is preserved
(`ExpectedStep`); `Grows` rules out that a sample gets to a subscription not yet, or no longer, there.

*Receivers.* `OneReceiver` does not say why the others stay away. `Owned` does: the poll thread
drains only what was created for it, everything the executor has collected is in use, and so is the
member of every wait set, which has no callback. `SpunIsPulled` ties that to the factories: what
an executor serves is never drained. `OneReceiver`, `OneWaitSet` and `OnlyMisuseConflicts` follow.

*Triggers.* `Noticing` follows a sample of an exclusive group from its event to the guard condition,
to the round of the executor that consumed the trigger (`InRound`), to the group that was taken and to
the interrupt that its callback leaves; one of them is there while the sample is. The step to look at
is `Asked`, which forgets a ready waitable: its group is then busy, and stays so until
`CallbackDone` makes `notified` true.

*Order between threads.* A sample may be in the hand of a thread while newer ones are taken.
`Exclusion` says that two threads never have callbacks of one exclusive group in hand, and `InOrder`
that what is in a hand is newer than what the user got and older than what is queued. Reentrant
groups are left out (`Steady`): there two callbacks do overtake each other.

*Endpoints.* Adding a slash and dropping one cancel out (`NormalizeIsNeutral`), so that one topic
leads to one service (`OneTopicOneService`), and a publish that does not fail leaves its sample
last in the queue also when that overflows.

*Polling.* `Queued` says that the history ascends and is newer than what the user and the running
call have; `Calling` what `new_data` and the batch are in the middle of a call, and that the newest
sample of its beginning is either still queued, or overwritten by a newer one, or taken; `Handed` ties
the timestamp to the message. `FinishKeeps` is the end of a call that both failing takes share. `SpoiledByTail`
looks at the only steps that can make a whole message a fragment, and finds one.

*Two ways.* The messages of one publisher reach one callback by the buffer of rclcpp or by the
middleware's queue, never by both: `Way` says by which, and what the other holds are copies, which
`Reception` shows never to get further. So `OrderInv` needs to speak of one queue only, whose
numbers ascend above what the callback has seen. `NewestReaches` rests on it: a message overtaken by
its successor could make `seen` go back. `SentReaches` is the case analysis over tracks and settings: whoever
is there when a message is sent has it in the queue it takes from.

*Counting.* The totals are not inductive as the properties state them, since a callback may be half
stored and a talker may have started again. `Settled` is what a counter will be once the callback is
done. `Order` compares the numbers of any two frames with their places among all frames (`nth`): numbers
never advance faster, which a restart cannot change. So `Totals` can bound what was counted by the
place of the last frame (`TotalsStep`), and say exactly what it is while nobody restarts, when number
and place are the same (`Numbers`). `Counting` is the order of storing and reporting.

*The spot check.* The expected byte at the end of a frame is computed over all the data, the byte found there over
its last chunk. `SpotCheck` shows that they agree just if the length of the chunks before the last is a
multiple of 256: `UniqueDivision` gives the place of a byte in its chunk, `PatternRepeats` the period. `Filled`
says that every frame on the wire was filled by a talker of one of the profiles, which no restart changes; so
no frame fails where all profiles are such. `Checks` carries the place of a single talker through the buffer and
the callback, for the profiles of which every frame fails.

Only model-checked: every liveness property (`PushDelivery`, `PollingDelivery`,
`TeardownCompletes`, `ShutdownWakesAll`, `TriggerReachesTake`, `CallbackServed`), since they need
fairness and `ENABLED`, which this prover does not treat. Their safety halves are proved: `NoLostWakeup` for
`PushDelivery`, `PollingNeverStalls` for `PollingDelivery`, `ExecutorDrains` for `CallbackServed`, `JoinWaitsForNoCallback`
and `JoinIsBounded` for `TeardownCompletes`, `ExitWakesAll` for `ShutdownWakesAll`. `TriggerReachesTake` has none: it
says only that a step is taken.


## 6. Where code and documentation disagree

Four runs end in a counterexample on purpose. What each of them refutes is proved to hold under the conditions
named with it.

1. `channel_self_join`. The lock that protects a dispatch (`fb` 376-382) makes the poll thread
   an owner. When a user thread drops the subscription and the node meanwhile, the end of the
   dispatch destroys the subscription backend, then the node backend, whose destructor joins the
   thread it runs in (`fb` 166) and terminates the process, where the comment at `fb` 375 speaks of
   a safely dropped event. It cannot happen if no subscription is dropped during its dispatch
   (`NoSelfJoinByDrops`) or the node goes last (`NoSelfJoinByOrder`).
2. `pull_backlog`. Two samples may stand behind one event and one trigger; the executor makes one
   `take_data` per trigger and the waitable never re-arms its guard condition for what is left
   (`fs` 61-73). The second sample waits for the next publish. A backlog of two is the only cause
   (`ExecutorKeepsUp`).
3. `pull_guard`. `add_to_wait_set` leaves the address of the guard condition in rcl's wait set
   and keeps nothing alive; a drop in another thread destroys it under `rcl_wait` (`fs` 72),
   against `fs` 181-182. Dropping it from a callback of the executor is safe (`GuardsAliveByDrops`).
4. `proto_partial`. Latest takes every sample into one message; a sample that fails to parse has
   already overwritten it, and what is left of it is returned (`po` 64-69, `ps` 71-74). No other
   policy and not the fallback track do so (`SpoiledByTail`, `ReturnsParsedElsewhere`).

Seen while modelling, without a run of their own:

- A subscription activated while the poll thread makes its last round after a shutdown is never woken: its
  entry comes after the copy of the callbacks (`fb` 120-160), and the thread that would serve it has ended.
  `NoLateActivation` names what `LastRoundWakesAll` leaves out.
- An empty payload makes `take()` return false like an empty queue (`fb` 408); the loop of the
  polling example then stops in front of newer samples whose trigger is spent. `FlatPull` has these
  states; the samples are in `missed`, and `PollingNeverStalls` is about all others.
- With a Protobuf middleware `publish(const &)` always sends bytes (`pp` 82), which rclcpp refuses
  with an exception from a node with intra-process delivery; `publish(unique_ptr)` does so when the
  count is 0. Messages of such a node reach other processes only while somebody in its own process
  subscribes (`SendBytes` in `ProtoRouting`).
- `is_valid()` asks for more than publishing or taking needs: a publisher without a notifier
  publishes (`fb` 228), a subscription without a listener takes (`fb` 396), where `fp` 97 says
  "publishes will fail" and `fs` 389 "no data will ever arrive". It also asks for less than a push
  subscription needs: an attachment that fails (`fb` 92-94) leaves a valid subscription that nobody
  dispatches. `FlatEndpoints` has all of these states.
- The timestamp of Latest is that of the failing take that ended the drain, which rcl has zeroed
  (`po` 69); `info` shows it, and `StampMatches` leaves Latest out.
- The listener of the bytes benchmark expects one pattern over all the data
  (`enterprise_bytes_listener.cpp` 58), the talker repeats it per chunk (`enterprise_bytes_talker.cpp`
  59-68): every frame of a profile such as 1000 bytes in 3 chunks is a verify failure,
  though the talker says of its pattern that "the listener spot-checks it" (59). The tiers that it documents are
  not affected. `IntactFramesPass` is checked for profiles that pass, `UnevenFramesFailAlways` proves that all others
  fail.
- `get_waitable` (`fs` 361-363) promises to clear the in-use flag "when the WaitSet is destroyed".
  The deleter belongs to the one pointer that the subscription keeps, so it runs when the
  subscription goes; a second WaitSet after the first is refused until then (`DestroyWaitSet`).
- The samples of a Reentrant group that a MultiThreadedExecutor passes over, or of which several stand
  behind one trigger, wait for the next publish, and its callbacks may run out of order, as in
  the callback group example. `ExecutorDrains` and `Steady` name what is left.
- A subscription without callback in a group that is spun loses its messages to the executor, and the
  executor throws when a user's WaitSet has the waitable: `Misused`, which the polling example avoids
  with a comment of its own (`enterprise_flat_polling_subscriber.cpp` 30-31).
- An EventsExecutor learns of a waitable by `trigger_ready`, which only the push drain calls
  (`fs` 269-270), while the waitables given to an executor are those of WaitSetPull subscriptions.
- A ProtoPollingSubscriber in a node with intra-process delivery gets nothing that was published in
  its own process: it stays in a buffer nobody reads (`po` 144-156), and its copy on the wire ends the
  polling loop early (`ps` 83). `NewestReaches` leaves exactly these out.
- A callback of the poll thread may outlast the node it captures: the subscription it holds is
  safe, the node's members are not. In the bytes listener it stores counters after the report
  (`Store` when `phase` is `"down"`); in `enterprise_image_listener.cpp` it writes to
  `decoded_buffer_`, which is destroyed after `flat_sub_` is released (93-141).
- `warn_if_qos_not_honored` compares with a profile inside a temporary that is gone (`en` 400), and a
  user callback that throws on the poll thread ends the process (`fb` 426 is `noexcept`).
- `/a/b` and `/a_b` share a service (`fb` 199), and so do equal relative names of different
  namespaces.


## 7. Not modelled, and what comes next

Left out for good: the rosbag2 converter (two
delegating functions), the Python scripts and the image examples (straight-line input and output; what
is concurrent in them is the channel's), generated
message code. The parsers and arenas of `process_payload` matter only by whether a payload parses.
Out of scope in the model of the channel: a context that is initialised again under a living node,
memory exhaustion, callbacks that throw.

What could be added:

1. *Two nodes of one process*, and the lazy `ensure_flat_backend` under two threads (`en` 387-393),
   which nothing in the repository does.
2. *An EventsExecutor*, `set_on_ready_callback` and `trigger_ready` (`fs` 110-129), once a
   subscription in WaitSetPull mode reports that it is ready.
3. The CMake macros (`protoros2/cmake/proto2ros_wrapper.cmake`): what one call leaves to the next.
