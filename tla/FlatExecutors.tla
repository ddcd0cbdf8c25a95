---------------------------- MODULE FlatExecutors -----------------------------
(***************************************************************************)
(* Who may receive from a FlatSubscription: the two create_flat_subscription *)
(* of EnterpriseNode decide, from the callback, the mode and the callback  *)
(* group, whether the poll thread, an executor or the user does.  Here the *)
(* three run at once:                                                      *)
(*                                                                         *)
(*  - the poll thread of the node, which triggers guard conditions and     *)
(*    drains the CallbackPush subscriptions;                               *)
(*  - a MultiThreadedExecutor, whose threads look for work one at a time   *)
(*    (under its wait mutex) and execute what they found side by side, one *)
(*    callback at a time in a mutually exclusive callback group;           *)
(*  - users with an rclcpp::WaitSet of their own, each on its own thread.  *)
(*                                                                         *)
(* rclcpp is modelled from how the code uses it.  Publishing and reception *)
(* are one step each: FlatChannel takes them apart.  One publisher.        *)
(***************************************************************************)
EXTENDS Naturals, Sequences

CONSTANTS Subscriptions,  \* subscriptions of one topic, created before spin()
          Configs,        \* what the factories may be called with, see Option
          Threads,        \* threads of the executor
          WaitSets,       \* the users' wait sets
          QueueDepth,     \* iceoryx2's buffer
          Foreign,        \* the samples that do not parse
          MaxCalls,       \* bound on the publish calls
          Nobody          \* not a thread, a subscription or a wait set

\* A call of a factory: "manual" is a mutually exclusive group created with
\* automatically_add = false, which no executor spins.
Option == [callback : BOOLEAN, mode : {"CallbackPush", "WaitSetPull"},
           group : {"none", "exclusive", "reentrant", "manual"}]

ASSUME ConfigsAssumption == Configs \subseteq [Subscriptions -> Option]
ASSUME BoundsAssumption == QueueDepth \in Nat \ {0} /\ MaxCalls \in Nat
ASSUME NobodyAssumption == Nobody \notin Subscriptions \union Threads

VARIABLES
  config,     \* config[s]: the arguments s was created with
  calls,      \* publish calls so far; call n sends sample n
  queue,      \* queue[s]: samples s has not received, oldest first
  event,      \* event[s]: the listener of s has an event pending
  guard,      \* guard[s]: the guard condition of s is triggered
  poller,     \* the subscription the poll thread drains, or Nobody
  mutex,      \* the thread that holds the executor's wait mutex, or Nobody
  collected,  \* waitables the executor has added to its own wait set
  refused,    \* ... which threw: a waitable was in use; spin() is over
  notified,   \* the executor has interrupted itself
  scan,       \* waitables still to ask after the last wake-up
  busy,       \* the groups some callback of which is taken
  pc,         \* pc[t]: see ThreadStates
  hand,       \* hand[t]: [sub, num], what t asks, takes or executes
  inUse,      \* inUse[s]: in_use_by_wait_set_ of the waitable
  member,     \* member[w]: the subscription whose waitable w holds, or Nobody
  reading,    \* the wait sets whose owner is in its loop of take()
  handed,     \* handed[s]: the samples the user of s got, in order
  discarded   \* subscriptions of which execute() threw a parsed message away

chanVars == <<calls, queue, event, guard>>
execVars == <<mutex, collected, refused, notified, scan, busy, pc, hand>>
waitVars == <<inUse, member, reading>>
userVars == <<handed, discarded>>
vars == <<config, chanVars, poller, execVars, waitVars, userVars>>

ThreadStates ==
  {"idle",      \* about to lock the wait mutex
   "scan",      \* next_ready_waitable
   "ask",       \* inside is_ready(), which calls has_samples()
   "take",      \* inside take_data(), which calls receive()
   "collect",   \* filling the wait set
   "wait",      \* in rcl_wait
   "execute",   \* has released the mutex; execute() is next
   "callback"}  \* execute() runs the callback

-------------------------------------------------------------------------------
(* The factories of EnterpriseNode, applied to the arguments c.            *)

\* Slip: the mode stays what the caller asked for.
BugMode(c) == c.mode

\* A callback group needs an executor and overrides CallbackPush; the factory
\* without callback has no such rule.
Mode(c) == IF c.callback /\ c.group # "none" THEN "WaitSetPull" ELSE c.mode

\* Slip: the condition of the factory with a callback in both.
BugAdded(c) == c.group # "none" \/ Mode(c) = "WaitSetPull"

\* Slip: the condition of the factory without callback in both.
BugNotAdded(c) == c.group # "none"

\* add_waitable is called.
Added(c) == c.group # "none" \/ (c.callback /\ Mode(c) = "WaitSetPull")

\* drain_pending_payloads returns at once in WaitSetPull mode or without callback.
Drains(c) == Mode(c) = "CallbackPush" /\ c.callback

\* A null group is the node's default group, mutually exclusive and spun.
Group(s) == IF config[s].group = "none" THEN "default" ELSE config[s].group

Spun == {s \in Subscriptions : Added(config[s]) /\ Group(s) # "manual"}

Exclusive(s) == Group(s) # "reentrant"

-------------------------------------------------------------------------------
Init ==
  /\ config \in Configs
  /\ calls = 0
  /\ queue = [s \in Subscriptions |-> <<>>]
  /\ event = [s \in Subscriptions |-> FALSE]
  /\ guard = [s \in Subscriptions |-> FALSE]
  /\ poller = Nobody
  /\ mutex = Nobody /\ collected = {} /\ refused = FALSE /\ notified = FALSE
  /\ scan = {} /\ busy = {}
  /\ pc = [t \in Threads |-> "idle"]
  /\ hand = [t \in Threads |-> [sub |-> Nobody, num |-> 0]]
  /\ inUse = [s \in Subscriptions |-> FALSE]
  /\ member = [w \in WaitSets |-> Nobody] /\ reading = {}
  /\ handed = [s \in Subscriptions |-> <<>>] /\ discarded = {}

Push(q, n) == Append(IF Len(q) = QueueDepth THEN Tail(q) ELSE q, n)

Publish ==
  /\ calls < MaxCalls
  /\ calls' = calls + 1
  /\ queue' = [s \in Subscriptions |-> Push(queue[s], calls')]
  /\ event' = [s \in Subscriptions |-> TRUE]
  /\ UNCHANGED <<config, guard, poller, execVars, waitVars, userVars>>

\* take_payload: one sample leaves the queue.
Receive(s) == queue[s] # <<>> /\ queue' = [queue EXCEPT ![s] = Tail(@)]

\* The user of s gets sample n; one that does not parse is dropped.
HandOver(s, n) ==
  handed' = IF n \in Foreign THEN handed ELSE [handed EXCEPT ![s] = Append(@, n)]

-------------------------------------------------------------------------------
(* The poll thread: on_data_received and the hook of activate().           *)

PollDispatch(s) ==
  /\ poller = Nobody /\ event[s]
  /\ event' = [event EXCEPT ![s] = FALSE]
  /\ guard' = [guard EXCEPT ![s] = TRUE]
  /\ poller' = IF Drains(config[s]) THEN s ELSE Nobody
  /\ UNCHANGED <<config, calls, queue, execVars, waitVars, userVars>>

PollTake ==
  /\ poller # Nobody /\ Receive(poller)
  /\ HandOver(poller, Head(queue[poller]))
  /\ UNCHANGED <<config, calls, event, guard, poller, execVars, waitVars, discarded>>

PollDrained ==
  /\ poller # Nobody /\ queue[poller] = <<>>
  /\ poller' = Nobody
  /\ UNCHANGED <<config, chanVars, execVars, waitVars, userVars>>

PollNext == PollTake \/ PollDrained \/ \E s \in Subscriptions : PollDispatch(s)

-------------------------------------------------------------------------------
(* The executor.                                                           *)

At(t, state) == pc[t] = state
Goto(t, state) == pc' = [pc EXCEPT ![t] = state]
Holds(t, s, n) == hand' = [hand EXCEPT ![t] = [sub |-> s, num |-> n]]

Enter(t) ==
  /\ At(t, "idle") /\ mutex = Nobody
  /\ mutex' = t /\ Goto(t, "scan")
  /\ UNCHANGED <<config, chanVars, poller, collected, refused, notified, scan, busy, hand,
                 waitVars, userVars>>

\* Nothing left of the last wake-up: wait_for_work.
ScanDone(t) ==
  /\ At(t, "scan") /\ scan = {}
  /\ Goto(t, "collect")
  /\ UNCHANGED <<config, chanVars, poller, mutex, collected, refused, notified, scan, busy,
                 hand, waitVars, userVars>>

\* add_waitable of the executor's own wait set throws when another one has it.
Collect(t) ==
  /\ At(t, "collect")
  /\ IF \E s \in Spun \ collected : inUse[s]
     THEN refused' = TRUE /\ UNCHANGED <<collected, inUse, pc>>
     ELSE /\ collected' = Spun
          /\ inUse' = [s \in Subscriptions |-> inUse[s] \/ s \in Spun]
          /\ Goto(t, "wait") /\ UNCHANGED refused
  /\ UNCHANGED <<config, chanVars, poller, mutex, notified, scan, busy, hand,
                 member, reading, userVars>>

Triggered == notified \/ \E s \in collected : guard[s]

\* rcl_wait consumes every trigger in the wait set.
WaitReturns(t) ==
  /\ At(t, "wait")
  /\ Goto(t, "scan") /\ scan' = collected /\ notified' = FALSE
  /\ guard' = [s \in Subscriptions |-> guard[s] /\ s \notin collected]
  /\ UNCHANGED <<config, calls, queue, event, poller, mutex, collected, refused, busy, hand,
                 waitVars, userVars>>

Woken(t) == Triggered /\ WaitReturns(t)

\* A timer or another entity of the node.
OtherWork(t) == ~Triggered /\ WaitReturns(t)

Ask(t, s) ==
  /\ At(t, "scan") /\ s \in scan
  /\ scan' = scan \ {s}
  /\ Goto(t, "ask") /\ Holds(t, s, 0)
  /\ UNCHANGED <<config, chanVars, poller, mutex, collected, refused, notified, busy,
                 waitVars, userVars>>

\* Slip: is_ready() looks for the trigger, which rcl_wait has consumed.
BugReady(s) == guard[s]

\* is_ready() is has_data(), whatever the wait set says.
Ready(s) == queue[s] # <<>>

\* A ready waitable whose group is taken is passed over, its trigger is spent.
Asked(t) ==
  /\ At(t, "ask")
  /\ IF Ready(hand[t].sub) /\ Group(hand[t].sub) \notin busy
     THEN Goto(t, "take") /\ UNCHANGED hand
     ELSE Goto(t, "scan") /\ Holds(t, Nobody, 0)
  /\ UNCHANGED <<config, chanVars, poller, mutex, collected, refused, notified, scan, busy,
                 waitVars, userVars>>

\* Slip: take_data() leaves the receiving to execute(), outside of the mutex.
BugTakeData(t) ==
  /\ At(t, "take") /\ mutex = t
  /\ busy' = IF Exclusive(hand[t].sub) THEN busy \union {Group(hand[t].sub)} ELSE busy
  /\ mutex' = Nobody
  /\ UNCHANGED <<config, chanVars, poller, collected, refused, notified, scan, pc, hand,
                 waitVars, userVars>>

\* take_data(): one sample, null when it does not parse or the user has it; then
\* the executor marks the group and lets the next thread look.
TakeData(t) ==
  /\ At(t, "take")
  /\ LET s == hand[t].sub
     IN /\ \/ /\ Receive(s)
              /\ Holds(t, s, IF Head(queue[s]) \in Foreign THEN 0 ELSE Head(queue[s]))
           \/ queue[s] = <<>> /\ UNCHANGED <<queue, hand>>
        /\ busy' = IF Exclusive(s) THEN busy \union {Group(s)} ELSE busy
  /\ mutex' = Nobody /\ Goto(t, "execute")
  /\ UNCHANGED <<config, calls, event, guard, poller, collected, refused, notified, scan,
                 waitVars, userVars>>

\* execute(): runs the callback if there is a message and a callback.
Execute(t) ==
  /\ At(t, "execute") /\ Goto(t, "callback")
  /\ LET s == hand[t].sub n == hand[t].num
     IN \/ n = 0 /\ UNCHANGED userVars
        \/ n # 0 /\ config[s].callback /\ HandOver(s, n) /\ UNCHANGED discarded
        \/ /\ n # 0 /\ ~config[s].callback
           /\ discarded' = discarded \union {s} /\ UNCHANGED handed
  /\ UNCHANGED <<config, chanVars, poller, mutex, collected, refused, notified, scan, busy,
                 hand, waitVars>>

\* The group is free again, and the executor looks for what it passed over.
CallbackDone(t) ==
  /\ At(t, "callback") /\ Goto(t, "idle") /\ Holds(t, Nobody, 0)
  /\ busy' = busy \ {Group(hand[t].sub)}
  /\ notified' = (notified \/ Exclusive(hand[t].sub))
  /\ UNCHANGED <<config, chanVars, poller, mutex, collected, refused, scan, waitVars, userVars>>

\* Everything but the wake-ups nothing in this system guarantees.
ThreadRuns(t) ==
  \/ Enter(t) \/ ScanDone(t) \/ Collect(t) \/ Woken(t)
  \/ (\E s \in Subscriptions : Ask(t, s)) \/ Asked(t)
  \/ TakeData(t) \/ Execute(t) \/ CallbackDone(t)

-------------------------------------------------------------------------------
(* A user with a WaitSet (the wait set example): add_waitable of a          *)
(* subscription without callback, then wait() and "while (take(msg))".      *)

\* The flag of the waitable after w has let go of the pointer get_waitable()
\* gave: every call returns the same waitable_ptr_, whose deleter clears the flag
\* only when the subscription goes.
\* Slip: a pointer of its own for every call, whose deleter runs at once, the wait
\* set keeping a weak pointer.
BugFlagAfterAdd == FALSE

FlagAfterAdd == TRUE

\* add_waitable throws if the waitable is in use: nothing changes then.
AddWaitable(w, s) ==
  /\ ~config[s].callback /\ member[w] = Nobody /\ ~inUse[s]
  /\ member' = [member EXCEPT ![w] = s]
  /\ inUse' = [inUse EXCEPT ![s] = FlagAfterAdd]
  /\ UNCHANGED <<config, chanVars, poller, execVars, reading, userVars>>

\* The wait set goes without a word to its waitables; the flag stays.
DestroyWaitSet(w) ==
  /\ member[w] # Nobody /\ w \notin reading
  /\ member' = [member EXCEPT ![w] = Nobody]
  /\ UNCHANGED <<config, chanVars, poller, execVars, inUse, reading, userVars>>

UserWoken(w) ==
  /\ member[w] # Nobody /\ w \notin reading /\ guard[member[w]]
  /\ guard' = [guard EXCEPT ![member[w]] = FALSE]
  /\ reading' = reading \union {w}
  /\ UNCHANGED <<config, calls, queue, event, poller, execVars, inUse, member, userVars>>

\* take() returns false on a payload that does not parse: the loop ends.
UserTake(w) ==
  /\ w \in reading
  /\ LET s == member[w]
     IN /\ Receive(s) /\ HandOver(s, Head(queue[s]))
        /\ reading' = IF Head(queue[s]) \in Foreign THEN reading \ {w} ELSE reading
  /\ UNCHANGED <<config, calls, event, guard, poller, execVars, inUse, member, discarded>>

UserDone(w) ==
  /\ w \in reading /\ queue[member[w]] = <<>>
  /\ reading' = reading \ {w}
  /\ UNCHANGED <<config, chanVars, poller, execVars, inUse, member, userVars>>

UserNext(w) ==
  \/ (\E s \in Subscriptions : AddWaitable(w, s)) \/ DestroyWaitSet(w)
  \/ UserWoken(w) \/ UserTake(w) \/ UserDone(w)

-------------------------------------------------------------------------------
\* The exception leaves the executor's thread and takes the process with it.
Refused == refused /\ UNCHANGED vars

Next ==
  \/ /\ ~refused
     /\ \/ Publish \/ PollNext
        \/ \E t \in Threads : ThreadRuns(t) \/ OtherWork(t)
        \/ \E w \in WaitSets : UserNext(w)
  \/ Refused

Spec == Init /\ [][Next]_vars

\* Callbacks return; nothing makes a user publish, add, wait or take.
FairSpec ==
  /\ Spec /\ WF_vars(~refused /\ PollNext)
  /\ \A t \in Threads : WF_vars(~refused /\ ThreadRuns(t))

-------------------------------------------------------------------------------
Hand == [sub : Subscriptions \union {Nobody}, num : 0..MaxCalls]

\* The wait mutex is held exactly by the thread that looks for work, and what the
\* threads have in hand is a waitable of the executor's wait set.
TypeOK ==
  /\ config \in Configs /\ calls \in 0..MaxCalls
  /\ queue \in [Subscriptions -> Seq(1..MaxCalls)]
  /\ \A s \in Subscriptions : Len(queue[s]) <= QueueDepth
  /\ event \in [Subscriptions -> BOOLEAN] /\ guard \in [Subscriptions -> BOOLEAN]
  /\ poller \in Subscriptions \union {Nobody}
  /\ collected \subseteq Spun /\ scan \subseteq collected
  /\ refused \in BOOLEAN /\ notified \in BOOLEAN
  /\ pc \in [Threads -> ThreadStates] /\ hand \in [Threads -> Hand]
  /\ \A t \in Threads :
       /\ mutex = t <=> pc[t] \in {"scan", "ask", "take", "collect", "wait"}
       /\ pc[t] \in {"ask", "take", "execute", "callback"} => hand[t].sub \in collected
  /\ inUse \in [Subscriptions -> BOOLEAN]
  /\ member \in [WaitSets -> Subscriptions \union {Nobody}]
  /\ reading \subseteq {w \in WaitSets : member[w] # Nobody}
  /\ handed \in [Subscriptions -> Seq(1..MaxCalls)]
  /\ discarded \subseteq Subscriptions

\* Who is inside the subscriber port of s: its has_samples() or its receive().
Receivers(s) ==
  {t \in Threads : hand[t].sub = s /\ pc[t] \in {"ask", "take"}}
    \union {w \in reading : member[w] = s}
    \union {x \in {poller} : x = s}

\* Without callback and in a group an executor spins: what the polling example
\* creates its group with automatically_add = false to avoid.
Misused(s) == ~config[s].callback /\ config[s].group \in {"exclusive", "reentrant"}

\* has_data() and take_payload() use the subscriber of iceoryx2 with no lock, and
\* its ports are not for two threads at once: the mode override, the guard of
\* drain_pending_payloads, the executor's mutex and the waitable's flag together
\* keep every other thread out, unless the subscription is misused.
OneReceiver ==
  \A s \in Subscriptions : ~Misused(s) => \A x, y \in Receivers(s) : x = y

\* No waitable is in two wait sets, the executor's included: the second would lose
\* the triggers the first consumes.
OneWaitSet ==
  \A w \in WaitSets :
    /\ member[w] \notin collected
    /\ \A v \in WaitSets : member[v] = member[w] => v = w \/ member[w] = Nobody

\* The executor throws a message away, or meets a waitable a user has taken, only
\* for a misused subscription: "stealing messages or causing WaitSet conflicts".
OnlyMisuseConflicts ==
  /\ \A s \in discarded : Misused(s)
  /\ refused => \E s \in Subscriptions : Misused(s) /\ inUse[s]

\* A MultiThreadedExecutor leaves no sample of a mutually exclusive group behind:
\* when it blocks, whatever is queued is announced or its group is at work, though
\* the trigger may have been spent while the group was taken.  (FlatPull shows
\* that a SingleThreadedExecutor does leave samples.)
ExecutorDrains ==
  (~Triggered /\ \E t \in Threads : pc[t] = "wait") =>
    \A s \in collected :
      queue[s] # <<>> /\ Exclusive(s) => event[s] \/ Group(s) \in busy

\* Two callbacks of a reentrant group may overtake each other, and what it leaves
\* queued nobody announces: no interrupt follows its callbacks.
Steady(s) == Exclusive(s) \/ s \notin Spun

\* Whatever a callback was created with, somebody serves it: once the publisher
\* rests, its queue empties.
CallbackServed ==
  \A s \in Subscriptions :
    config[s].callback /\ Steady(s) /\ Group(s) # "manual" /\ queue[s] # <<>>
      ~> queue[s] = <<>> \/ refused

LastOf(s) == IF handed[s] = <<>> THEN 0 ELSE handed[s][Len(handed[s])]

Channel == INSTANCE LatestWins
  WITH Publishers <- {Nobody},
       calls <- [p \in {Nobody} |-> calls],
       seen <- [s \in Subscriptions |->
                  [p \in {Nobody} |-> IF Steady(s) THEN LastOf(s) ELSE 0]],
       got <- [s \in Subscriptions |->
                 [p \in {Nobody} |-> IF Steady(s) THEN Len(handed[s]) ELSE 0]]

\* Whoever receives, and also when several threads take turns, the user gets each
\* sample at most once and in the order sent.
ImplementsLatestWins == Channel!Spec
===============================================================================
