------------------------------- MODULE FlatPull --------------------------------
(***************************************************************************)
(* The consumers of WaitSetPull subscriptions, composed with FlatChannel:  *)
(*                                                                         *)
(*  - polling: a thread of the user that waits for the guard condition     *)
(*    (wait_for_data) and then calls take() until it returns false;        *)
(*  - executor: the single-threaded executor of rclcpp, which collects the *)
(*    waitables (FlatSubscriptionWaitable), waits for their guard          *)
(*    conditions and, once woken, gives each waitable that is_ready() one  *)
(*    take_data() and one execute().                                       *)
(*                                                                         *)
(* The poll thread only triggers the guard condition of these              *)
(* subscriptions.  rclcpp's part is modelled from how the code uses it.    *)
(***************************************************************************)
EXTENDS FlatChannel

VARIABLES
  spun,     \* pull subscriptions whose callback group an executor spins
  polling,  \* the polled subscriptions inside their loop of take()
  added,    \* subscriptions whose waitable the node has
  notified, \* add_waitable has interrupted the executor
  exec,     \* the executor thread, see ExecStates
  waitSet,  \* subscriptions whose guard condition is in rcl's wait set
  scan,     \* waitables the executor has still to ask after a wake-up
  current,  \* [sub, pub, num]: what the executor has in hand, or Nothing
  dropped   \* subscriptions the user dropped while the executor runs their callback

execVars == <<exec, waitSet, scan, current, dropped>>
pullVars == <<spun, polling, added, notified, execVars>>
allVars == <<vars, pullVars>>

Polled == PullSubscriptions \ spun

ExecStates ==
  {"collect",   \* filling the wait set: add_to_wait_set of every waitable
   "wait",      \* in rcl_wait
   "scan",      \* next_ready_waitable
   "take",      \* is_ready() held for current.sub; take_data() is next
   "execute",   \* a message in hand; execute() is next
   "callback",  \* in the user callback, holding the subscription
   "stopped"}

InHand(s, p, n) == [sub |-> s, pub |-> p, num |-> n]
None == InHand(NoTask, NoTask, 0)

PullInit ==
  /\ Init
  /\ spun \in SUBSET PullSubscriptions
  /\ polling = {} /\ added = {} /\ notified = FALSE /\ waitSet = {} /\ scan = {}
  /\ current = None /\ dropped = {}
  /\ exec = IF spun = {} THEN "stopped" ELSE "collect"

\* receive(): the oldest sample of connection p leaves the queue of s.
Receive(s, p) ==
  /\ queue[s][p] # <<>>
  /\ queue' = [queue EXCEPT ![s][p] = Tail(@)]

-------------------------------------------------------------------------------
(* The polling thread.  It owns the pointer: no Reset while it is in its loop. *)

\* wait_for_data returns true: the temporary WaitSet consumed the trigger.  A
\* timeout leaves everything as it was.
PollingWoken(s) ==
  /\ stage[s] = "active" /\ s \notin polling /\ guard[s]
  /\ guard' = [guard EXCEPT ![s] = FALSE]
  /\ polling' = polling \union {s}
  /\ UNCHANGED <<pubVars, dataVars, subVars, userVars, nodeVars, pollVars,
                 spun, added, notified, execVars>>

\* The consumer stops: nothing announces what it leaves in the queues.
Overlooked(s) ==
  missed' = [missed EXCEPT ![s] = {p \in Publishers : queue'[s][p] # <<>>}]

\* Slip: "if (take(msg))" instead of "while".
BugPollingTake(s, p) ==
  /\ s \in polling /\ Receive(s, p)
  /\ HandOver(s, p, Head(queue[s][p]))
  /\ polling' = polling \ {s}
  /\ UNCHANGED <<pubVars, missed, event, guard, subVars, nodeVars, pollVars,
                 spun, added, notified, execVars>>

\* take(): an empty or foreign sample is consumed and take() returns false, as
\* it does when nothing is left; either ends the loop.
PollingTake(s, p) ==
  /\ s \in polling /\ Receive(s, p)
  /\ HandOver(s, p, Head(queue[s][p]))
  /\ IF Head(queue[s][p]).body = "valid"
     THEN UNCHANGED <<polling, missed>>
     ELSE polling' = polling \ {s} /\ Overlooked(s)
  /\ UNCHANGED <<pubVars, event, guard, subVars, nodeVars, pollVars,
                 spun, added, notified, execVars>>

PollingDone(s) ==
  /\ s \in polling /\ queue[s] = Empty
  /\ polling' = polling \ {s}
  /\ missed' = [missed EXCEPT ![s] = {}]
  /\ UNCHANGED <<pubVars, queue, event, guard, subVars, userVars, nodeVars, pollVars,
                 spun, added, notified, execVars>>

PollingReceiveError(s) ==
  /\ s \in polling
  /\ polling' = polling \ {s}
  /\ UNCHANGED queue /\ Overlooked(s)
  /\ UNCHANGED <<pubVars, event, guard, subVars, userVars, nodeVars, pollVars,
                 spun, added, notified, execVars>>

PollingStep(s) ==
  \/ PollingWoken(s) \/ (\E p \in Publishers : PollingTake(s, p))
  \/ PollingDone(s) \/ PollingReceiveError(s)

-------------------------------------------------------------------------------
(* The executor thread.                                                    *)

\* add_to_wait_set of every waitable whose subscription is alive: the wait set
\* keeps the address of the guard condition, nobody keeps the guard condition.
ExecCollect ==
  /\ exec = "collect" /\ ok
  /\ exec' = "wait"
  /\ waitSet' = {s \in added : stage[s] = "active"}
  /\ UNCHANGED <<vars, spun, polling, added, notified, scan, current, dropped>>

\* rcl_wait returns and has consumed every trigger in the wait set.
WaitReturns ==
  /\ exec = "wait"
  /\ exec' = "scan" /\ scan' = waitSet /\ notified' = FALSE
  /\ guard' = [s \in Subscriptions |-> guard[s] /\ s \notin waitSet]
  /\ UNCHANGED <<pubVars, dataVars, subVars, userVars, nodeVars, pollVars,
                 spun, polling, added, waitSet, current, dropped>>

Triggered == notified \/ \E s \in waitSet : guard[s]

ExecWoken == Triggered /\ WaitReturns

\* A timer or another entity of the node wakes the executor.
ExecOtherWork == ~Triggered /\ WaitReturns

\* Slip: is_ready() asks the guard condition, whose trigger rcl_wait has consumed.
BugExecAsk(s) ==
  /\ exec = "scan" /\ s \in scan
  /\ scan' = scan \ {s}
  /\ IF stage[s] = "active" /\ queue[s] # Empty /\ guard[s]
     THEN exec' = "take" /\ current' = InHand(s, NoTask, 0)
     ELSE UNCHANGED <<exec, current>>
  /\ UNCHANGED <<vars, spun, polling, added, notified, waitSet, dropped>>

\* is_ready(): the subscription is alive and has_data().
ExecAsk(s) ==
  /\ exec = "scan" /\ s \in scan
  /\ scan' = scan \ {s}
  /\ IF stage[s] = "active" /\ queue[s] # Empty
     THEN exec' = "take" /\ current' = InHand(s, NoTask, 0)
     ELSE UNCHANGED <<exec, current>>
  /\ UNCHANGED <<vars, spun, polling, added, notified, waitSet, dropped>>

\* has_samples() reports an error, which has_data turns into "no data".
ExecAskError(s) ==
  /\ exec = "scan" /\ s \in scan /\ stage[s] = "active"
  /\ scan' = scan \ {s}
  /\ UNCHANGED queue /\ Overlooked(s)
  /\ UNCHANGED <<pubVars, event, guard, subVars, userVars, nodeVars, pollVars,
                 spun, polling, added, notified, exec, waitSet, current, dropped>>

\* Slip: take_data() reads the newest sample and leaves the others.
BugExecTake(p) ==
  /\ exec = "take" /\ stage[current.sub] = "active" /\ queue[current.sub][p] # <<>>
  /\ LET q == queue[current.sub][p]
         sample == q[Len(q)]
     IN /\ queue' = [queue EXCEPT ![current.sub][p] = SubSeq(q, 1, Len(q) - 1)]
        /\ IF sample.body = "valid"
           THEN exec' = "execute" /\ current' = InHand(current.sub, p, sample.num)
           ELSE exec' = "scan" /\ current' = None
  /\ UNCHANGED <<pubVars, missed, event, guard, subVars, userVars, nodeVars, pollVars,
                 spun, polling, added, notified, waitSet, scan, dropped>>

\* take_data(): one sample; null, and no callback, when it does not parse.
ExecTake(p) ==
  /\ exec = "take" /\ stage[current.sub] = "active" /\ Receive(current.sub, p)
  /\ LET sample == Head(queue[current.sub][p])
     IN IF sample.body = "valid"
        THEN exec' = "execute" /\ current' = InHand(current.sub, p, sample.num)
        ELSE exec' = "scan" /\ current' = None
  /\ UNCHANGED <<pubVars, missed, event, guard, subVars, userVars, nodeVars, pollVars,
                 spun, polling, added, notified, waitSet, scan, dropped>>

\* Slip: the waitable stays in hand.
BugExecTakeNothing ==
  /\ exec = "take"
  /\ stage[current.sub] # "active" \/ queue[current.sub] = Empty
  /\ exec' = "scan"
  /\ UNCHANGED <<vars, spun, polling, added, notified, waitSet, scan, current, dropped>>

\* ... null also when the subscription is gone or the samples are.
ExecTakeNothing ==
  /\ exec = "take"
  /\ stage[current.sub] # "active" \/ queue[current.sub] = Empty
  /\ exec' = "scan" /\ current' = None
  /\ UNCHANGED <<vars, spun, polling, added, notified, waitSet, scan, dropped>>

\* Slip: execute() keeps a plain pointer to the subscription.
BugExecExecute ==
  /\ exec = "execute" /\ exec' = "callback"
  /\ HandOver(current.sub, current.pub, [num |-> current.num, body |-> "valid"])
  /\ UNCHANGED <<pubVars, dataVars, guard, subVars, nodeVars, pollVars,
                 spun, polling, added, notified, waitSet, scan, current, dropped>>

\* execute(): the message is lost if the subscription went since take_data().
ExecExecute ==
  /\ exec = "execute"
  /\ IF stage[current.sub] = "active"
     THEN /\ exec' = "callback" /\ UNCHANGED current
          /\ HandOver(current.sub, current.pub, [num |-> current.num, body |-> "valid"])
     ELSE exec' = "scan" /\ current' = None /\ UNCHANGED userVars
  /\ UNCHANGED <<pubVars, dataVars, guard, subVars, nodeVars, pollVars,
                 spun, polling, added, notified, waitSet, scan, dropped>>

\* The callback returns; the executor may let go of the last SharedPtr.
ExecCallbackDone ==
  /\ exec = "callback"
  /\ exec' = "scan" /\ current' = None
  /\ IF current.sub \in dropped
     THEN Reset(current.sub)
     ELSE UNCHANGED vars
  /\ dropped' = dropped \ {current.sub}
  /\ UNCHANGED <<spun, polling, added, notified, waitSet, scan>>

ExecScanDone ==
  /\ exec = "scan" /\ scan = {}
  /\ exec' = "collect" /\ waitSet' = {}
  /\ UNCHANGED <<vars, spun, polling, added, notified, scan, current, dropped>>

\* spin() ends with the context.
ExecStop ==
  /\ ~ok /\ exec \in {"collect", "wait"}
  /\ exec' = "stopped" /\ waitSet' = {}
  /\ UNCHANGED <<vars, spun, polling, added, notified, scan, current, dropped>>

\* Everything but the wake-ups nothing in this system guarantees.
ExecRuns ==
  \/ ExecCollect \/ ExecWoken
  \/ (\E s \in spun : ExecAsk(s) \/ ExecAskError(s))
  \/ (\E p \in Publishers : ExecTake(p)) \/ ExecTakeNothing
  \/ ExecExecute \/ ExecCallbackDone \/ ExecScanDone \/ ExecStop

-------------------------------------------------------------------------------
(* The composition: a step of the channel, except that a Reset waits for the *)
(* consumer that shares the subscription.                                  *)

InCallback(s) == exec = "callback" /\ current.sub = s

\* The user's pointer goes, the executor's stays until the callback returns.
DropDuringCallback(s) ==
  /\ InCallback(s) /\ s \notin dropped
  /\ dropped' = dropped \union {s}
  /\ UNCHANGED <<vars, spun, polling, added, notified, exec, waitSet, scan, current>>

\* create_flat_subscription ends with add_waitable, which interrupts the executor.
AddWaitable(s) ==
  /\ stage[s] = "active" /\ s \notin added
  /\ added' = added \union {s} /\ notified' = TRUE
  /\ UNCHANGED <<vars, spun, polling, execVars>>

\* create_flat_subscription has returned.
Created(s) == s \in spun => stage[s] # "active" \/ s \in added

ChannelStep ==
  /\ \/ PublisherNext \/ PollNext \/ Join \/ Shutdown
     \/ DropNode /\ \A s \in Subscriptions : Created(s)
     \/ \E s \in Subscriptions :
          \/ CreateSubscriber(s) \/ LibraryRuns(s)
          \/ Reset(s) /\ Created(s) /\ s \notin polling /\ ~InCallback(s)
  /\ UNCHANGED pullVars

PullNext ==
  \/ Alive /\ \/ ChannelStep
              \/ \E s \in Polled : PollingStep(s)
              \/ ExecRuns \/ ExecOtherWork
              \/ \E s \in spun : AddWaitable(s) \/ DropDuringCallback(s)
  \/ Terminated /\ UNCHANGED pullVars

PullSpec == PullInit /\ [][PullNext]_allVars

\* The user keeps polling (the timers of the examples) and the executor spinning.
PullFairSpec ==
  /\ PullSpec /\ Fairness
  /\ \A s \in PullSubscriptions : WF_allVars(Alive /\ s \in Polled /\ PollingStep(s))
  /\ WF_allVars(Alive /\ ExecRuns)
  /\ \A s \in PullSubscriptions : WF_allVars(Alive /\ s \in spun /\ AddWaitable(s))

-------------------------------------------------------------------------------
\* The executor has one waitable in hand exactly while it serves it, and only a
\* subscription whose callback runs can be dropped under it.
PullTypeOK ==
  /\ spun \subseteq PullSubscriptions /\ polling \subseteq Polled
  /\ added \subseteq spun /\ waitSet \subseteq added /\ scan \subseteq waitSet
  /\ exec \in {"collect", "wait", "stopped"} => scan = {}
  /\ notified \in BOOLEAN /\ exec \in ExecStates
  /\ CASE exec = "take" ->
            \E s \in spun : current = InHand(s, NoTask, 0)
       [] exec \in {"execute", "callback"} ->
            \E s \in spun, p \in Publishers, n \in 1..MaxCalls : current = InHand(s, p, n)
       [] OTHER -> current = None
  /\ dropped \subseteq {s \in spun : InCallback(s)}

\* Something will still trigger the guard condition of s for the samples of p, or
\* nothing ever announced them.
Announced(s, p) ==
  \/ p \in toNotify \/ event[s] \/ guard[s] \/ p \in missed[s]
  \/ task = s /\ pc = "trigger"
  \/ Dying(s)

\* A polled subscription whose loop of take() is over has nothing left to read
\* unless a new wake-up is under way: the loop "while (take(msg))" reads all a
\* wake-up stands for, whatever arrives between the consumption of the trigger
\* and the last take().  Only a payload that take() refuses ends it earlier.
PollingNeverStalls ==
  \A s \in Polled \ polling, p \in Publishers : queue[s][p] # <<>> => Announced(s, p)

\* The same of the executor: when it blocks, no waitable has data that no wake-up
\* announces.  take() says that "backlogged samples stay queued and are drained
\* by subsequent calls"; the waitable makes one call per trigger.
ExecutorNeverStalls ==
  exec = "wait" =>
    \A s \in waitSet, p \in Publishers : queue[s][p] # <<>> => Announced(s, p)

\* While rcl_wait blocks on a guard condition, its owner is alive: the
\* FlatSubscription "degrades to not-ready/no-data instead of undefined behavior".
WaitSetGuardsAlive ==
  exec = "wait" => \A s \in waitSet : stage[s] # "closed"

\* The executor runs a callback only of a subscription it keeps alive, through
\* drops by the user and dispatches by the poll thread.
CallbackHoldsSubscription ==
  /\ exec = "callback" => stage[current.sub] = "active"
  /\ \A s \in polling : stage[s] = "active"

\* With one publisher, an announced backlog loses its oldest sample at least: every
\* trigger reaches a take of whoever consumes the subscription, however it
\* interleaves with the loop of the executor or of the polling thread.
TriggerReachesTake ==
  \A s \in PullSubscriptions, p \in Publishers, n \in 1..MaxCalls :
    guard[s] /\ queue[s][p] # <<>> /\ Head(queue[s][p]).num = n
      ~> \/ ~Queued(s, p, n) \/ p \in missed[s] \/ stage[s] # "active" \/ ~ok
         \/ s \in dropped

\* A polled subscription reads, or has overwritten, every sample announced to it.
PollingDelivery ==
  \A s \in PullSubscriptions, p \in Publishers, n \in 1..MaxCalls :
    s \in Polled /\ Queued(s, p, n) /\ s \in registered /\ ok
      ~> ~Queued(s, p, n) \/ p \in missed[s] \/ s \notin registered \/ ~ok
===============================================================================
