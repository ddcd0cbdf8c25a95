---------------------------- MODULE FlatPullProofs -----------------------------
(***************************************************************************)
(* What holds of FlatPull for every number of publishers and subscriptions, *)
(* polled or spun, every buffer depth and every bound on the calls.  A step *)
(* is one of the channel, for which the lemmas of FlatChannelProofs speak,  *)
(* or one of a consumer.                                                    *)
(***************************************************************************)
EXTENDS FlatPull, FlatChannelProofs

\* The drain never takes the samples of a pull subscription.
DrainInv == pc = "drain" => task \notin PullSubscriptions

\* What the executor has taken and not yet handed over is newer than all the
\* callback has had, and older than all that is still queued.
HandInv ==
  \A s \in Subscriptions, p \in Publishers, n \in 1..MaxCalls :
    exec = "execute" /\ current = InHand(s, p, n) =>
      seen[s][p] < n /\ n <= calls[p] /\ InOrder(queue[s][p], n, calls[p])

-------------------------------------------------------------------------------
\* receive() yields a sample and leaves a buffer.
LEMMA ReceiveIsTyped ==
  ASSUME TypeOK, NEW s \in Subscriptions, NEW p \in Publishers, Receive(s, p)
  PROVE  /\ Head(queue[s][p]) \in Sample
         /\ queue' \in [Subscriptions -> [Publishers -> Seq(Sample)]]
         /\ \A r \in Subscriptions, o \in Publishers : Len(queue'[r][o]) <= QueueDepth
<1>1. /\ queue[s][p] \in Seq(Sample) /\ queue[s][p] # <<>>
      /\ Len(queue[s][p]) <= QueueDepth
  BY DEF Receive, TypeOK, DataTypeOK
<1>2. /\ Head(queue[s][p]) \in Sample
      /\ Tail(queue[s][p]) \in Seq(Sample)
      /\ Len(Tail(queue[s][p])) <= QueueDepth
  BY <1>1, DepthAssumption
<1> QED BY <1>2 DEF Receive, TypeOK, DataTypeOK

\* Handing over a sample keeps what the user has seen representable.
LEMMA HandOverIsTyped ==
  ASSUME TypeOK, NEW s \in Subscriptions, NEW p \in Publishers, NEW sample,
         sample.num \in 0..MaxCalls, HandOver(s, p, sample)
  PROVE  /\ seen' \in [Subscriptions -> [Publishers -> 0..MaxCalls]]
         /\ got' \in [Subscriptions -> [Publishers -> Nat]]
<1>1. /\ seen \in [Subscriptions -> [Publishers -> 0..MaxCalls]]
      /\ got \in [Subscriptions -> [Publishers -> Nat]]
  BY DEF TypeOK, DataTypeOK
<1>2. CASE sample.body = "valid"
  <2>1. /\ seen' = [seen EXCEPT ![s][p] = sample.num]
        /\ got' = [got EXCEPT ![s][p] = @ + 1]
    BY <1>2 DEF HandOver
  <2>2. seen' \in [Subscriptions -> [Publishers -> 0..MaxCalls]]
    BY <1>1, <2>1
  <2>3. got' \in [Subscriptions -> [Publishers -> Nat]]
    BY <1>1, <2>1
  <2> QED BY <2>2, <2>3
<1>3. CASE sample.body # "valid"
  BY <1>1, <1>3 DEF HandOver, userVars
<1> QED BY <1>2, <1>3

\* The waitable in hand is of a spun subscription; past take_data() there is a
\* sample of a publisher with it.
LEMMA HandIsTyped ==
  ASSUME PullTypeOK
  PROVE  /\ exec \in {"take", "execute", "callback"} =>
              current.sub \in spun /\ current.sub \in Subscriptions
         /\ exec \in {"execute", "callback"} =>
              /\ current.pub \in Publishers /\ current.num \in 1..MaxCalls
              /\ current = InHand(current.sub, current.pub, current.num)
BY PullAssumption DEF PullTypeOK, InHand

-------------------------------------------------------------------------------
\* A step of the composition is one of the channel, or a consumer's.
LEMMA StepOfWhom ==
  ASSUME [PullNext]_allVars
  PROVE  \/ UNCHANGED allVars
         \/ UNCHANGED vars /\ UNCHANGED pullVars
         \/ Alive /\ ChannelStep
         \/ \E s \in Polled : PollingStep(s)
         \/ ExecCollect \/ WaitReturns
         \/ \E s \in spun : ExecAsk(s) \/ ExecAskError(s)
         \/ \E p \in Publishers : ExecTake(p)
         \/ ExecTakeNothing \/ ExecExecute
         \/ Alive /\ ExecCallbackDone
         \/ ExecScanDone \/ ExecStop
         \/ \E s \in spun : AddWaitable(s) \/ DropDuringCallback(s)
BY DEF PullNext, ExecRuns, ExecWoken, ExecOtherWork, Terminated

\* A step of the channel in the composition is one of the channel alone.
LEMMA ChannelStepIsNext == Alive /\ ChannelStep => Next /\ UNCHANGED pullVars
BY DEF ChannelStep, Next, UserNext

\* So is what the end of a callback does to it.
LEMMA CallbackDoneIsNext ==
  ASSUME PullTypeOK, Alive, ExecCallbackDone
  PROVE  [Next]_vars
BY HandIsTyped DEF ExecCallbackDone, Next, UserNext

\* Consumers keep the channel's state representable.
LEMMA ConsumersKeepTypeOK ==
  ASSUME TypeOK, PullTypeOK, [PullNext]_allVars
  PROVE  TypeOK'
<1> USE PullAssumption DEF pubVars, dataVars, userVars, subVars, nodeVars, pollVars
<1>1. ASSUME UNCHANGED vars PROVE TypeOK'
  BY <1>1, TypeStep
<1>2. ASSUME Alive, ChannelStep PROVE TypeOK'
  BY <1>2, ChannelStepIsNext, TypeStep
<1>3. ASSUME Alive, ExecCallbackDone PROVE TypeOK'
  BY <1>3, CallbackDoneIsNext, TypeStep
<1>4. ASSUME NEW s \in Polled, PollingStep(s) PROVE TypeOK'
  <2>1. s \in Subscriptions
    BY DEF Polled
  <2>2. CASE PollingWoken(s)
    BY <2>1, <2>2 DEF PollingWoken, TypeOK, DataTypeOK, LifeTypeOK, PollTypeOK
  <2>3. ASSUME NEW p \in Publishers, PollingTake(s, p) PROVE TypeOK'
    <3>1. /\ Head(queue[s][p]) \in Sample
          /\ queue' \in [Subscriptions -> [Publishers -> Seq(Sample)]]
          /\ \A r \in Subscriptions, o \in Publishers : Len(queue'[r][o]) <= QueueDepth
      BY <2>1, <2>3, ReceiveIsTyped DEF PollingTake
    <3>2. Head(queue[s][p]).num \in 0..MaxCalls
      BY <3>1, BoundAssumption DEF Sample
    <3>3. /\ seen' \in [Subscriptions -> [Publishers -> 0..MaxCalls]]
          /\ got' \in [Subscriptions -> [Publishers -> Nat]]
      BY <2>1, <2>3, <3>2, HandOverIsTyped DEF PollingTake
    <3>4. missed' \in [Subscriptions -> SUBSET Publishers]
      <4>1. missed \in [Subscriptions -> SUBSET Publishers]
        BY DEF TypeOK, DataTypeOK
      <4>2. missed' = missed \/ Overlooked(s)
        BY <2>3 DEF PollingTake
      <4> QED BY <2>1, <4>1, <4>2 DEF Overlooked
    <3> QED BY <2>3, <3>1, <3>3, <3>4 DEF PollingTake, TypeOK, DataTypeOK, LifeTypeOK,
          PollTypeOK
  <2>4. CASE PollingDone(s)
    BY <2>1, <2>4 DEF PollingDone, TypeOK, DataTypeOK, LifeTypeOK, PollTypeOK
  <2>5. CASE PollingReceiveError(s)
    BY <2>1, <2>5 DEF PollingReceiveError, Overlooked, TypeOK, DataTypeOK, LifeTypeOK,
         PollTypeOK
  <2> QED BY <1>4, <2>2, <2>3, <2>4, <2>5 DEF PollingStep
<1>5. ASSUME WaitReturns PROVE TypeOK'
  BY <1>5 DEF WaitReturns, TypeOK, DataTypeOK, LifeTypeOK, PollTypeOK
<1>6. ASSUME NEW s \in spun, ExecAskError(s) PROVE TypeOK'
  BY <1>6 DEF ExecAskError, Overlooked, TypeOK, DataTypeOK, LifeTypeOK, PollTypeOK,
       PullTypeOK
<1>7. ASSUME NEW p \in Publishers, ExecTake(p) PROVE TypeOK'
  <2>1. current.sub \in Subscriptions
    BY <1>7, HandIsTyped DEF ExecTake
  <2>2. /\ queue' \in [Subscriptions -> [Publishers -> Seq(Sample)]]
        /\ \A r \in Subscriptions, o \in Publishers : Len(queue'[r][o]) <= QueueDepth
    BY <1>7, <2>1, ReceiveIsTyped DEF ExecTake
  <2> QED BY <1>7, <2>2 DEF ExecTake, TypeOK, DataTypeOK, LifeTypeOK, PollTypeOK
<1>8. ASSUME ExecExecute PROVE TypeOK'
  <2>1. /\ current.sub \in Subscriptions /\ current.pub \in Publishers
        /\ current.num \in 0..MaxCalls
    BY <1>8, HandIsTyped, BoundAssumption DEF ExecExecute
  <2>2. CASE stage[current.sub] = "active"
    <3> DEFINE sample == [num |-> current.num, body |-> "valid"]
    <3>1. HandOver(current.sub, current.pub, sample) /\ sample.num \in 0..MaxCalls
      BY <1>8, <2>1, <2>2 DEF ExecExecute
    <3> HIDE DEF sample
    <3>2. /\ seen' \in [Subscriptions -> [Publishers -> 0..MaxCalls]]
          /\ got' \in [Subscriptions -> [Publishers -> Nat]]
      BY <2>1, <3>1, HandOverIsTyped
    <3> QED BY <1>8, <3>2 DEF ExecExecute, TypeOK, DataTypeOK, LifeTypeOK, PollTypeOK
  <2>3. CASE stage[current.sub] # "active"
    BY <1>8, <2>3 DEF ExecExecute, TypeOK, DataTypeOK, LifeTypeOK, PollTypeOK
  <2> QED BY <2>2, <2>3
<1> QED BY <1>1, <1>2, <1>3, <1>4, <1>5, <1>6, <1>7, <1>8, StepOfWhom DEF ExecCollect,
      ExecAsk, ExecTakeNothing, ExecScanDone, ExecStop, AddWaitable, DropDuringCallback,
      allVars

\* The executor has a waitable in hand exactly while it serves it.
LEMMA PullTypeStep ==
  ASSUME TypeOK, PullTypeOK, [PullNext]_allVars
  PROVE  PullTypeOK'
<1> USE DEF PullTypeOK, Polled, InCallback, ExecStates, pullVars, execVars, None, InHand
<1>1. ASSUME UNCHANGED pullVars PROVE PullTypeOK'
  BY <1>1
<1>2. ASSUME NEW s \in Polled, PollingStep(s) PROVE PullTypeOK'
  BY <1>2 DEF PollingStep, PollingWoken, PollingTake, PollingDone, PollingReceiveError
<1>3. ASSUME ExecCollect PROVE PullTypeOK'
  BY <1>3 DEF ExecCollect
<1>4. ASSUME WaitReturns PROVE PullTypeOK'
  BY <1>4 DEF WaitReturns
<1>5. ASSUME NEW s \in spun, ExecAsk(s) \/ ExecAskError(s) PROVE PullTypeOK'
  BY <1>5 DEF ExecAsk, ExecAskError
<1>6. ASSUME NEW p \in Publishers, ExecTake(p) PROVE PullTypeOK'
  <2>1. current.sub \in Subscriptions /\ current.sub \in spun
    BY <1>6, HandIsTyped DEF ExecTake
  <2>2. Head(queue[current.sub][p]).num \in 1..MaxCalls
    BY <1>6, <2>1, ReceiveIsTyped DEF ExecTake, Sample
  <2> QED BY <1>6, <2>1, <2>2 DEF ExecTake
<1>7. ASSUME ExecTakeNothing PROVE PullTypeOK'
  BY <1>7 DEF ExecTakeNothing
<1>8. ASSUME ExecExecute PROVE PullTypeOK'
  BY <1>8 DEF ExecExecute
<1>9. ASSUME ExecCallbackDone PROVE PullTypeOK'
  BY <1>9 DEF ExecCallbackDone
<1>10. ASSUME ExecScanDone \/ ExecStop PROVE PullTypeOK'
  BY <1>10 DEF ExecScanDone, ExecStop
<1>11. ASSUME NEW s \in spun, AddWaitable(s) \/ DropDuringCallback(s) PROVE PullTypeOK'
  BY <1>11 DEF AddWaitable, DropDuringCallback
<1> QED BY <1>1, <1>2, <1>3, <1>4, <1>5, <1>6, <1>7, <1>8, <1>9, <1>10, <1>11, StepOfWhom,
      ChannelStepIsNext DEF allVars

\* Type correctness of the composition: the channel's own invariant survives its
\* consumers, and the executor's state fits what it has in hand.
THEOREM PullTypeCorrect == PullSpec => [](TypeOK /\ PullTypeOK)
<1>1. PullInit => TypeOK /\ PullTypeOK
  BY TypeInit DEF PullInit, PullTypeOK, Polled, InCallback, ExecStates
<1>2. TypeOK /\ PullTypeOK /\ [PullNext]_allVars => TypeOK' /\ PullTypeOK'
  BY ConsumersKeepTypeOK, PullTypeStep
<1> QED BY <1>1, <1>2, PTL DEF PullSpec

-------------------------------------------------------------------------------
\* Only the drop of the last pointer ends the life of an active subscription, and
\* the composition has it wait for whoever shares the pointer.
LEMMA ActiveStays ==
  ASSUME TypeOK, NEW s \in Subscriptions, stage[s] = "active", Alive, ChannelStep,
         s \in polling \/ InCallback(s)
  PROVE  stage'[s] = "active"
<1> USE DEF TypeOK, LifeTypeOK, PollTypeOK, Dispatching, subVars
<1>1. CASE PublisherNext
  BY <1>1 DEF PublisherNext, Send, PublishFails, Notify, MissedNotify
<1>2. CASE PollNext
  BY <1>2 DEF PollNext, PollTop, PollWait, PollTimeout, PollLookup, PollBatchDone,
       PollLock, PollDrainEvents, PollTrigger, PollHook, PollTake, PollDrained,
       PollReceiveError, PollRelease, PollUnregister, PollClose, Detach, Destroy,
       OnlyPoll
<1>3. CASE Join \/ Shutdown \/ DropNode
  BY <1>3 DEF Join, Shutdown, DropNode
<1>4. ASSUME NEW r \in Subscriptions, CreateSubscriber(r) \/ LibraryRuns(r)
      PROVE  stage'[s] = "active"
  BY <1>4 DEF CreateSubscriber, LibraryRuns, CreateListener, ConstructionThrows, Attach,
       ActivateUnattached, Register, Unregister, Close, Detach, Destroy
<1>5. ASSUME NEW r \in Subscriptions, Reset(r), r \notin polling, ~InCallback(r)
      PROVE  stage'[s] = "active"
  BY <1>5 DEF Reset
<1> QED BY <1>1, <1>2, <1>3, <1>4, <1>5 DEF ChannelStep

\* Whoever runs user code on a subscription shares it: the polling thread in its
\* loop, the executor in the callback, whatever the user and the poll thread do.
THEOREM CallbackIsSafe == PullSpec => []CallbackHoldsSubscription
<1>1. PullInit => CallbackHoldsSubscription
  BY DEF PullInit, CallbackHoldsSubscription
<1>2. /\ CallbackHoldsSubscription /\ TypeOK /\ PullTypeOK /\ [PullNext]_allVars
      => CallbackHoldsSubscription'
  <2> SUFFICES ASSUME CallbackHoldsSubscription, TypeOK, PullTypeOK, [PullNext]_allVars
               PROVE  CallbackHoldsSubscription'
    OBVIOUS
  <2> USE PullAssumption DEF CallbackHoldsSubscription, PullTypeOK, Polled, pullVars,
            execVars, vars, subVars, InCallback
  <2>1. CASE UNCHANGED vars /\ UNCHANGED pullVars
    BY <2>1
  <2>2. ASSUME Alive, ChannelStep PROVE CallbackHoldsSubscription'
    <3>1. UNCHANGED pullVars
      BY <2>2, ChannelStepIsNext
    <3>2. \A s \in polling : stage'[s] = "active"
      BY <2>2, ActiveStays
    <3>3. exec = "callback" => stage'[current.sub] = "active"
      BY <2>2, HandIsTyped, ActiveStays
    <3> QED BY <3>1, <3>2, <3>3
  <2>3. ASSUME NEW s \in Polled, PollingStep(s) PROVE CallbackHoldsSubscription'
    BY <2>3 DEF PollingStep, PollingWoken, PollingTake, PollingDone, PollingReceiveError
  <2>4. CASE ExecCollect \/ WaitReturns
    BY <2>4 DEF ExecCollect, WaitReturns
  <2>5. ASSUME NEW s \in spun, ExecAsk(s) \/ ExecAskError(s)
        PROVE  CallbackHoldsSubscription'
    BY <2>5 DEF ExecAsk, ExecAskError
  <2>6. ASSUME NEW p \in Publishers, ExecTake(p) PROVE CallbackHoldsSubscription'
    BY <2>6 DEF ExecTake
  <2>7. CASE ExecTakeNothing
    BY <2>7 DEF ExecTakeNothing
  <2>8. CASE ExecExecute
    BY <2>8 DEF ExecExecute
  <2>9. CASE ExecCallbackDone
    <3>1. current.sub \in spun
      BY <2>9, HandIsTyped DEF ExecCallbackDone
    <3> QED BY <2>9, <3>1 DEF ExecCallbackDone, Reset, TypeOK, LifeTypeOK
  <2>10. CASE ExecScanDone \/ ExecStop
    BY <2>10 DEF ExecScanDone, ExecStop
  <2>11. ASSUME NEW s \in spun, AddWaitable(s) \/ DropDuringCallback(s)
         PROVE  CallbackHoldsSubscription'
    BY <2>11 DEF AddWaitable, DropDuringCallback
  <2> QED BY <2>1, <2>2, <2>3, <2>4, <2>5, <2>6, <2>7, <2>8, <2>9, <2>10, <2>11,
        StepOfWhom DEF allVars
<1> QED BY <1>1, <1>2, PullTypeCorrect, PTL DEF PullSpec

-------------------------------------------------------------------------------
\* The drain of CallbackPush is never entered for a pull subscription.
LEMMA DrainStep == DrainInv /\ TypeOK /\ [Next]_vars => DrainInv'
<1> SUFFICES ASSUME DrainInv, TypeOK, [Next]_vars PROVE DrainInv'
  OBVIOUS
<1> USE DEF DrainInv, pollVars, Goto
<1>1. CASE PollHook
  BY <1>1 DEF PollHook
<1>2. CASE UNCHANGED pollVars
  BY <1>2
<1>3. CASE pc' # "drain"
  BY <1>3
<1>4. PollNext => PollHook \/ UNCHANGED pollVars \/ pc' # "drain"
  BY DEF PollNext, PollTop, PollWait, PollTimeout, PollLookup, PollBatchDone, PollLock,
       PollDrainEvents, PollTrigger, PollTake, PollDrained, PollReceiveError,
       PollRelease, PollUnregister, PollClose
<1>5. PublisherNext \/ UserNext => UNCHANGED pollVars \/ pc' # "drain"
  BY DEF PublisherNext, Send, PublishFails, Notify, MissedNotify, UserNext,
       CreateSubscriber, LibraryRuns, CreateListener, ConstructionThrows, Attach,
       ActivateUnattached, Register, Reset, Unregister, Close, DropNode, Join, Shutdown
<1> QED BY <1>1, <1>2, <1>3, <1>4, <1>5 DEF Next, Terminated, vars

\* Nor does a consumer enter it.
LEMMA PullDrainStep ==
  ASSUME DrainInv, TypeOK, PullTypeOK, [PullNext]_allVars
  PROVE  DrainInv'
<1>1. ASSUME [Next]_vars PROVE DrainInv'
  BY <1>1, DrainStep
<1>2. ASSUME UNCHANGED pollVars PROVE DrainInv'
  BY <1>2 DEF DrainInv, pollVars
<1>3. ASSUME NEW s \in Polled, PollingStep(s) PROVE DrainInv'
  BY <1>2, <1>3 DEF PollingStep, PollingWoken, PollingTake, PollingDone,
       PollingReceiveError
<1>4. ASSUME Alive, ExecCallbackDone PROVE DrainInv'
  BY <1>1, <1>4, CallbackDoneIsNext
<1>5. ASSUME Alive, ChannelStep PROVE DrainInv'
  BY <1>1, <1>5, ChannelStepIsNext
<1> QED BY <1>1, <1>2, <1>3, <1>4, <1>5, StepOfWhom DEF WaitReturns, ExecAskError,
      ExecCollect, ExecAsk, ExecTake, ExecTakeNothing, ExecExecute, ExecScanDone,
      ExecStop, AddWaitable, DropDuringCallback, allVars, vars, pollVars

\* The samples of p that s has not received are announced.
AllAnnounced(s, p) == queue[s][p] # <<>> => Announced(s, p)

\* No step of the channel forgets a sample of a pull subscription: whatever
\* consumes one announcement leaves the next, or the queue goes.
LEMMA ChannelAnnounces ==
  ASSUME NEW s \in PullSubscriptions, NEW p \in Publishers, AllAnnounced(s, p), TypeOK,
         DrainInv, [Next]_vars
  PROVE  AllAnnounced(s, p)'
<1> USE PullAssumption DEF pubVars, dataVars, userVars, subVars, nodeVars, pollVars,
     AllAnnounced, Announced, Dying, DrainInv, DataTypeOK, TypeOK, LifeTypeOK,
     PollTypeOK, Dispatching
<1>1. ASSUME NEW o \in Publishers, NEW body \in Bodies, Send(o, body)
      PROVE  AllAnnounced(s, p)'
  BY <1>1 DEF Send
<1>2. ASSUME NEW o \in Publishers, PublishFails(o) PROVE AllAnnounced(s, p)'
  BY <1>2 DEF PublishFails
<1>3. ASSUME NEW o \in Publishers, Notify(o) PROVE AllAnnounced(s, p)'
  BY <1>3 DEF Notify, Unannounced
<1>4. ASSUME NEW o \in Publishers, MissedNotify(o) PROVE AllAnnounced(s, p)'
  BY <1>4 DEF MissedNotify, Unannounced
<1>5. ASSUME NEW r \in Subscriptions, CreateSubscriber(r) PROVE AllAnnounced(s, p)'
  BY <1>5 DEF CreateSubscriber
<1>6. ASSUME NEW r \in Subscriptions, CreateListener(r) PROVE AllAnnounced(s, p)'
  BY <1>6 DEF CreateListener
<1>7. ASSUME NEW r \in Subscriptions, ConstructionThrows(r) PROVE AllAnnounced(s, p)'
  BY <1>7 DEF ConstructionThrows, Empty
<1>8. ASSUME NEW r \in Subscriptions, Attach(r) PROVE AllAnnounced(s, p)'
  BY <1>8 DEF Attach
<1>9. ASSUME NEW r \in Subscriptions, ActivateUnattached(r) PROVE AllAnnounced(s, p)'
  BY <1>9 DEF ActivateUnattached
<1>10. ASSUME NEW r \in Subscriptions, Register(r) PROVE AllAnnounced(s, p)'
  BY <1>10 DEF Register
<1>11. ASSUME NEW r \in Subscriptions, Reset(r) PROVE AllAnnounced(s, p)'
  BY <1>11 DEF Reset, Held
<1>12. ASSUME NEW r \in Subscriptions, Unregister(r) PROVE AllAnnounced(s, p)'
  BY <1>12 DEF Unregister, Detach
<1>13. ASSUME NEW r \in Subscriptions, Close(r) PROVE AllAnnounced(s, p)'
  BY <1>13 DEF Close, Destroy, Empty
<1>14. ASSUME DropNode \/ Join \/ Shutdown PROVE AllAnnounced(s, p)'
  BY <1>14 DEF DropNode, Join, Shutdown
<1>15. ASSUME PollTop \/ PollWait \/ PollTimeout \/ PollBatchDone
      PROVE  AllAnnounced(s, p)'
  BY <1>15 DEF PollTop, PollWait, PollTimeout, PollBatchDone, OnlyPoll, Goto
<1>16. ASSUME NEW r \in Subscriptions, PollLookup(r) PROVE AllAnnounced(s, p)'
  BY <1>16 DEF PollLookup, OnlyPoll, Goto
<1>17. ASSUME PollLock PROVE AllAnnounced(s, p)'
  BY <1>17 DEF PollLock, OnlyPoll, Goto
<1>18. ASSUME PollDrainEvents PROVE AllAnnounced(s, p)'
  BY <1>18 DEF PollDrainEvents, Goto
<1>19. ASSUME PollTrigger PROVE AllAnnounced(s, p)'
  BY <1>19 DEF PollTrigger, Goto
<1>20. ASSUME PollHook PROVE AllAnnounced(s, p)'
  BY <1>20 DEF PollHook, OnlyPoll, Goto
<1>21. ASSUME NEW o \in Publishers, PollTake(o) PROVE AllAnnounced(s, p)'
  BY <1>21 DEF PollTake, HandOver
<1>22. ASSUME PollDrained PROVE AllAnnounced(s, p)'
  BY <1>22 DEF PollDrained, Goto, Empty
<1>23. ASSUME PollReceiveError PROVE AllAnnounced(s, p)'
  BY <1>23 DEF PollReceiveError, Goto
<1>24. ASSUME PollRelease PROVE AllAnnounced(s, p)'
  BY <1>24 DEF PollRelease, Goto
<1>25. ASSUME PollUnregister PROVE AllAnnounced(s, p)'
  BY <1>25 DEF PollUnregister, Detach, Goto
<1>26. ASSUME PollClose PROVE AllAnnounced(s, p)'
  BY <1>26 DEF PollClose, Destroy, Goto, Empty
<1>27. CASE UNCHANGED vars
  BY <1>27 DEF vars
<1> QED BY <1>1, <1>2, <1>3, <1>4, <1>5, <1>6, <1>7, <1>8, <1>9, <1>10, <1>11, <1>12,
      <1>13, <1>14, <1>15, <1>16, <1>17, <1>18, <1>19, <1>20, <1>21, <1>22, <1>23,
      <1>24, <1>25, <1>26, <1>27 DEF Next, PublisherNext, UserNext, LibraryRuns,
      PollNext, Terminated

\* Wherever the trigger of a polled subscription is consumed, the loop of take()
\* that follows reads what it stood for, whatever is published meanwhile.
THEOREM PollingIsAwake == PullSpec => []PollingNeverStalls
<1>1. PullInit => PollingNeverStalls /\ DrainInv
  BY PullAssumption DEF PullInit, Init, PollingNeverStalls, DrainInv, Polled, Empty
<1>2. /\ PollingNeverStalls /\ DrainInv /\ TypeOK /\ PullTypeOK /\ [PullNext]_allVars
      => PollingNeverStalls'
  <2> SUFFICES ASSUME PollingNeverStalls, DrainInv, TypeOK, PullTypeOK,
                      [PullNext]_allVars
               PROVE  PollingNeverStalls'
    OBVIOUS
  <2>1. ASSUME [Next]_vars, UNCHANGED <<spun, polling>> PROVE PollingNeverStalls'
    <3>1. \A s \in Polled \ polling, p \in Publishers : AllAnnounced(s, p)'
      BY <2>1, ChannelAnnounces DEF PollingNeverStalls, AllAnnounced, Polled
    <3> QED BY <2>1, <3>1 DEF PollingNeverStalls, AllAnnounced, Polled
  <2> USE PullAssumption DEF PollingNeverStalls, DrainInv, PullTypeOK, Polled, Announced,
            Dying, pubVars, subVars, pollVars, dataVars, execVars, TypeOK, DataTypeOK
  <2>2. ASSUME NEW s \in Polled, PollingStep(s) PROVE PollingNeverStalls'
    <3>1. CASE PollingWoken(s)
      BY <3>1 DEF PollingWoken
    <3>2. ASSUME NEW p \in Publishers, PollingTake(s, p) PROVE PollingNeverStalls'
      <4>1. CASE Head(queue[s][p]).body = "valid"
        BY <3>2, <4>1 DEF PollingTake, Receive
      <4>2. CASE Head(queue[s][p]).body # "valid"
        <5>1. /\ polling' = polling \ {s} /\ Overlooked(s)
              /\ \A r \in Subscriptions : r # s => queue'[r] = queue[r]
          BY <3>2, <4>2 DEF PollingTake, Receive
        <5>2. /\ s \in Subscriptions
              /\ \A o \in Publishers : queue'[s][o] # <<>> => o \in missed'[s]
          BY <5>1 DEF Overlooked
        <5>3. \A r \in Subscriptions : r # s => missed'[r] = missed[r]
          BY <5>1 DEF Overlooked
        <5> HIDE DEF TypeOK, DataTypeOK
        <5> QED BY <3>2, <5>1, <5>2, <5>3 DEF PollingTake
      <4> QED BY <4>1, <4>2
    <3>3. CASE PollingDone(s)
      BY <3>3 DEF PollingDone, Empty
    <3>4. CASE PollingReceiveError(s)
      BY <3>4 DEF PollingReceiveError, Overlooked
    <3> QED BY <2>2, <3>1, <3>2, <3>3, <3>4 DEF PollingStep
  <2>3. CASE WaitReturns
    BY <2>3 DEF WaitReturns
  <2>4. ASSUME NEW s \in spun, ExecAskError(s) PROVE PollingNeverStalls'
    BY <2>4 DEF ExecAskError, Overlooked
  <2>5. ASSUME NEW p \in Publishers, ExecTake(p) PROVE PollingNeverStalls'
    <3>1. current.sub \in spun
      BY <2>5, HandIsTyped DEF ExecTake
    <3> QED BY <2>5, <3>1 DEF ExecTake, Receive
  <2>6. CASE ExecExecute
    BY <2>6 DEF ExecExecute
  <2>7. ASSUME Alive, ExecCallbackDone PROVE PollingNeverStalls'
    BY <2>1, <2>7, CallbackDoneIsNext DEF ExecCallbackDone
  <2>8. ASSUME Alive, ChannelStep PROVE PollingNeverStalls'
    BY <2>1, <2>8, ChannelStepIsNext DEF pullVars
  <2> QED BY <2>1, <2>2, <2>3, <2>4, <2>5, <2>6, <2>7, <2>8, StepOfWhom DEF ExecCollect,
        ExecAsk, ExecTakeNothing, ExecScanDone, ExecStop, AddWaitable,
        DropDuringCallback, allVars, pullVars
<1>3. DrainInv /\ TypeOK /\ PullTypeOK /\ [PullNext]_allVars => DrainInv'
  BY PullDrainStep
<1> QED BY <1>1, <1>2, <1>3, PullTypeCorrect, PTL DEF PullSpec

-------------------------------------------------------------------------------
\* What is in hand stays between what was seen and what is queued: only the
\* executor reads the samples of a subscription it spins.
LEMMA HandStep ==
  ASSUME HandInv, OrderInv, DrainInv, TypeOK, PullTypeOK, [PullNext]_allVars
  PROVE  HandInv'
<1> SUFFICES ASSUME NEW s \in Subscriptions, NEW p \in Publishers, NEW n \in 1..MaxCalls,
                    exec' = "execute" /\ current' = InHand(s, p, n)
             PROVE  /\ seen'[s][p] < n /\ n <= calls'[p]
                    /\ InOrder(queue'[s][p], n, calls'[p])
  BY DEF HandInv
<1> DEFINE Ahead == seen[s][p] < n /\ n <= calls[p] /\ InOrder(queue[s][p], n, calls[p])
<1>1. /\ queue[s][p] \in Seq(Sample) /\ Len(queue[s][p]) <= QueueDepth
      /\ calls[p] \in Nat /\ seen[s][p] \in Nat /\ n \in Nat
      /\ seen[s][p] <= calls[p] /\ InOrder(queue[s][p], seen[s][p], calls[p])
  BY BoundAssumption DEF TypeOK, DataTypeOK, OrderInv
<1>2. ASSUME exec = "execute", current = InHand(s, p, n) PROVE Ahead /\ s \in spun
  BY <1>2, HandIsTyped DEF HandInv, InHand
<1>3. ASSUME UNCHANGED <<calls, seen, queue, exec, current>> PROVE Ahead'
  BY <1>2, <1>3
<1>4. ASSUME Alive, ChannelStep PROVE Ahead'
  <2>1. /\ [Next]_vars /\ exec = "execute" /\ current = InHand(s, p, n)
        /\ Ahead /\ s \in spun
    BY <1>2, <1>4, ChannelStepIsNext DEF pullVars, execVars
  <2>2. s \in PullSubscriptions
    BY <2>1 DEF PullTypeOK
  <2>3. ASSUME NEW o \in Publishers, NEW body \in Bodies, Send(o, body) PROVE Ahead'
    <3> DEFINE sample == [num |-> calls[o] + 1, body |-> body]
    <3>1. /\ sample \in Sample /\ sample.num = calls[o] + 1
          /\ calls' = [calls EXCEPT ![o] = @ + 1] /\ seen' = seen
      BY <2>3, BoundAssumption DEF Send, CanPublish, Sample, TypeOK, DataTypeOK, userVars
    <3>2. CASE o = p /\ s \in subscriber
      <4>1. queue'[s][p] = Push(queue[s][p], sample) /\ calls'[p] = calls[p] + 1
        BY <2>3, <3>1, <3>2 DEF Send, TypeOK, DataTypeOK
      <4> HIDE DEF sample
      <4>2. InOrder(queue'[s][p], n, calls[p] + 1)
        BY <1>1, <2>1, <3>1, <3>2, <4>1, PushInOrder
      <4> QED BY <1>1, <2>1, <3>1, <4>1, <4>2
    <3>3. CASE o # p \/ s \notin subscriber
      <4>1. queue'[s][p] = queue[s][p] /\ calls'[p] \in {calls[p], calls[p] + 1}
        BY <2>3, <3>1, <3>3 DEF Send, TypeOK, DataTypeOK
      <4> QED BY <1>1, <2>1, <3>1, <4>1 DEF InOrder
    <3> QED BY <3>2, <3>3
  <2>4. ASSUME NEW o \in Publishers, PublishFails(o) PROVE Ahead'
    <3>1. /\ calls'[p] \in {calls[p], calls[p] + 1} /\ UNCHANGED <<seen, queue>>
      BY <2>4 DEF PublishFails, TypeOK, DataTypeOK, dataVars, userVars
    <3> QED BY <1>1, <2>1, <3>1 DEF InOrder
  <2>5. ASSUME NEW o \in Publishers, PollTake(o) PROVE Ahead'
    <3>1. task # s /\ task \in Subscriptions /\ calls' = calls
      BY <2>2, <2>5 DEF PollTake, HandOver, DrainInv, TypeOK, PollTypeOK,
           Dispatching, pubVars
    <3>2. queue'[s] = queue[s] /\ seen'[s] = seen[s]
      BY <2>5, <3>1 DEF PollTake, HandOver, userVars, TypeOK, DataTypeOK
    <3> QED BY <2>1, <3>1, <3>2
  <2>6. CASE /\ UNCHANGED <<calls, seen, got>>
             /\ \A r \in Subscriptions : queue'[r] \in {queue[r], Empty}
    BY <2>1, <2>6 DEF InOrder, Empty
  <2> QED BY <2>1, <2>3, <2>4, <2>5, <2>6, StepKinds
<1>5. ASSUME NEW r \in Polled, PollingStep(r) PROVE Ahead'
  <2>1. /\ exec = "execute" /\ current = InHand(s, p, n) /\ calls' = calls
        /\ r \in Subscriptions
    <3>1. UNCHANGED <<pubVars, execVars>>
      BY <1>5 DEF PollingStep, PollingWoken, PollingTake, PollingDone, PollingReceiveError
    <3> QED BY <3>1, PullAssumption DEF execVars, pubVars, Polled
  <2>2. Ahead /\ r # s
    BY <1>2, <2>1 DEF Polled
  <2>3. queue'[s] = queue[s] /\ seen'[s] = seen[s]
    BY <1>5, <2>1, <2>2 DEF PollingStep, PollingWoken, PollingTake, PollingDone,
         PollingReceiveError, Receive, HandOver, userVars, dataVars, TypeOK, DataTypeOK
  <2> QED BY <2>1, <2>2, <2>3
<1>6. ASSUME NEW o \in Publishers, ExecTake(o) PROVE Ahead'
  <2>1. /\ s = current.sub /\ p = o /\ n = Head(queue[s][p]).num
        /\ queue[s][p] # <<>> /\ queue'[s][p] = Tail(queue[s][p])
        /\ calls' = calls /\ seen' = seen
    BY <1>6 DEF ExecTake, Receive, InHand, pubVars, userVars, TypeOK, DataTypeOK
  <2>2. n \in (seen[s][p] + 1)..calls[p] /\ InOrder(Tail(queue[s][p]), n, calls[p])
    BY <1>1, <2>1, TailInOrder
  <2> QED BY <1>1, <2>1, <2>2
<1>7. ExecExecute \/ ExecCallbackDone \/ ExecScanDone \/ ExecStop \/ ExecCollect
        \/ ExecTakeNothing \/ WaitReturns => FALSE
  BY DEF ExecExecute, ExecCallbackDone, ExecScanDone, ExecStop, ExecCollect,
       ExecTakeNothing, WaitReturns
<1>8. ASSUME NEW r \in spun, ExecAsk(r) \/ ExecAskError(r) PROVE Ahead'
  BY <1>8 DEF ExecAsk, ExecAskError
<1>9. ASSUME NEW r \in spun, AddWaitable(r) \/ DropDuringCallback(r) PROVE Ahead'
  BY <1>3, <1>9 DEF AddWaitable, DropDuringCallback, vars, execVars, pubVars, dataVars,
       userVars
<1>10. CASE UNCHANGED vars /\ UNCHANGED pullVars
  BY <1>3, <1>10 DEF vars, pullVars, execVars, pubVars, dataVars, userVars
<1> QED BY <1>4, <1>5, <1>6, <1>7, <1>8, <1>9, <1>10, StepOfWhom DEF allVars

\* Consumers read a connection from its oldest sample on, and hand over what they
\* read before they read more.
LEMMA PullOrderStep ==
  ASSUME OrderInv, HandInv, TypeOK, PullTypeOK, [PullNext]_allVars
  PROVE  OrderInv'
<1>1. ASSUME [Next]_vars PROVE OrderInv'
  BY <1>1, OrderStep
<1>2. ASSUME UNCHANGED <<calls, seen, queue>> PROVE OrderInv'
  BY <1>2 DEF OrderInv, InOrder
<1>3. ASSUME NEW s \in Polled, PollingStep(s) PROVE OrderInv'
  <2>1. CASE PollingWoken(s) \/ PollingDone(s) \/ PollingReceiveError(s)
    BY <1>2, <2>1 DEF PollingWoken, PollingDone, PollingReceiveError, pubVars, dataVars,
         userVars
  <2>2. ASSUME NEW p \in Publishers, PollingTake(s, p) PROVE OrderInv'
    <3>1. s \in Subscriptions /\ calls' = calls
      BY <2>2, PullAssumption DEF PollingTake, Polled, pubVars
    <3> SUFFICES ASSUME NEW r \in Subscriptions, NEW o \in Publishers
                 PROVE  /\ seen'[r][o] <= calls'[o]
                        /\ InOrder(queue'[r][o], seen'[r][o], calls'[o])
      BY DEF OrderInv
    <3>2. /\ queue[r][o] \in Seq(Sample) /\ calls[o] \in Nat /\ seen[r][o] \in Nat
          /\ seen[r][o] <= calls[o] /\ InOrder(queue[r][o], seen[r][o], calls[o])
      BY BoundAssumption DEF TypeOK, DataTypeOK, OrderInv
    <3>3. CASE r = s /\ o = p
      <4>1. /\ queue[r][o] # <<>> /\ queue'[r][o] = Tail(queue[r][o])
            /\ seen'[r][o] \in {seen[r][o], Head(queue[r][o]).num}
        BY <2>2, <3>3 DEF PollingTake, Receive, HandOver, userVars, TypeOK, DataTypeOK
      <4> QED BY <3>1, <3>2, <4>1, TailInOrder
    <3>4. CASE ~(r = s /\ o = p)
      <4>1. queue'[r][o] = queue[r][o] /\ seen'[r][o] = seen[r][o]
        BY <2>2, <3>1, <3>4 DEF PollingTake, Receive, HandOver, userVars, TypeOK,
             DataTypeOK
      <4> QED BY <3>1, <3>2, <4>1
    <3> QED BY <3>3, <3>4
  <2> QED BY <1>3, <2>1, <2>2 DEF PollingStep
<1>4. ASSUME NEW p \in Publishers, ExecTake(p) PROVE OrderInv'
  <2>1. /\ current.sub \in Subscriptions /\ calls' = calls /\ seen' = seen
        /\ Receive(current.sub, p)
    BY <1>4, HandIsTyped DEF ExecTake, pubVars, userVars
  <2> SUFFICES ASSUME NEW r \in Subscriptions, NEW o \in Publishers
               PROVE  /\ seen[r][o] <= calls[o]
                      /\ InOrder(queue'[r][o], seen[r][o], calls[o])
    BY <2>1 DEF OrderInv
  <2>2. /\ queue[r][o] \in Seq(Sample) /\ calls[o] \in Nat /\ seen[r][o] \in Nat
        /\ seen[r][o] <= calls[o] /\ InOrder(queue[r][o], seen[r][o], calls[o])
    BY BoundAssumption DEF TypeOK, DataTypeOK, OrderInv
  <2>3. CASE r = current.sub /\ o = p
    <3>1. queue[r][o] # <<>> /\ queue'[r][o] = Tail(queue[r][o])
      BY <2>1, <2>3 DEF Receive, TypeOK, DataTypeOK
    <3> QED BY <2>2, <3>1, TailInOrder
  <2>4. CASE ~(r = current.sub /\ o = p)
    BY <2>1, <2>2, <2>4 DEF Receive, TypeOK, DataTypeOK
  <2> QED BY <2>3, <2>4
<1>5. ASSUME ExecExecute PROVE OrderInv'
  <2>1. /\ current.sub \in Subscriptions /\ current.pub \in Publishers
        /\ current.num \in 1..MaxCalls /\ UNCHANGED <<calls, queue>>
        /\ current = InHand(current.sub, current.pub, current.num)
    BY <1>5, HandIsTyped DEF ExecExecute, pubVars, dataVars
  <2>2. /\ current.num <= calls[current.pub]
        /\ InOrder(queue[current.sub][current.pub], current.num, calls[current.pub])
    BY <1>5, <2>1 DEF ExecExecute, HandInv
  <2>3. seen' \in {seen, [seen EXCEPT ![current.sub][current.pub] = current.num]}
    BY <1>5 DEF ExecExecute, HandOver, userVars
  <2>4. seen \in [Subscriptions -> [Publishers -> 0..MaxCalls]]
    BY DEF TypeOK, DataTypeOK
  <2> QED BY <2>1, <2>2, <2>3, <2>4 DEF OrderInv
<1>6. ASSUME Alive, ExecCallbackDone PROVE OrderInv'
  BY <1>1, <1>6, CallbackDoneIsNext
<1>7. ASSUME Alive, ChannelStep PROVE OrderInv'
  BY <1>1, <1>7, ChannelStepIsNext
<1> QED BY <1>1, <1>2, <1>3, <1>4, <1>5, <1>6, <1>7, StepOfWhom DEF WaitReturns,
      ExecAskError, ExecCollect, ExecAsk, ExecTakeNothing, ExecScanDone, ExecStop,
      AddWaitable, DropDuringCallback, allVars, pubVars, dataVars, userVars, vars

\* The connections of the composition stay sorted, ahead of what is in hand and of
\* what the user has seen.
THEOREM PullOrderHolds == PullSpec => [](OrderInv /\ HandInv /\ DrainInv)
<1>1. PullInit => OrderInv /\ HandInv /\ DrainInv
  BY DEF PullInit, Init, OrderInv, InOrder, Empty, HandInv, DrainInv
<1>2. /\ OrderInv /\ HandInv /\ DrainInv
      /\ TypeOK /\ PullTypeOK /\ [PullNext]_allVars
      => OrderInv' /\ HandInv' /\ DrainInv'
  BY PullOrderStep, HandStep, PullDrainStep
<1> QED BY <1>1, <1>2, PullTypeCorrect, PTL DEF PullSpec

\* Whoever consumes a subscription, and however its reads interleave with the
\* channel, what its user gets of one publisher is in the order of the calls and
\* without repetition.
THEOREM PullRefinement == PullSpec => ImplementsLatestWins
<1>1. PullInit => Promise!Init
  BY DEF PullInit, Init, Promise!Init
<1>2. /\ TypeOK /\ PullTypeOK /\ OrderInv /\ HandInv /\ [PullNext]_allVars
      => [Promise!Next]_(Promise!vars)
  <2> SUFFICES ASSUME TypeOK, PullTypeOK, OrderInv, HandInv, [PullNext]_allVars
               PROVE  [Promise!Next]_(Promise!vars)
    OBVIOUS
  <2>1. ASSUME [Next]_vars PROVE [Promise!Next]_(Promise!vars)
    BY <2>1, PromiseStep
  <2>2. ASSUME UNCHANGED <<calls, seen, got>> PROVE [Promise!Next]_(Promise!vars)
    BY <2>2 DEF Promise!vars
  <2>3. ASSUME NEW s \in Polled, PollingStep(s) PROVE [Promise!Next]_(Promise!vars)
    <3>1. CASE PollingWoken(s) \/ PollingDone(s) \/ PollingReceiveError(s)
      BY <2>2, <3>1 DEF PollingWoken, PollingDone, PollingReceiveError, pubVars, userVars
    <3>2. ASSUME NEW p \in Publishers, PollingTake(s, p)
          PROVE  [Promise!Next]_(Promise!vars)
      <4>1. s \in Subscriptions /\ calls' = calls
        BY <3>2, PullAssumption DEF PollingTake, Polled, pubVars
      <4>2. CASE Head(queue[s][p]).body = "valid"
        <5>1. queue[s][p] \in Seq(Sample) /\ queue[s][p] # <<>>
          BY <3>2, <4>1 DEF PollingTake, Receive, TypeOK, DataTypeOK
        <5>2. /\ calls[p] \in Nat /\ seen[s][p] \in Nat
              /\ InOrder(queue[s][p], seen[s][p], calls[p])
          BY <4>1, BoundAssumption DEF OrderInv, TypeOK, DataTypeOK
        <5>3. Head(queue[s][p]).num \in (seen[s][p] + 1)..calls[p]
          BY <5>1, <5>2, TailInOrder
        <5>4. /\ seen' = [seen EXCEPT ![s][p] = Head(queue[s][p]).num]
              /\ got' = [got EXCEPT ![s][p] = @ + 1]
          BY <3>2, <4>2 DEF PollingTake, HandOver
        <5>5. Promise!Deliver(s, p)
          BY <4>1, <5>3, <5>4 DEF Promise!Deliver
        <5> QED BY <4>1, <5>5 DEF Promise!Next
      <4>3. CASE Head(queue[s][p]).body # "valid"
        BY <2>2, <3>2, <4>1, <4>3 DEF PollingTake, HandOver, userVars
      <4> QED BY <4>2, <4>3
    <3> QED BY <2>3, <3>1, <3>2 DEF PollingStep
  <2>4. ASSUME ExecExecute PROVE [Promise!Next]_(Promise!vars)
    <3>1. /\ current.sub \in Subscriptions /\ current.pub \in Publishers
          /\ current.num \in 1..MaxCalls /\ calls' = calls
          /\ current = InHand(current.sub, current.pub, current.num)
      BY <2>4, HandIsTyped DEF ExecExecute, pubVars
    <3>2. CASE stage[current.sub] = "active"
      <4>1. /\ seen' = [seen EXCEPT ![current.sub][current.pub] = current.num]
            /\ got' = [got EXCEPT ![current.sub][current.pub] = @ + 1]
        BY <2>4, <3>2 DEF ExecExecute, HandOver
      <4>2. /\ seen[current.sub][current.pub] < current.num
            /\ current.num <= calls[current.pub]
        BY <2>4, <3>1 DEF ExecExecute, HandInv
      <4>3. /\ seen[current.sub][current.pub] \in Nat /\ calls[current.pub] \in Nat
            /\ current.num \in Nat
        BY <3>1, BoundAssumption DEF TypeOK, DataTypeOK
      <4>4. current.num \in (seen[current.sub][current.pub] + 1)..calls[current.pub]
        BY <4>2, <4>3
      <4>5. Promise!Deliver(current.sub, current.pub)
        BY <3>1, <4>1, <4>4 DEF Promise!Deliver
      <4> QED BY <3>1, <4>5 DEF Promise!Next
    <3>3. CASE stage[current.sub] # "active"
      BY <2>2, <2>4, <3>1, <3>3 DEF ExecExecute, userVars
    <3> QED BY <3>2, <3>3
  <2>5. ASSUME Alive, ExecCallbackDone PROVE [Promise!Next]_(Promise!vars)
    BY <2>1, <2>5, CallbackDoneIsNext
  <2>6. ASSUME Alive, ChannelStep PROVE [Promise!Next]_(Promise!vars)
    BY <2>1, <2>6, ChannelStepIsNext
  <2> QED BY <2>1, <2>2, <2>3, <2>4, <2>5, <2>6, StepOfWhom DEF WaitReturns,
        ExecAskError, ExecCollect, ExecAsk, ExecTake, ExecTakeNothing, ExecScanDone,
        ExecStop, AddWaitable, DropDuringCallback, allVars, pubVars, userVars, vars
<1> QED BY <1>1, <1>2, PullTypeCorrect, PullOrderHolds, PTL DEF PullSpec,
     ImplementsLatestWins, Promise!Spec

\* So do the callbacks of an executor and the loop that polls.
THEOREM PullDeliversOnce == PullSpec => []Promises!AtMostOnce /\ Promises!NeverBack
BY PullRefinement, SamePromise, Promises!AtMostOnceHolds, Promises!NeverBackHolds, PTL
   DEF ImplementsLatestWins

-------------------------------------------------------------------------------
(* Where the executor does not stall, and where it does not wait on the guard *)
(* condition of a subscription that is gone.                                *)

\* No subscription in an executor has two samples waiting: the publishers are slower
\* than the executor.
NoBacklog ==
  \A s \in spun, p, o \in Publishers :
    /\ Len(queue[s][p]) <= 1
    /\ queue[s][p] # <<>> /\ queue[s][o] # <<>> => p = o

\* A subscription in an executor is not dropped while the executor waits: callbacks of
\* the same executor may drop it.
NoDropInWait ==
  [][exec = "wait" =>
       \A s \in spun : stage[s] = "active" => stage'[s] = "active"]_allVars

\* The stages of a subscription that create_flat_subscription has returned.
Grown == {"active", "orphaned", "closing", "detached", "closed"}

\* A pull subscription is never kept by a drain, and has no samples when it is not there.
Kept(s) ==
  /\ stage[s] # "released"
  /\ stage[s] \in {"absent", "closed"} => queue[s] = Empty /\ s \notin subscriber

\* The executor asks only subscriptions that have been active.
Grows ==
  /\ \A s \in PullSubscriptions : Kept(s)
  /\ \A s \in added : stage[s] \in Grown
  /\ exec = "take" => current.sub \in added

\* A subscription that is created stays so, and its samples go with it.
LEMMA ChannelGrows ==
  ASSUME NEW s \in PullSubscriptions, TypeOK, DrainInv, Kept(s), [Next]_vars
  PROVE  Kept(s)' /\ (stage[s] \in Grown => stage'[s] \in Grown)
<1> USE PullAssumption DEF Kept, Grown, DrainInv, TypeOK, DataTypeOK, LifeTypeOK, PollTypeOK,
     Dispatching, pubVars, dataVars, subVars, nodeVars, pollVars, OnlyPoll, Goto
<1>1. CASE UNCHANGED <<stage, queue, subscriber>>
  BY <1>1
<1>2. ASSUME NEW p \in Publishers, NEW body \in Bodies, Send(p, body)
      PROVE  Kept(s)' /\ (stage[s] \in Grown => stage'[s] \in Grown)
  BY <1>2 DEF Send
<1>3. ASSUME NEW p \in Publishers, PublishFails(p) \/ Notify(p) \/ MissedNotify(p)
      PROVE  UNCHANGED <<stage, queue, subscriber>>
  BY <1>3 DEF PublishFails, Notify, MissedNotify
<1>4. ASSUME NEW r \in Subscriptions,
             \/ CreateSubscriber(r) \/ CreateListener(r) \/ ConstructionThrows(r)
             \/ Attach(r) \/ ActivateUnattached(r) \/ Register(r)
      PROVE  Kept(s)' /\ (stage[s] \in Grown => stage'[s] \in Grown)
  BY <1>4
  DEF CreateSubscriber, CreateListener, ConstructionThrows, Attach, ActivateUnattached, Register
<1>5. ASSUME NEW r \in Subscriptions, Reset(r) \/ Unregister(r) \/ Close(r)
      PROVE  Kept(s)' /\ (stage[s] \in Grown => stage'[s] \in Grown)
  BY <1>5 DEF Reset, Held, Unregister, Detach, Close, Destroy
<1>6. CASE DropNode \/ Join \/ Shutdown
  BY <1>1, <1>6 DEF DropNode, Join, Shutdown
<1>7. CASE PollTop \/ PollWait \/ PollTimeout \/ (\E r \in Subscriptions : PollLookup(r))
           \/ PollBatchDone \/ PollLock \/ PollDrainEvents \/ PollTrigger \/ PollHook
           \/ PollDrained \/ PollReceiveError
  BY <1>1, <1>7
  DEF PollTop, PollWait, PollTimeout, PollLookup, PollBatchDone, PollLock, PollDrainEvents,
      PollTrigger, PollHook, PollDrained, PollReceiveError
<1>8. ASSUME NEW p \in Publishers, PollTake(p)
      PROVE  Kept(s)' /\ (stage[s] \in Grown => stage'[s] \in Grown)
  BY <1>8 DEF PollTake, HandOver
<1>9. CASE PollRelease \/ PollUnregister \/ PollClose
  BY <1>9 DEF PollRelease, PollUnregister, Detach, PollClose, Destroy
<1>10. CASE Terminated \/ UNCHANGED vars
  BY <1>1, <1>10 DEF Terminated, vars
<1> QED
  BY <1>1, <1>2, <1>3, <1>4, <1>5, <1>6, <1>7, <1>8, <1>9, <1>10
  DEF Next, PublisherNext, UserNext, LibraryRuns, PollNext

\* Nor do the consumers change that.
LEMMA GrowsStep ==
  ASSUME Grows, DrainInv, TypeOK, PullTypeOK, [PullNext]_allVars
  PROVE  Grows'
<1> USE PullAssumption
<1>1. ASSUME [Next]_vars, UNCHANGED added, exec' # "take" \/ UNCHANGED <<exec, current>>
      PROVE  Grows'
  <2>1. \A s \in PullSubscriptions : Kept(s)' /\ (stage[s] \in Grown => stage'[s] \in Grown)
    BY <1>1, ChannelGrows DEF Grows
  <2> QED BY <1>1, <2>1 DEF Grows, PullTypeOK
<1>2. ASSUME UNCHANGED <<stage, subscriber, added>>,
             \A s \in Subscriptions, p \in Publishers :
               queue'[s][p] # <<>> => queue[s][p] # <<>>,
             queue' \in [Subscriptions -> [Publishers -> Seq(Sample)]],
             exec' = "take" => UNCHANGED <<exec, current>> \/ current'.sub \in added
      PROVE  Grows'
  <2>1. \A s \in Subscriptions : queue[s] = Empty => queue'[s] = Empty
    BY <1>2 DEF Empty
  <2> QED BY <1>2, <2>1 DEF Grows, Kept
<1> USE DEF pubVars, dataVars, subVars, execVars, pullVars, vars, TypeOK, DataTypeOK
<1>3. CASE UNCHANGED vars /\ UNCHANGED pullVars
  BY <1>1, <1>3
<1>4. ASSUME Alive, ChannelStep PROVE Grows'
  BY <1>1, <1>4, ChannelStepIsNext
<1>5. ASSUME NEW s \in Polled, PollingStep(s) PROVE Grows'
  <2>1. UNCHANGED <<stage, subscriber, added, exec, current>>
    BY <1>5 DEF PollingStep, PollingWoken, PollingTake, PollingDone, PollingReceiveError
  <2>2. queue' = queue \/ \E p \in Publishers : Receive(s, p)
    BY <1>5 DEF PollingStep, PollingWoken, PollingTake, PollingDone, PollingReceiveError
  <2>3. \A r \in Subscriptions, o \in Publishers : queue'[r][o] # <<>> => queue[r][o] # <<>>
    <3>1. ASSUME NEW p \in Publishers, Receive(s, p)
          PROVE  \A r \in Subscriptions, o \in Publishers :
                   queue'[r][o] # <<>> => queue[r][o] # <<>>
      BY <3>1 DEF Receive
    <3> QED BY <2>2, <3>1
  <2>4. queue' \in [Subscriptions -> [Publishers -> Seq(Sample)]]
    BY <2>2, ReceiveIsTyped DEF Polled
  <2> HIDE DEF TypeOK, DataTypeOK
  <2> QED BY <1>2, <2>1, <2>3, <2>4
<1>6. ASSUME NEW p \in Publishers, ExecTake(p) PROVE Grows'
  <2>1. /\ UNCHANGED <<stage, subscriber, added>> /\ exec' # "take"
        /\ Receive(current.sub, p) /\ current.sub \in Subscriptions
    BY <1>6, HandIsTyped DEF ExecTake
  <2>2. \A r \in Subscriptions, o \in Publishers : queue'[r][o] # <<>> => queue[r][o] # <<>>
    BY <2>1 DEF Receive
  <2>3. queue' \in [Subscriptions -> [Publishers -> Seq(Sample)]]
    BY <2>1, ReceiveIsTyped
  <2> HIDE DEF TypeOK, DataTypeOK
  <2> QED BY <1>2, <2>1, <2>2, <2>3
<1>7. ASSUME NEW s \in spun, ExecAsk(s) \/ ExecAskError(s) PROVE Grows'
  <2>1. /\ UNCHANGED <<stage, subscriber, added, queue>>
        /\ exec' = "take" => current'.sub \in added
    BY <1>7 DEF ExecAsk, ExecAskError, PullTypeOK, InHand
  <2> QED BY <1>2, <2>1
<1>8. ASSUME NEW s \in spun, AddWaitable(s) PROVE Grows'
  BY <1>8 DEF AddWaitable, Grows, Kept, Grown
<1>9. CASE ExecCollect \/ WaitReturns \/ ExecTakeNothing \/ ExecExecute \/ ExecScanDone \/ ExecStop
  <2>1. UNCHANGED <<stage, subscriber, added, queue>> /\ exec' # "take"
    BY <1>9
    DEF ExecCollect, WaitReturns, ExecTakeNothing, ExecExecute, ExecScanDone, ExecStop
  <2> QED BY <1>2, <2>1
<1>10. ASSUME Alive, ExecCallbackDone PROVE Grows'
  <2>1. [Next]_vars /\ UNCHANGED added /\ exec' # "take"
    BY <1>10, CallbackDoneIsNext DEF ExecCallbackDone
  <2> QED BY <1>1, <2>1
<1>11. ASSUME NEW s \in spun, DropDuringCallback(s) PROVE Grows'
  BY <1>1, <1>11 DEF DropDuringCallback
<1> QED
  BY <1>3, <1>4, <1>5, <1>6, <1>7, <1>8, <1>9, <1>10, <1>11, StepOfWhom DEF allVars

\* The executor has the samples of s still to look at.
ToAsk(s) == s \in scan \/ (exec = "take" /\ current.sub = s)

\* Between wake-ups every sample of a subscription in the executor is announced.
Expected == \A s \in spun, p \in Publishers : AllAnnounced(s, p) \/ ToAsk(s)

\* One take per wake-up is enough where one sample waits.
LEMMA ExpectedStep ==
  ASSUME Expected, Grows, DrainInv, TypeOK, PullTypeOK, NoBacklog, [PullNext]_allVars
  PROVE  Expected'
<1> SUFFICES ASSUME NEW s \in spun', NEW p \in Publishers
             PROVE  AllAnnounced(s, p)' \/ ToAsk(s)'
  BY DEF Expected
<1>0. /\ s \in spun /\ s \in PullSubscriptions /\ s \in Subscriptions
      /\ UNCHANGED spun
  BY StepOfWhom, ChannelStepIsNext, PullAssumption
  DEF allVars, pullVars, PullTypeOK, PollingStep, PollingWoken, PollingTake, PollingDone,
      PollingReceiveError, ExecCollect, WaitReturns, ExecAsk, ExecAskError, ExecTake,
      ExecTakeNothing, ExecExecute, ExecCallbackDone, ExecScanDone, ExecStop, AddWaitable,
      DropDuringCallback
<1>1. AllAnnounced(s, p) \/ ToAsk(s)
  BY <1>0 DEF Expected
<1>2. ASSUME [Next]_vars, UNCHANGED <<scan, exec, current>> PROVE AllAnnounced(s, p)' \/ ToAsk(s)'
  <2>1. AllAnnounced(s, p) => AllAnnounced(s, p)'
    BY <1>0, <1>2, ChannelAnnounces
  <2> QED BY <1>1, <1>2, <2>1 DEF ToAsk
<1>3. stage[s] \in Grown /\ stage[s] # "active" => AllAnnounced(s, p)
  BY <1>0 DEF Grows, Kept, Grown, AllAnnounced, Announced, Dying, Empty
<1> USE DEF pubVars, dataVars, subVars, execVars, pullVars, vars
<1>4. CASE UNCHANGED vars /\ UNCHANGED pullVars
  BY <1>2, <1>4
<1>5. ASSUME Alive, ChannelStep PROVE AllAnnounced(s, p)' \/ ToAsk(s)'
  BY <1>2, <1>5, ChannelStepIsNext
<1>6. ASSUME NEW r \in Polled, PollingStep(r) PROVE AllAnnounced(s, p)' \/ ToAsk(s)'
  <2>1. r # s /\ r \in Subscriptions
    BY <1>0, PullAssumption DEF Polled
  <2>2. UNCHANGED <<toNotify, event, task, pc, stage, scan, exec, current>>
    BY <1>6 DEF PollingStep, PollingWoken, PollingTake, PollingDone, PollingReceiveError, pollVars
  <2>3. queue'[s] = queue[s] /\ guard'[s] = guard[s] /\ missed'[s] = missed[s]
    BY <1>0, <1>6, <2>1
    DEF PollingStep, PollingWoken, PollingTake, PollingDone, PollingReceiveError, Receive,
        Overlooked, TypeOK, DataTypeOK
  <2> QED BY <1>1, <2>2, <2>3 DEF ToAsk, AllAnnounced, Announced, Dying
<1>7. CASE WaitReturns
  BY <1>0, <1>1, <1>7
  DEF WaitReturns, ToAsk, AllAnnounced, Announced, Dying, pollVars, PullTypeOK
<1>8. ASSUME NEW r \in spun, ExecAsk(r) PROVE AllAnnounced(s, p)' \/ ToAsk(s)'
  <2>1. UNCHANGED vars /\ scan' = scan \ {r} /\ r \in scan /\ exec = "scan" /\ r \in added
    BY <1>8 DEF ExecAsk, PullTypeOK
  <2>2. AllAnnounced(s, p)' <=> AllAnnounced(s, p)
    BY <2>1 DEF AllAnnounced, Announced, Dying, pollVars
  <2>3. CASE r # s
    BY <1>1, <2>1, <2>2, <2>3 DEF ToAsk
  <2>4. CASE r = s /\ stage[s] = "active" /\ queue[s] # Empty
    BY <1>8, <2>4 DEF ExecAsk, ToAsk, InHand
  <2>5. CASE r = s /\ stage[s] # "active"
    BY <1>3, <2>1, <2>2, <2>5 DEF Grows
  <2>6. CASE r = s /\ queue[s] = Empty
    BY <2>2, <2>6 DEF AllAnnounced, Empty
  <2> QED BY <2>3, <2>4, <2>5, <2>6
<1>9. ASSUME NEW r \in spun, ExecAskError(r) PROVE AllAnnounced(s, p)' \/ ToAsk(s)'
  BY <1>0, <1>1, <1>9
  DEF ExecAskError, Overlooked, ToAsk, AllAnnounced, Announced, Dying, pollVars, TypeOK,
      DataTypeOK
<1>10. ASSUME NEW o \in Publishers, ExecTake(o) PROVE AllAnnounced(s, p)' \/ ToAsk(s)'
  <2>1. /\ exec = "take" /\ Receive(current.sub, o) /\ current.sub \in spun
        /\ current.sub \in Subscriptions
        /\ UNCHANGED <<toNotify, event, guard, missed, task, pc, stage, scan>>
    BY <1>10, HandIsTyped DEF ExecTake, pollVars
  <2>2. CASE current.sub # s
    <3>1. queue'[s] = queue[s]
      BY <1>0, <2>1, <2>2 DEF Receive, TypeOK, DataTypeOK
    <3> QED BY <1>1, <2>1, <2>2, <3>1 DEF ToAsk, AllAnnounced, Announced, Dying
  <2>3. CASE current.sub = s
    <3>1. queue[s][o] \in Seq(Sample) /\ queue[s][o] # <<>> /\ Len(queue[s][o]) <= 1
      BY <1>0, <2>1, <2>3 DEF Receive, NoBacklog, TypeOK, DataTypeOK
    <3>2. Tail(queue[s][o]) = <<>>
      BY <3>1
    <3>3. queue'[s][p] = <<>>
      BY <1>0, <2>1, <2>3, <3>1, <3>2 DEF Receive, NoBacklog, TypeOK, DataTypeOK
    <3> QED BY <3>3 DEF AllAnnounced
  <2> QED BY <2>2, <2>3
<1>11. CASE ExecTakeNothing
  <2>1. UNCHANGED vars /\ UNCHANGED scan /\ exec = "take"
    BY <1>11 DEF ExecTakeNothing
  <2>2. AllAnnounced(s, p)' <=> AllAnnounced(s, p)
    BY <2>1 DEF AllAnnounced, Announced, Dying, pollVars
  <2>3. CASE current.sub # s
    BY <1>1, <2>1, <2>2, <2>3 DEF ToAsk
  <2>4. CASE current.sub = s
    <3>1. stage[s] # "active" \/ queue[s] = Empty
      BY <1>11, <2>4 DEF ExecTakeNothing
    <3>2. stage[s] \in Grown
      BY <2>1, <2>4 DEF Grows
    <3> QED BY <1>3, <2>2, <3>1, <3>2 DEF AllAnnounced, Empty
  <2> QED BY <2>3, <2>4
<1>12. CASE ExecExecute
  <2>1. UNCHANGED <<toNotify, event, guard, missed, task, pc, stage, scan, queue>> /\ exec = "execute"
    BY <1>12 DEF ExecExecute, pollVars
  <2> QED BY <1>1, <2>1 DEF ToAsk, AllAnnounced, Announced, Dying
<1>13. ASSUME Alive, ExecCallbackDone PROVE AllAnnounced(s, p)' \/ ToAsk(s)'
  <2>1. [Next]_vars /\ UNCHANGED scan /\ exec = "callback"
    BY <1>13, CallbackDoneIsNext DEF ExecCallbackDone
  <2>2. AllAnnounced(s, p) => AllAnnounced(s, p)'
    BY <1>0, <2>1, ChannelAnnounces
  <2> QED BY <1>1, <2>1, <2>2 DEF ToAsk
<1>14. CASE ExecCollect \/ ExecScanDone \/ ExecStop
  <2>1. UNCHANGED vars /\ UNCHANGED scan /\ exec # "take"
    BY <1>14 DEF ExecCollect, ExecScanDone, ExecStop
  <2>2. AllAnnounced(s, p)' <=> AllAnnounced(s, p)
    BY <2>1 DEF AllAnnounced, Announced, Dying, pollVars
  <2> QED BY <1>1, <2>1, <2>2 DEF ToAsk
<1>15. ASSUME NEW r \in spun, AddWaitable(r) \/ DropDuringCallback(r)
       PROVE  AllAnnounced(s, p)' \/ ToAsk(s)'
  BY <1>2, <1>15 DEF AddWaitable, DropDuringCallback
<1> QED
  BY <1>4, <1>5, <1>6, <1>7, <1>8, <1>9, <1>10, <1>11, <1>12, <1>13, <1>14, <1>15, StepOfWhom
  DEF allVars

\* The executor stalls only on a backlog: where no subscription ever has two samples
\* waiting, the one call of take_data() per trigger reads all the trigger stands for.
THEOREM ExecutorKeepsUp == PullSpec /\ []NoBacklog => []ExecutorNeverStalls
<1>1. PullInit => Expected /\ Grows /\ DrainInv
  BY PullAssumption
  DEF PullInit, Init, Expected, Grows, Kept, DrainInv, AllAnnounced, Empty, None, InHand
<1>2. Grows /\ DrainInv /\ TypeOK /\ PullTypeOK /\ [PullNext]_allVars => Grows' /\ DrainInv'
  BY GrowsStep, PullDrainStep
<1>3. Expected /\ Grows /\ DrainInv /\ TypeOK /\ PullTypeOK /\ NoBacklog /\ [PullNext]_allVars
        => Expected'
  BY ExpectedStep
<1>4. Expected /\ PullTypeOK => ExecutorNeverStalls
  BY DEF Expected, ToAsk, AllAnnounced, PullTypeOK, ExecutorNeverStalls
<1> QED BY <1>1, <1>2, <1>3, <1>4, PullTypeCorrect, PTL DEF PullSpec

\* The guard conditions in the wait set stay alive where subscriptions are dropped only
\* while the executor is awake, for instance from its callbacks.
THEOREM GuardsAliveByDrops == PullSpec /\ NoDropInWait => []WaitSetGuardsAlive
<1> DEFINE Calm == exec = "wait" => \A s \in spun : stage[s] = "active" => stage'[s] = "active"
           Awaited == exec = "wait" => \A s \in waitSet : stage[s] = "active"
<1>1. PullInit => Awaited
  BY DEF PullInit
<1>2. TypeOK /\ PullTypeOK /\ Awaited /\ [PullNext]_allVars /\ [Calm]_allVars => Awaited'
  <2> SUFFICES ASSUME PullTypeOK, Awaited, [PullNext]_allVars, [Calm]_allVars, exec' = "wait"
               PROVE  \A s \in waitSet' : stage'[s] = "active"
    OBVIOUS
  <2> USE DEF pullVars, execVars, subVars, vars
  <2>1. CASE exec = "wait" /\ UNCHANGED waitSet
    BY <2>1 DEF PullTypeOK, allVars
  <2>2. CASE ExecCollect
    BY <2>2 DEF ExecCollect
  <2>3. ASSUME Alive, ChannelStep PROVE exec = "wait" /\ UNCHANGED waitSet
    BY <2>3, ChannelStepIsNext
  <2>4. ASSUME NEW s \in Polled, PollingStep(s) PROVE exec = "wait" /\ UNCHANGED waitSet
    BY <2>4 DEF PollingStep, PollingWoken, PollingTake, PollingDone, PollingReceiveError
  <2>5. ASSUME NEW s \in spun, AddWaitable(s) \/ DropDuringCallback(s)
        PROVE  exec = "wait" /\ UNCHANGED waitSet
    BY <2>5 DEF AddWaitable, DropDuringCallback
  <2>6. CASE UNCHANGED vars /\ UNCHANGED pullVars
    BY <2>1, <2>6
  <2>7. /\ ~WaitReturns /\ ~ExecTakeNothing /\ ~ExecExecute /\ ~ExecCallbackDone
        /\ ~ExecScanDone /\ ~ExecStop
        /\ \A s \in spun : ~ExecAsk(s) /\ ~ExecAskError(s)
        /\ \A p \in Publishers : ~ExecTake(p)
    BY DEF WaitReturns, ExecTakeNothing, ExecExecute, ExecCallbackDone, ExecScanDone, ExecStop,
           ExecAsk, ExecAskError, ExecTake
  <2> QED BY <2>1, <2>2, <2>3, <2>4, <2>5, <2>6, <2>7, StepOfWhom DEF allVars
<1>3. Awaited => WaitSetGuardsAlive
  BY DEF WaitSetGuardsAlive
<1> QED BY <1>1, <1>2, <1>3, PullTypeCorrect, PTL DEF PullSpec, NoDropInWait
===============================================================================
