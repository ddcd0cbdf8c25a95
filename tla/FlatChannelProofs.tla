--------------------------- MODULE FlatChannelProofs ---------------------------
(***************************************************************************)
(* What holds of FlatChannel for every number of publishers and            *)
(* subscriptions, every buffer depth and every bound on the calls.         *)
(***************************************************************************)
EXTENDS FlatChannel, FiniteSetTheorems, TLAPS

-------------------------------------------------------------------------------
(* What the safety properties rest on: the inductive invariants.           *)

\* Where an attachment and a listener can be, and who holds a dropped object.
LifeInv ==
  \A s \in Subscriptions :
    /\ s \in registered => s \in attached
    /\ s \in attached =>
         /\ s \in listener
         /\ stage[s] \in {"pushing", "active", "released", "orphaned", "closing"}
    /\ s \in listener =>
         stage[s] \in {"attaching", "pushing", "active", "released", "orphaned",
                       "closing", "detached"}
    /\ stage[s] = "pushing" => s \in attached
    /\ stage[s] \in {"released", "orphaned"} => Held(s)
    /\ stage[s] \in {"listening", "attaching", "pushing"} => node

\* What each step of a dispatch knows of the subscription in hand.
DispatchInv ==
  /\ pc \in {"events", "trigger", "hook"} => stage[task] \in {"active", "orphaned"}
  /\ pc = "drain" => stage[task] \in {"active", "released"}
  /\ pc = "release" => stage[task] \in {"active", "released", "orphaned"}
  /\ pc = "unregister" => stage[task] = "closing"
  /\ pc = "close" => stage[task] = "detached"
  /\ pc = "hook" => guard[task]

\* The destructor of the backend runs when nobody holds it, and ends after the
\* poll thread.
BackendInv ==
  /\ backend # "up" => ~node /\ Holders = {}
  /\ backend = "destroyed" => pc \in {"off", "exited"}

\* The samples of q are numbered in increasing order, above low and up to high.
InOrder(q, low, high) ==
  \A i \in 1..Len(q) :
    /\ q[i].num \in (low + 1)..high
    /\ \A j \in 1..Len(q) : i < j => q[i].num < q[j].num

\* A connection holds, in order, samples newer than the last one handed over.
OrderInv ==
  \A s \in Subscriptions, p \in Publishers :
    seen[s][p] <= calls[p] /\ InOrder(queue[s][p], seen[s][p], calls[p])

-------------------------------------------------------------------------------
\* A push onto a connection's buffer yields a buffer: never longer than the
\* depth, never empty, ending in the new sample.
LEMMA PushIsBuffer ==
  ASSUME NEW S, NEW q \in Seq(S), NEW x \in S, Len(q) <= QueueDepth
  PROVE  /\ Push(q, x) \in Seq(S)
         /\ Len(Push(q, x)) \in 1..QueueDepth
         /\ Push(q, x)[Len(Push(q, x))] = x
<1>1. CASE Len(q) = QueueDepth
  <2>1. q # <<>> /\ Len(q) \in Nat
    BY <1>1, DepthAssumption
  <2>2. Tail(q) \in Seq(S) /\ Len(Tail(q)) = Len(q) - 1
    BY <2>1
  <2> QED BY <1>1, <2>1, <2>2, DepthAssumption DEF Push
<1>2. CASE Len(q) # QueueDepth
  BY <1>2, DepthAssumption DEF Push
<1> QED BY <1>1, <1>2

-------------------------------------------------------------------------------
\* The initial state is representable.
LEMMA TypeInit == Init => TypeOK
<1> HAVE Init
<1>1. DataTypeOK
  BY BoundAssumption, DepthAssumption DEF Init, DataTypeOK, Empty
<1>2. LifeTypeOK /\ PollTypeOK
  BY DEF Init, LifeTypeOK, PollTypeOK, Stages, Backends, PollStates, Dispatching
<1> QED BY <1>1, <1>2 DEF TypeOK

\* Every action keeps the state representable.
LEMMA TypeStep == TypeOK /\ [Next]_vars => TypeOK'
<1> SUFFICES ASSUME TypeOK, [Next]_vars PROVE TypeOK'
  OBVIOUS
<1> USE DEF pubVars, dataVars, userVars, subVars, nodeVars, pollVars, TypeOK, DataTypeOK,
     LifeTypeOK, PollTypeOK, Stages, Backends, PollStates, Dispatching
<1>1. ASSUME NEW p \in Publishers, NEW body \in Bodies, Send(p, body) PROVE TypeOK'
  <2> DEFINE sample == [num |-> calls[p] + 1, body |-> body]
  <2>1. sample \in Sample /\ calls[p] + 1 \in 0..MaxCalls
    BY <1>1, BoundAssumption DEF Send, CanPublish, Sample, DataTypeOK
  <2>2. \A s \in Subscriptions :
          /\ queue'[s] \in [Publishers -> Seq(Sample)]
          /\ \A r \in Publishers : Len(queue'[s][r]) <= QueueDepth
    <3> SUFFICES ASSUME NEW s \in Subscriptions
                 PROVE  /\ queue'[s] \in [Publishers -> Seq(Sample)]
                        /\ \A r \in Publishers : Len(queue'[s][r]) <= QueueDepth
      OBVIOUS
    <3>1. queue'[s] = IF s \in subscriber
                      THEN [queue[s] EXCEPT ![p] = Push(@, sample)] ELSE queue[s]
      BY <1>1 DEF Send
    <3>2. /\ Push(queue[s][p], sample) \in Seq(Sample)
          /\ Len(Push(queue[s][p], sample)) \in 1..QueueDepth
      <4>1. queue[s][p] \in Seq(Sample) /\ Len(queue[s][p]) <= QueueDepth
        BY DEF DataTypeOK
      <4> HIDE DEF sample
      <4> QED BY <2>1, <4>1, PushIsBuffer
    <3> HIDE DEF sample
    <3> QED BY <3>1, <3>2, DepthAssumption DEF DataTypeOK
  <2>3. queue' \in [Subscriptions -> [Publishers -> Seq(Sample)]]
    BY <1>1, <2>2 DEF Send
  <2> QED BY <1>1, <2>1, <2>2, <2>3 DEF Send, DataTypeOK, LifeTypeOK, PollTypeOK
<1>2. ASSUME NEW p \in Publishers, PublishFails(p) PROVE TypeOK'
  BY <1>2, BoundAssumption DEF PublishFails, CanPublish
<1>3. ASSUME NEW p \in Publishers, Notify(p) PROVE TypeOK'
  BY <1>3 DEF Notify, Unannounced
<1>4. ASSUME NEW p \in Publishers, MissedNotify(p) PROVE TypeOK'
  BY <1>4 DEF MissedNotify, Unannounced
<1>5. ASSUME NEW s \in Subscriptions, CreateSubscriber(s) PROVE TypeOK'
  BY <1>5 DEF CreateSubscriber
<1>6. ASSUME NEW s \in Subscriptions, CreateListener(s) PROVE TypeOK'
  BY <1>6 DEF CreateListener
<1>7. ASSUME NEW s \in Subscriptions, ConstructionThrows(s) PROVE TypeOK'
  BY <1>7, DepthAssumption DEF ConstructionThrows, Empty
<1>8. ASSUME NEW s \in Subscriptions, Attach(s) PROVE TypeOK'
  BY <1>8 DEF Attach
<1>9. ASSUME NEW s \in Subscriptions, ActivateUnattached(s) PROVE TypeOK'
  BY <1>9 DEF ActivateUnattached
<1>10. ASSUME NEW s \in Subscriptions, Register(s) PROVE TypeOK'
  BY <1>10 DEF Register
<1>11. ASSUME NEW s \in Subscriptions, Reset(s) PROVE TypeOK'
  BY <1>11 DEF Reset
<1>12. ASSUME NEW s \in Subscriptions, Unregister(s) PROVE TypeOK'
  BY <1>12 DEF Unregister, Detach
<1>13. ASSUME NEW s \in Subscriptions, Close(s) PROVE TypeOK'
  BY <1>13, DepthAssumption DEF Close, Destroy, Empty
<1>14. ASSUME DropNode PROVE TypeOK'
  BY <1>14 DEF DropNode
<1>15. ASSUME Join PROVE TypeOK'
  BY <1>15 DEF Join
<1>16. ASSUME Shutdown PROVE TypeOK'
  BY <1>16 DEF Shutdown
<1>17. ASSUME PollTop PROVE TypeOK'
  BY <1>17 DEF PollTop, OnlyPoll, Goto
<1>18. ASSUME PollWait PROVE TypeOK'
  BY <1>18 DEF PollWait, Ready, OnlyPoll, Goto
<1>19. ASSUME PollTimeout PROVE TypeOK'
  BY <1>19 DEF PollTimeout, OnlyPoll, Goto
<1>20. ASSUME NEW s \in Subscriptions, PollLookup(s) PROVE TypeOK'
  BY <1>20 DEF PollLookup, OnlyPoll, Goto
<1>21. ASSUME PollBatchDone PROVE TypeOK'
  BY <1>21 DEF PollBatchDone, OnlyPoll, Goto
<1>22. ASSUME PollLock PROVE TypeOK'
  BY <1>22 DEF PollLock, OnlyPoll, Goto
<1>23. ASSUME PollDrainEvents PROVE TypeOK'
  BY <1>23 DEF PollDrainEvents, OnlyPoll, Goto
<1>24. ASSUME PollTrigger PROVE TypeOK'
  BY <1>24 DEF PollTrigger, OnlyPoll, Goto
<1>25. ASSUME PollHook PROVE TypeOK'
  BY <1>25 DEF PollHook, OnlyPoll, Goto
<1>26. ASSUME NEW p \in Publishers, PollTake(p) PROVE TypeOK'
  <2>1. task \in Subscriptions
    BY <1>26 DEF PollTake, HandOver, PollTypeOK, Dispatching
  <2>2. /\ queue[task][p] \in Seq(Sample) /\ queue[task][p] # <<>>
        /\ Len(queue[task][p]) <= QueueDepth
    BY <1>26, <2>1 DEF PollTake, HandOver, DataTypeOK
  <2>3. /\ Head(queue[task][p]) \in Sample
        /\ Tail(queue[task][p]) \in Seq(Sample)
        /\ Len(Tail(queue[task][p])) <= QueueDepth
    BY <2>2, DepthAssumption
  <2>4. Head(queue[task][p]).num \in 0..MaxCalls
    BY <2>3, BoundAssumption DEF Sample
  <2>5. /\ seen' \in [Subscriptions -> [Publishers -> 0..MaxCalls]]
        /\ got' \in [Subscriptions -> [Publishers -> Nat]]
    <3>1. CASE Head(queue[task][p]).body = "valid"
      <4>1. /\ seen' = [seen EXCEPT ![task][p] = Head(queue[task][p]).num]
            /\ got' = [got EXCEPT ![task][p] = @ + 1]
        BY <1>26, <3>1 DEF PollTake, HandOver
      <4>2. /\ seen \in [Subscriptions -> [Publishers -> 0..MaxCalls]]
            /\ got \in [Subscriptions -> [Publishers -> Nat]]
        OBVIOUS
      <4>3. seen' \in [Subscriptions -> [Publishers -> 0..MaxCalls]]
        BY <2>1, <2>4, <4>1, <4>2
      <4>4. got' \in [Subscriptions -> [Publishers -> Nat]]
        BY <2>1, <4>1, <4>2
      <4> QED BY <4>3, <4>4
    <3>2. CASE Head(queue[task][p]).body # "valid"
      BY <1>26, <3>2 DEF PollTake, HandOver
    <3> QED BY <3>1, <3>2
  <2>6. /\ queue' \in [Subscriptions -> [Publishers -> Seq(Sample)]]
        /\ \A s \in Subscriptions, r \in Publishers : Len(queue'[s][r]) <= QueueDepth
    BY <1>26, <2>1, <2>3 DEF PollTake
  <2> QED BY <1>26, <2>5, <2>6 DEF PollTake
<1>27. ASSUME PollDrained PROVE TypeOK'
  BY <1>27 DEF PollDrained, OnlyPoll, Goto
<1>28. ASSUME PollReceiveError PROVE TypeOK'
  BY <1>28 DEF PollReceiveError, OnlyPoll, Goto
<1>29. ASSUME PollRelease PROVE TypeOK'
  BY <1>29 DEF PollRelease, OnlyPoll, Goto
<1>30. ASSUME PollUnregister PROVE TypeOK'
  BY <1>30 DEF PollUnregister, Detach, OnlyPoll, Goto
<1>31. ASSUME PollClose PROVE TypeOK'
  BY <1>31, DepthAssumption DEF PollClose, Destroy, Empty, OnlyPoll, Goto
<1>32. ASSUME UNCHANGED vars PROVE TypeOK'
  BY <1>32 DEF vars
<1> QED BY <1>1, <1>2, <1>3, <1>4, <1>5, <1>6, <1>7, <1>8, <1>9, <1>10, <1>11,
     <1>12, <1>13, <1>14, <1>15, <1>16, <1>17, <1>18, <1>19, <1>20, <1>21, <1>22,
     <1>23, <1>24, <1>25, <1>26, <1>27, <1>28, <1>29, <1>30, <1>31, <1>32 DEF Next,
     PublisherNext, UserNext, LibraryRuns, PollNext, Terminated

\* Type correctness: every action keeps the state representable, and no
\* connection outgrows its buffer.
THEOREM TypeCorrect == Spec => []TypeOK
<1>1. Init => TypeOK
  BY TypeInit
<1>2. TypeOK /\ [Next]_vars => TypeOK'
  BY TypeStep
<1> QED BY <1>1, <1>2, PTL DEF Spec

-------------------------------------------------------------------------------
Control == LifeInv /\ DispatchInv /\ BackendInv

\* Who may destroy what, and when: the attachments, the listeners and the objects
\* a dispatch uses, through every interleaving of user threads and poll thread.
THEOREM ControlHolds == Spec => []Control
<1>1. Init => Control
  BY DEF Init, Control, LifeInv, DispatchInv, BackendInv, Holders
<1>2. Control /\ TypeOK /\ [Next]_vars => Control'
  <2> SUFFICES ASSUME Control, TypeOK, [Next]_vars PROVE Control'
    OBVIOUS
  <2> USE DEF pubVars, dataVars, userVars, subVars, nodeVars, pollVars, Control, LifeInv,
       DispatchInv, BackendInv, Held, Holders, PollDestroys, DataTypeOK, TypeOK,
       LifeTypeOK, PollTypeOK, Dispatching
  <2>1. ASSUME NEW p \in Publishers, NEW body \in Bodies, Send(p, body) PROVE Control'
    BY <2>1 DEF Send
  <2>2. ASSUME NEW p \in Publishers, PublishFails(p) PROVE Control'
    BY <2>2 DEF PublishFails
  <2>3. ASSUME NEW p \in Publishers, Notify(p) PROVE Control'
    BY <2>3 DEF Notify
  <2>4. ASSUME NEW p \in Publishers, MissedNotify(p) PROVE Control'
    BY <2>4 DEF MissedNotify
  <2>5. ASSUME NEW s \in Subscriptions, CreateSubscriber(s) PROVE Control'
    BY <2>5 DEF CreateSubscriber
  <2>6. ASSUME NEW s \in Subscriptions, CreateListener(s) PROVE Control'
    BY <2>6 DEF CreateListener
  <2>7. ASSUME NEW s \in Subscriptions, ConstructionThrows(s) PROVE Control'
    BY <2>7 DEF ConstructionThrows
  <2>8. ASSUME NEW s \in Subscriptions, Attach(s) PROVE Control'
    BY <2>8 DEF Attach
  <2>9. ASSUME NEW s \in Subscriptions, ActivateUnattached(s) PROVE Control'
    BY <2>9 DEF ActivateUnattached
  <2>10. ASSUME NEW s \in Subscriptions, Register(s) PROVE Control'
    BY <2>10 DEF Register
  <2>11. ASSUME NEW s \in Subscriptions, Reset(s) PROVE Control'
    BY <2>11 DEF Reset
  <2>12. ASSUME NEW s \in Subscriptions, Unregister(s) PROVE Control'
    BY <2>12 DEF Unregister, Detach
  <2>13. ASSUME NEW s \in Subscriptions, Close(s) PROVE Control'
    BY <2>13 DEF Close, Destroy
  <2>14. ASSUME DropNode PROVE Control'
    BY <2>14 DEF DropNode
  <2>15. ASSUME Join PROVE Control'
    BY <2>15 DEF Join
  <2>16. ASSUME Shutdown PROVE Control'
    BY <2>16 DEF Shutdown
  <2>17. ASSUME PollTop PROVE Control'
    BY <2>17 DEF PollTop, OnlyPoll, Goto
  <2>18. ASSUME PollWait PROVE Control'
    BY <2>18 DEF PollWait, OnlyPoll, Goto
  <2>19. ASSUME PollTimeout PROVE Control'
    BY <2>19 DEF PollTimeout, OnlyPoll, Goto
  <2>20. ASSUME NEW s \in Subscriptions, PollLookup(s) PROVE Control'
    BY <2>20 DEF PollLookup, OnlyPoll, Goto
  <2>21. ASSUME PollBatchDone PROVE Control'
    BY <2>21 DEF PollBatchDone, OnlyPoll, Goto
  <2>22. ASSUME PollLock PROVE Control'
    BY <2>22 DEF PollLock, OnlyPoll, Goto
  <2>23. ASSUME PollDrainEvents PROVE Control'
    BY <2>23 DEF PollDrainEvents, OnlyPoll, Goto
  <2>24. ASSUME PollTrigger PROVE Control'
    BY <2>24 DEF PollTrigger, OnlyPoll, Goto
  <2>25. ASSUME PollHook PROVE Control'
    BY <2>25 DEF PollHook, OnlyPoll, Goto
  <2>26. ASSUME NEW p \in Publishers, PollTake(p) PROVE Control'
    BY <2>26 DEF PollTake, HandOver, OnlyPoll, Goto
  <2>27. ASSUME PollDrained PROVE Control'
    BY <2>27 DEF PollDrained, OnlyPoll, Goto
  <2>28. ASSUME PollReceiveError PROVE Control'
    BY <2>28 DEF PollReceiveError, OnlyPoll, Goto
  <2>29. ASSUME PollRelease PROVE Control'
    BY <2>29 DEF PollRelease, OnlyPoll, Goto
  <2>30. ASSUME PollUnregister PROVE Control'
    BY <2>30 DEF PollUnregister, Detach, OnlyPoll, Goto
  <2>31. ASSUME PollClose PROVE Control'
    BY <2>31 DEF PollClose, Destroy, OnlyPoll, Goto
  <2>32. ASSUME UNCHANGED vars PROVE Control'
    BY <2>32 DEF vars
  <2> QED BY <2>1, <2>2, <2>3, <2>4, <2>5, <2>6, <2>7, <2>8, <2>9, <2>10, <2>11,
       <2>12, <2>13, <2>14, <2>15, <2>16, <2>17, <2>18, <2>19, <2>20, <2>21, <2>22,
       <2>23, <2>24, <2>25, <2>26, <2>27, <2>28, <2>29, <2>30, <2>31, <2>32 DEF Next,
       PublisherNext, UserNext, LibraryRuns, PollNext, Terminated
<1> QED BY <1>1, <1>2, TypeCorrect, PTL DEF Spec

\* on_data_received and the drain only touch objects the poll thread shares.
THEOREM DispatchIsSafe == Spec => []DispatchTouchesLiveObjects
<1>1. Control => DispatchTouchesLiveObjects
  BY DEF Control, DispatchInv, DispatchTouchesLiveObjects
<1> QED BY <1>1, ControlHolds, PTL

\* unregister_listener always precedes the destruction of the listener.
THEOREM DetachIsFirst == Spec => []DetachedBeforeClosed
<1>1. TypeOK /\ Control => DetachedBeforeClosed
  BY DEF Control, LifeInv, DetachedBeforeClosed, TypeOK, LifeTypeOK
<1> QED BY <1>1, TypeCorrect, ControlHolds, PTL

\* ~EnterpriseNodeBackendImpl returns to nobody's surprise: the thread is over
\* and no subscription, hence no attachment, is left.
THEOREM BackendIsLast == Spec => []BackendOutlivesUsers
<1>1. TypeOK /\ Control => BackendOutlivesUsers
  BY DEF Control, LifeInv, BackendInv, BackendOutlivesUsers, Holders, TypeOK,
       LifeTypeOK
<1> QED BY <1>1, TypeCorrect, ControlHolds, PTL

\* No interleaving of publishers, poll thread and lifecycle leaves a sample whose
\* announcement was consumed without a look at the queue.
THEOREM NoWakeupIsLost == Spec => []NoLostWakeup
<1>1. Init => NoLostWakeup
  BY DEF Init, NoLostWakeup, Empty
<1>2. NoLostWakeup /\ TypeOK /\ Control /\ [Next]_vars => NoLostWakeup'
  <2> SUFFICES ASSUME NoLostWakeup, TypeOK, Control, [Next]_vars PROVE NoLostWakeup'
    OBVIOUS
  <2> USE DEF pubVars, dataVars, userVars, subVars, nodeVars, pollVars, NoLostWakeup, Serving,
       Dying, Held, Control, LifeInv, DispatchInv, DataTypeOK, TypeOK, LifeTypeOK,
       PollTypeOK, Dispatching, PollDestroys
  <2>1. ASSUME NEW p \in Publishers, NEW body \in Bodies, Send(p,
     body) PROVE NoLostWakeup'
    BY <2>1 DEF Send
  <2>2. ASSUME NEW p \in Publishers, PublishFails(p) PROVE NoLostWakeup'
    BY <2>2 DEF PublishFails
  <2>3. ASSUME NEW p \in Publishers, Notify(p) PROVE NoLostWakeup'
    BY <2>3 DEF Notify, Unannounced
  <2>4. ASSUME NEW p \in Publishers, MissedNotify(p) PROVE NoLostWakeup'
    BY <2>4 DEF MissedNotify, Unannounced
  <2>5. ASSUME NEW s \in Subscriptions, CreateSubscriber(s) PROVE NoLostWakeup'
    BY <2>5 DEF CreateSubscriber
  <2>6. ASSUME NEW s \in Subscriptions, CreateListener(s) PROVE NoLostWakeup'
    BY <2>6 DEF CreateListener
  <2>7. ASSUME NEW s \in Subscriptions, ConstructionThrows(s) PROVE NoLostWakeup'
    BY <2>7 DEF ConstructionThrows, Empty
  <2>8. ASSUME NEW s \in Subscriptions, Attach(s) PROVE NoLostWakeup'
    BY <2>8 DEF Attach
  <2>9. ASSUME NEW s \in Subscriptions, ActivateUnattached(s) PROVE NoLostWakeup'
    BY <2>9 DEF ActivateUnattached
  <2>10. ASSUME NEW s \in Subscriptions, Register(s) PROVE NoLostWakeup'
    BY <2>10 DEF Register
  <2>11. ASSUME NEW s \in Subscriptions, Reset(s) PROVE NoLostWakeup'
    BY <2>11 DEF Reset
  <2>12. ASSUME NEW s \in Subscriptions, Unregister(s) PROVE NoLostWakeup'
    BY <2>12 DEF Unregister, Detach
  <2>13. ASSUME NEW s \in Subscriptions, Close(s) PROVE NoLostWakeup'
    BY <2>13 DEF Close, Destroy, Empty
  <2>14. ASSUME DropNode PROVE NoLostWakeup'
    BY <2>14 DEF DropNode
  <2>15. ASSUME Join PROVE NoLostWakeup'
    BY <2>15 DEF Join
  <2>16. ASSUME Shutdown PROVE NoLostWakeup'
    BY <2>16 DEF Shutdown
  <2>17. ASSUME PollTop PROVE NoLostWakeup'
    BY <2>17 DEF PollTop, OnlyPoll, Goto
  <2>18. ASSUME PollWait PROVE NoLostWakeup'
    BY <2>18 DEF PollWait, OnlyPoll, Goto
  <2>19. ASSUME PollTimeout PROVE NoLostWakeup'
    BY <2>19 DEF PollTimeout, OnlyPoll, Goto
  <2>20. ASSUME NEW s \in Subscriptions, PollLookup(s) PROVE NoLostWakeup'
    BY <2>20 DEF PollLookup, OnlyPoll, Goto
  <2>21. ASSUME PollBatchDone PROVE NoLostWakeup'
    BY <2>21 DEF PollBatchDone, OnlyPoll, Goto
  <2>22. ASSUME PollLock PROVE NoLostWakeup'
    BY <2>22 DEF PollLock, OnlyPoll, Goto
  <2>23. ASSUME PollDrainEvents PROVE NoLostWakeup'
    BY <2>23 DEF PollDrainEvents, OnlyPoll, Goto
  <2>24. ASSUME PollTrigger PROVE NoLostWakeup'
    BY <2>24 DEF PollTrigger, OnlyPoll, Goto
  <2>25. ASSUME PollHook PROVE NoLostWakeup'
    BY <2>25 DEF PollHook, OnlyPoll, Goto
  <2>26. ASSUME NEW p \in Publishers, PollTake(p) PROVE NoLostWakeup'
    BY <2>26 DEF PollTake, HandOver, OnlyPoll, Goto
  <2>27. ASSUME PollDrained PROVE NoLostWakeup'
    BY <2>27 DEF PollDrained, Goto, Empty
  <2>28. ASSUME PollReceiveError PROVE NoLostWakeup'
    BY <2>28 DEF PollReceiveError, OnlyPoll, Goto
  <2>29. ASSUME PollRelease PROVE NoLostWakeup'
    BY <2>29 DEF PollRelease, OnlyPoll, Goto
  <2>30. ASSUME PollUnregister PROVE NoLostWakeup'
    BY <2>30 DEF PollUnregister, Detach, OnlyPoll, Goto
  <2>31. ASSUME PollClose PROVE NoLostWakeup'
    BY <2>31 DEF PollClose, Destroy, Goto, Empty
  <2>32. ASSUME UNCHANGED vars PROVE NoLostWakeup'
    BY <2>32 DEF vars
  <2> QED BY <2>1, <2>2, <2>3, <2>4, <2>5, <2>6, <2>7, <2>8, <2>9, <2>10, <2>11,
       <2>12, <2>13, <2>14, <2>15, <2>16, <2>17, <2>18, <2>19, <2>20, <2>21, <2>22,
       <2>23, <2>24, <2>25, <2>26, <2>27, <2>28, <2>29, <2>30, <2>31, <2>32 DEF Next,
       PublisherNext, UserNext, LibraryRuns, PollNext, Terminated
<1> QED BY <1>1, <1>2, TypeCorrect, ControlHolds, PTL DEF Spec

-------------------------------------------------------------------------------
\* A publish keeps a connection in order, full or not.
LEMMA PushInOrder ==
  ASSUME NEW q \in Seq(Sample), NEW x \in Sample, Len(q) <= QueueDepth,
         NEW low \in Nat, NEW high \in Nat, low <= high,
         x.num = high + 1, InOrder(q, low, high)
  PROVE  InOrder(Push(q, x), low, high + 1)
<1>1. Len(q) \in Nat /\ \A i \in 1..Len(q) : q[i].num \in (low + 1)..high
  BY DEF InOrder
<1>2. CASE Len(q) = QueueDepth
  <2>1. q # <<>> /\ Len(q) \in Nat \ {0}
    BY <1>2, DepthAssumption
  <2>2. /\ Tail(q) \in Seq(Sample) /\ Len(Tail(q)) = Len(q) - 1
        /\ \A i \in 1..(Len(q) - 1) : Tail(q)[i] = q[i + 1]
    BY <2>1
  <2>3. Push(q, x) = Append(Tail(q), x)
    BY <1>2 DEF Push
  <2>4. /\ Len(Push(q, x)) = Len(q)
        /\ Push(q, x)[Len(q)] = x
        /\ \A i \in 1..(Len(q) - 1) : Push(q, x)[i] = q[i + 1]
    BY <2>1, <2>2, <2>3
  <2>5. /\ \A i \in 1..(Len(q) - 1) : Push(q, x)[i].num \in (low + 1)..high
        /\ Push(q, x)[Len(q)].num = high + 1
    BY <1>1, <2>1, <2>4
  <2>6. \A i, j \in 1..(Len(q) - 1) : i < j => Push(q, x)[i].num < Push(q, x)[j].num
    BY <2>1, <2>4 DEF InOrder
  <2>7. \A i \in 1..Len(q) : i \in 1..(Len(q) - 1) \/ i = Len(q)
    BY <2>1, <1>1
  <2> QED BY <2>4, <2>5, <2>6, <2>7 DEF InOrder
<1>3. CASE Len(q) # QueueDepth
  <2>1. Push(q, x) = Append(q, x)
    BY <1>3 DEF Push
  <2>2. /\ Len(Push(q, x)) = Len(q) + 1
        /\ Push(q, x)[Len(q) + 1] = x
        /\ \A i \in 1..Len(q) : Push(q, x)[i] = q[i]
    BY <2>1
  <2>3. /\ \A i \in 1..Len(q) : Push(q, x)[i].num \in (low + 1)..high
        /\ Push(q, x)[Len(q) + 1].num = high + 1
    BY <1>1, <2>2
  <2>4. \A i, j \in 1..Len(q) : i < j => Push(q, x)[i].num < Push(q, x)[j].num
    BY <2>2 DEF InOrder
  <2>5. \A i \in 1..(Len(q) + 1) : i \in 1..Len(q) \/ i = Len(q) + 1
    BY <1>1
  <2> QED BY <1>1, <2>2, <2>3, <2>4, <2>5 DEF InOrder
<1> QED BY <1>2, <1>3

\* Taking the oldest sample leaves newer ones.
LEMMA TailInOrder ==
  ASSUME NEW q \in Seq(Sample), q # <<>>, NEW low \in Nat, NEW high \in Nat,
         InOrder(q, low, high)
  PROVE  /\ Head(q).num \in (low + 1)..high
         /\ InOrder(Tail(q), low, high)
         /\ InOrder(Tail(q), Head(q).num, high)
<1>1. /\ Len(q) \in Nat \ {0} /\ Head(q) = q[1] /\ Len(Tail(q)) = Len(q) - 1
      /\ \A i \in 1..(Len(q) - 1) : Tail(q)[i] = q[i + 1]
  OBVIOUS
<1>2. \A i \in 1..Len(q) : q[i].num \in (low + 1)..high
  BY DEF InOrder
<1>3. \A i, j \in 1..(Len(q) - 1) : i < j => Tail(q)[i].num < Tail(q)[j].num
  BY <1>1 DEF InOrder
<1>4. \A i \in 1..(Len(q) - 1) : q[1].num < Tail(q)[i].num
  BY <1>1 DEF InOrder
<1>5. \A i \in 1..(Len(q) - 1) : Tail(q)[i].num \in (low + 1)..high
  BY <1>1, <1>2
<1> QED BY <1>1, <1>2, <1>3, <1>4, <1>5 DEF InOrder

\* What a step does to the samples: a publish call, a receive, or nothing except
\* that a subscription going away takes its connections with it.
LEMMA StepKinds ==
  ASSUME TypeOK, [Next]_vars
  PROVE  \/ \E p \in Publishers : \/ \E body \in Bodies : Send(p, body)
                                 \/ PublishFails(p) \/ PollTake(p)
         \/ /\ UNCHANGED <<calls, seen, got>>
            /\ \A s \in Subscriptions : queue'[s] \in {queue[s], Empty}
<1> USE DEF pubVars, userVars, dataVars, TypeOK, DataTypeOK
<1>1. ASSUME NEW s \in Subscriptions, ConstructionThrows(s) \/ Destroy(s)
      PROVE  /\ UNCHANGED <<calls, seen, got>>
             /\ \A r \in Subscriptions : queue'[r] \in {queue[r], Empty}
  BY <1>1 DEF ConstructionThrows, Destroy
<1>2. CASE PollClose
  <2>1. task \in Subscriptions /\ Destroy(task)
    BY <1>2 DEF PollClose, PollTypeOK, Dispatching
  <2> QED BY <1>1, <2>1
<1>3. CASE UNCHANGED <<calls, seen, got, queue>>
  BY <1>3
<1>4. ASSUME ~PollClose, \A s \in Subscriptions : ~(ConstructionThrows(s) \/ Destroy(s)),
             \A p \in Publishers : /\ \A body \in Bodies : ~Send(p, body)
                                 /\ ~PublishFails(p) /\ ~PollTake(p)
      PROVE  UNCHANGED <<calls, seen, got, queue>>
  BY <1>4 DEF Next, PublisherNext, UserNext, LibraryRuns, PollNext, Terminated, vars,
       Notify, MissedNotify, CreateSubscriber, CreateListener, Attach,
       ActivateUnattached, Register, Reset, Unregister, Detach, Close, DropNode, Join,
       Shutdown, PollTop, PollWait, PollTimeout, PollLookup, PollBatchDone, PollLock,
       PollDrainEvents, PollTrigger, PollHook, PollDrained, PollReceiveError,
       PollRelease, PollUnregister, OnlyPoll
<1> QED BY <1>1, <1>2, <1>3, <1>4

\* Publishing and receiving keep every connection in order.
LEMMA OrderStep == OrderInv /\ TypeOK /\ [Next]_vars => OrderInv'
<1> SUFFICES ASSUME OrderInv, TypeOK, [Next]_vars PROVE OrderInv'
  OBVIOUS
<1> USE DEF pubVars, userVars
<1>1. ASSUME NEW p \in Publishers, NEW body \in Bodies, Send(p, body)
      PROVE  OrderInv'
  <2> DEFINE sample == [num |-> calls[p] + 1, body |-> body]
  <2>1. /\ sample \in Sample /\ sample.num = calls[p] + 1
        /\ calls' = [calls EXCEPT ![p] = @ + 1] /\ seen' = seen
    BY <1>1, BoundAssumption DEF Send, CanPublish, Sample, TypeOK, DataTypeOK
  <2> SUFFICES ASSUME NEW s \in Subscriptions, NEW r \in Publishers
               PROVE  /\ seen'[s][r] <= calls'[r]
                      /\ InOrder(queue'[s][r], seen'[s][r], calls'[r])
    BY DEF OrderInv
  <2>2. /\ queue[s][r] \in Seq(Sample) /\ Len(queue[s][r]) <= QueueDepth
        /\ calls[r] \in Nat /\ seen[s][r] \in Nat
        /\ seen[s][r] <= calls[r] /\ InOrder(queue[s][r], seen[s][r], calls[r])
    BY BoundAssumption DEF TypeOK, DataTypeOK, OrderInv
  <2>3. CASE r = p /\ s \in subscriber
    <3>1. queue'[s][r] = Push(queue[s][r], sample) /\ calls'[r] = calls[r] + 1
      BY <1>1, <2>1, <2>3 DEF Send, TypeOK, DataTypeOK
    <3> HIDE DEF sample
    <3>2. InOrder(queue'[s][r], seen[s][r], calls[r] + 1)
      BY <2>1, <2>2, <2>3, <3>1, PushInOrder
    <3> QED BY <2>1, <2>2, <3>1, <3>2
  <2>4. CASE r = p /\ s \notin subscriber
    <3>1. queue'[s][r] = queue[s][r] /\ calls'[r] = calls[r] + 1
      BY <1>1, <2>1, <2>4 DEF Send, TypeOK, DataTypeOK
    <3> QED BY <2>1, <2>2, <3>1 DEF InOrder
  <2>5. CASE r # p
    <3>1. queue'[s][r] = queue[s][r] /\ calls'[r] = calls[r]
      BY <1>1, <2>1, <2>5 DEF Send, TypeOK, DataTypeOK
    <3> QED BY <2>1, <2>2, <3>1
  <2> QED BY <2>3, <2>4, <2>5
<1>2. ASSUME NEW p \in Publishers, PublishFails(p)
      PROVE  OrderInv'
  BY <1>2 DEF PublishFails, dataVars, OrderInv, InOrder, TypeOK, DataTypeOK
<1>3. ASSUME NEW p \in Publishers, PollTake(p)
      PROVE  OrderInv'
  <2>1. task \in Subscriptions /\ calls' = calls
    BY <1>3 DEF PollTake, HandOver, TypeOK, PollTypeOK, Dispatching
  <2> SUFFICES ASSUME NEW s \in Subscriptions, NEW r \in Publishers
               PROVE  /\ seen'[s][r] <= calls'[r]
                      /\ InOrder(queue'[s][r], seen'[s][r], calls'[r])
    BY DEF OrderInv
  <2>2. /\ queue[s][r] \in Seq(Sample) /\ calls[r] \in Nat /\ seen[s][r] \in Nat
        /\ seen[s][r] <= calls[r] /\ InOrder(queue[s][r], seen[s][r], calls[r])
    BY BoundAssumption DEF TypeOK, DataTypeOK, OrderInv
  <2>3. CASE s = task /\ r = p
    <3>1. /\ queue[s][r] # <<>> /\ queue'[s][r] = Tail(queue[s][r])
          /\ seen'[s][r] \in {seen[s][r], Head(queue[s][r]).num}
      BY <1>3, <2>3 DEF PollTake, HandOver, TypeOK, DataTypeOK
    <3> QED BY <2>1, <2>2, <3>1, TailInOrder
  <2>4. CASE ~(s = task /\ r = p)
    <3>1. queue'[s][r] = queue[s][r] /\ seen'[s][r] = seen[s][r]
      BY <1>3, <2>1, <2>4 DEF PollTake, HandOver, TypeOK, DataTypeOK
    <3> QED BY <2>1, <2>2, <3>1
  <2> QED BY <2>3, <2>4
<1>4. CASE /\ UNCHANGED <<calls, seen, got>>
           /\ \A s \in Subscriptions : queue'[s] \in {queue[s], Empty}
  BY <1>4 DEF OrderInv, InOrder, Empty
<1> QED BY <1>1, <1>2, <1>3, <1>4, StepKinds

\* A connection stays sorted and ahead of what the callback has seen.
THEOREM OrderHolds == Spec => []OrderInv
<1>1. Init => OrderInv
  BY DEF Init, OrderInv, InOrder, Empty
<1>2. OrderInv /\ TypeOK /\ [Next]_vars => OrderInv'
  BY OrderStep
<1> QED BY <1>1, <1>2, TypeCorrect, PTL DEF Spec

\* Every step of the channel is a step of the promise, or none.
LEMMA PromiseStep == TypeOK /\ OrderInv /\ [Next]_vars => [Promise!Next]_(Promise!vars)
<1> SUFFICES ASSUME TypeOK, OrderInv, [Next]_vars PROVE [Promise!Next]_(Promise!vars)
  OBVIOUS
<1>1. CASE \E p \in Publishers : (\E body \in Bodies : Send(p, body)) \/ PublishFails(p)
  BY <1>1 DEF Send, PublishFails, pubVars, userVars, Promise!Next, Promise!Publish
<1>2. ASSUME NEW p \in Publishers, PollTake(p) PROVE [Promise!Next]_(Promise!vars)
  <2>1. task \in Subscriptions /\ calls' = calls
    BY <1>2 DEF PollTake, HandOver, TypeOK, PollTypeOK, Dispatching, pubVars
  <2>2. CASE Head(queue[task][p]).body = "valid"
    <3>1. queue[task][p] \in Seq(Sample) /\ queue[task][p] # <<>>
      BY <1>2, <2>1 DEF PollTake, HandOver, TypeOK, DataTypeOK
    <3>2. /\ calls[p] \in Nat /\ seen[task][p] \in Nat
          /\ InOrder(queue[task][p], seen[task][p], calls[p])
      BY <2>1, BoundAssumption DEF OrderInv, TypeOK, DataTypeOK
    <3>3. Head(queue[task][p]).num \in (seen[task][p] + 1)..calls[p]
      BY <3>1, <3>2, TailInOrder
    <3>4. /\ seen' = [seen EXCEPT ![task][p] = Head(queue[task][p]).num]
          /\ got' = [got EXCEPT ![task][p] = @ + 1]
      BY <1>2, <2>2 DEF PollTake, HandOver
    <3>5. Promise!Deliver(task, p)
      BY <2>1, <3>3, <3>4 DEF Promise!Deliver
    <3> QED BY <2>1, <3>5 DEF Promise!Next
  <2>3. CASE Head(queue[task][p]).body # "valid"
    BY <1>2, <2>1, <2>3 DEF PollTake, HandOver, userVars, Promise!vars
  <2> QED BY <2>2, <2>3
<1>3. CASE UNCHANGED <<calls, seen, got>>
  BY <1>3 DEF Promise!vars
<1> QED BY <1>1, <1>2, <1>3, StepKinds

\* The channel with its buffers, events, threads and teardowns implements the
\* abstract promise: what a subscription gets of a publisher is a subsequence of
\* the calls.  A publish call maps to Publish, a parsed sample to Deliver, every
\* other step to a stutter.
THEOREM Refinement == Spec => ImplementsLatestWins
<1>1. Init => Promise!Init
  BY DEF Init, Promise!Init
<1>2. TypeOK /\ OrderInv /\ [Next]_vars => [Promise!Next]_(Promise!vars)
  BY PromiseStep
<1> QED BY <1>1, <1>2, TypeCorrect, OrderHolds, PTL DEF Spec, ImplementsLatestWins,
     Promise!Spec

Promises == INSTANCE LatestWinsProofs

\* The promise whose consequences LatestWinsProofs draws is the one implemented here.
LEMMA SamePromise == Promise!Spec => Promises!Spec
BY DEF Promise!Spec, Promise!Init, Promise!Next, Promise!Publish, Promise!Deliver,
   Promise!vars, Promises!Spec, Promises!Init, Promises!Next, Promises!Publish,
   Promises!Deliver, Promises!vars

\* What a callback of the channel gets, it gets at most once, and never after a newer one.
THEOREM DeliversOnce == Spec => []Promises!AtMostOnce /\ Promises!NeverBack
BY Refinement, SamePromise, Promises!AtMostOnceHolds, Promises!NeverBackHolds, PTL
   DEF ImplementsLatestWins

-------------------------------------------------------------------------------
(* The join of the backend's destructor.                                    *)

\* The states of the poll thread in which it holds no subscription and runs no code
\* of a user.
Harmless == {"off", "top", "wait", "batch", "lock", "exited"}

\* When the destructor has asked the thread to stop, the thread is not dispatching and
\* nothing can make it: join() never waits for a callback of a user.
JoinMeetsNoDispatch == backend = "joining" => attached = {} /\ pc \in Harmless

\* How many more steps the thread takes at most until join() returns.
Remaining ==
  CASE pc = "top" -> 1
    [] pc = "wait" -> 2
    [] pc = "batch" -> 2 + 2 * Cardinality(batch)
    [] pc = "lock" -> 3 + 2 * Cardinality(batch)
    [] OTHER -> 0

\* While the destructor joins, every step of the poll thread brings it closer to its
\* end, and nobody starts it or gives it work.
JoinIsBounded ==
  [][backend = "joining" /\ <<pc, batch>>' # <<pc, batch>> =>
       Remaining \in Nat /\ Remaining' \in Nat /\ Remaining' < Remaining]_vars

\* The thread is killed only together with the process.
Killed == pc = "aborted" => ~Alive

\* Only the failed join of the destructor kills it.
LEMMA KilledInv == Spec => []Killed
<1>1. Init => Killed
  BY DEF Init, Killed
<1>2. Killed /\ [Next]_vars => Killed'
  <2> SUFFICES ASSUME Killed, [Next]_vars PROVE Killed'
    OBVIOUS
  <2> USE DEF Killed, Alive, pubVars, nodeVars, pollVars, OnlyPoll, Goto
  <2>1. CASE Alive /\ PublisherNext
    BY <2>1 DEF PublisherNext, Send, PublishFails, Notify, MissedNotify
  <2>2. CASE Alive /\ UserNext
    BY <2>2
    DEF UserNext, LibraryRuns, CreateSubscriber, CreateListener, ConstructionThrows, Attach,
        ActivateUnattached, Register, Reset, Unregister, Close, DropNode, Join, Shutdown
  <2>3. CASE Alive /\ PollNext
    BY <2>3
    DEF PollNext, PollTop, PollWait, PollTimeout, PollLookup, PollBatchDone, PollLock,
        PollDrainEvents, PollTrigger, PollHook, PollTake, PollDrained, PollReceiveError,
        PollRelease, PollUnregister, PollClose
  <2>4. CASE Terminated \/ UNCHANGED vars
    BY <2>4 DEF Terminated, vars
  <2> QED BY <2>1, <2>2, <2>3, <2>4 DEF Next
<1> QED BY <1>1, <1>2, PTL DEF Spec

\* When the destructor runs, no subscription is left to be served.
LEMMA NobodyIsServed ==
  ASSUME TypeOK, Control, Killed, backend = "joining"
  PROVE  /\ JoinMeetsNoDispatch /\ ~node /\ attached = {}
         /\ \A s \in Subscriptions : stage[s] \in {"absent", "closed"}
<1>1. ~node /\ \A s \in Subscriptions : stage[s] \in {"absent", "closed"}
  BY DEF Control, BackendInv, Holders
<1>2. attached = {}
  BY <1>1 DEF Control, LifeInv, TypeOK, LifeTypeOK
<1>3. pc # "aborted" /\ (pc \in Dispatching => task \in Subscriptions)
  BY DEF TypeOK, PollTypeOK, Killed, Alive
<1> QED BY <1>1, <1>2, <1>3
    DEF JoinMeetsNoDispatch, Harmless, Control, DispatchInv, TypeOK, PollTypeOK, PollStates,
        Dispatching

\* ~EnterpriseNodeBackendImpl never waits for a dispatch that is under way: a callback
\* that blocks cannot hang the destruction of the node.
THEOREM JoinWaitsForNoCallback == Spec => []JoinMeetsNoDispatch
<1>1. TypeOK /\ Control /\ Killed => JoinMeetsNoDispatch
  BY NobodyIsServed DEF JoinMeetsNoDispatch
<1> QED BY <1>1, TypeCorrect, ControlHolds, KilledInv, PTL

\* While the destructor joins, the only steps of the poll thread are those that lead to
\* its exit.
LEMMA JoinStep ==
  ASSUME TypeOK, Control, Killed, [Next]_vars, backend = "joining",
         <<pc, batch>>' # <<pc, batch>>
  PROVE  \/ pc = "top" /\ pc' = "exited"
         \/ pc = "wait" /\ pc' = "top"
         \/ pc = "batch" /\ batch = {} /\ pc' \in {"top", "exited"}
         \/ /\ pc = "batch" /\ pc' \in {"batch", "lock"}
            /\ \E s \in batch : batch' = batch \ {s}
         \/ pc = "lock" /\ pc' = "batch" /\ batch' = batch
<1> USE DEF pubVars, nodeVars, pollVars, subVars, OnlyPoll, Goto, Stop, Alive
<1>1. /\ pc \in Harmless /\ ~node /\ attached = {}
      /\ \A s \in Subscriptions : stage[s] \in {"absent", "closed"}
      /\ task \in Subscriptions \/ pc # "lock"
  BY NobodyIsServed DEF JoinMeetsNoDispatch, TypeOK, PollTypeOK, Dispatching
<1>2. ~PublisherNext
  BY DEF PublisherNext, Send, PublishFails, Notify, MissedNotify
<1>3. ~UserNext
  BY <1>1
  DEF UserNext, LibraryRuns, CreateSubscriber, CreateListener, ConstructionThrows, Attach,
      ActivateUnattached, Register, Reset, Unregister, Close, DropNode, Join, Shutdown
<1>4. ~Terminated /\ ~UNCHANGED vars
  BY DEF Terminated, vars
<1>5. PollNext
  BY <1>2, <1>3, <1>4 DEF Next
<1>6. CASE pc \in {"off", "exited"}
  BY <1>5, <1>6
  DEF PollNext, PollTop, PollWait, PollTimeout, PollLookup, PollBatchDone, PollLock,
      PollDrainEvents, PollTrigger, PollHook, PollTake, PollDrained, PollReceiveError,
      PollRelease, PollUnregister, PollClose
<1>7. CASE pc = "top"
  BY <1>5, <1>7
  DEF PollNext, PollTop, PollWait, PollTimeout, PollLookup, PollBatchDone, PollLock,
      PollDrainEvents, PollTrigger, PollHook, PollTake, PollDrained, PollReceiveError,
      PollRelease, PollUnregister, PollClose
<1>8. CASE pc = "wait"
  BY <1>1, <1>5, <1>8
  DEF PollNext, PollTop, PollWait, PollTimeout, PollLookup, PollBatchDone, PollLock,
      PollDrainEvents, PollTrigger, PollHook, PollTake, PollDrained, PollReceiveError,
      PollRelease, PollUnregister, PollClose, Ready
<1>9. CASE pc = "batch"
  BY <1>5, <1>9
  DEF PollNext, PollTop, PollWait, PollTimeout, PollLookup, PollBatchDone, PollLock,
      PollDrainEvents, PollTrigger, PollHook, PollTake, PollDrained, PollReceiveError,
      PollRelease, PollUnregister, PollClose
<1>10. CASE pc = "lock"
  BY <1>1, <1>5, <1>10
  DEF PollNext, PollTop, PollWait, PollTimeout, PollLookup, PollBatchDone, PollLock,
      PollDrainEvents, PollTrigger, PollHook, PollTake, PollDrained, PollReceiveError,
      PollRelease, PollUnregister, PollClose
<1> QED BY <1>1, <1>6, <1>7, <1>8, <1>9, <1>10 DEF Harmless

\* The join is bounded by the attachments that had fired when it began, two steps for
\* each: what the destructor needs, beyond a scheduler that runs the thread, to return.
THEOREM JoinIsBoundedHolds == ASSUME IsFiniteSet(Subscriptions) PROVE Spec => JoinIsBounded
<1>1. TypeOK /\ Control /\ Killed /\ [Next]_vars
        => [backend = "joining" /\ <<pc, batch>>' # <<pc, batch>> =>
              Remaining \in Nat /\ Remaining' \in Nat /\ Remaining' < Remaining]_vars
  <2> SUFFICES ASSUME TypeOK, Control, Killed, [Next]_vars, backend = "joining",
                      <<pc, batch>>' # <<pc, batch>>
               PROVE  Remaining \in Nat /\ Remaining' \in Nat /\ Remaining' < Remaining
    OBVIOUS
  <2> DEFINE n == Cardinality(batch)
             m == Cardinality(batch')
  <2>1. IsFiniteSet(batch) /\ n \in Nat
    BY FS_Subset, FS_CardinalityType DEF TypeOK, PollTypeOK
  <2>2. CASE (pc = "top" /\ pc' = "exited") \/ (pc = "wait" /\ pc' = "top")
    BY <2>2 DEF Remaining
  <2>3. CASE pc = "batch" /\ batch = {} /\ pc' \in {"top", "exited"}
    <3>1. Remaining = 2 + 2 * n /\ Remaining' \in {0, 1}
      BY <2>3 DEF Remaining
    <3> HIDE DEF n
    <3> QED BY <2>1, <3>1
  <2>4. ASSUME pc = "batch", pc' \in {"batch", "lock"}, NEW s \in batch, batch' = batch \ {s}
        PROVE  Remaining \in Nat /\ Remaining' \in Nat /\ Remaining' < Remaining
    <3>1. m = n - 1 /\ m \in Nat
      BY <2>1, <2>4, FS_RemoveElement, FS_CardinalityType
    <3>2. Remaining = 2 + 2 * n /\ Remaining' \in {2 + 2 * m, 3 + 2 * m}
      BY <2>4 DEF Remaining
    <3> HIDE DEF n, m
    <3> QED BY <2>1, <3>1, <3>2
  <2>5. CASE pc = "lock" /\ pc' = "batch" /\ batch' = batch
    <3>1. Remaining = 3 + 2 * n /\ Remaining' = 2 + 2 * n
      BY <2>5 DEF Remaining
    <3> HIDE DEF n
    <3> QED BY <2>1, <3>1
  <2>6. CASE pc = "batch" /\ pc' \in {"batch", "lock"} /\ \E s \in batch : batch' = batch \ {s}
    BY <2>4, <2>6
  <2>7. \/ pc = "top" /\ pc' = "exited"
        \/ pc = "wait" /\ pc' = "top"
        \/ pc = "batch" /\ batch = {} /\ pc' \in {"top", "exited"}
        \/ pc = "batch" /\ pc' \in {"batch", "lock"} /\ \E s \in batch : batch' = batch \ {s}
        \/ pc = "lock" /\ pc' = "batch" /\ batch' = batch
    BY JoinStep
  <2> QED BY <2>2, <2>3, <2>5, <2>6, <2>7
<1> QED BY <1>1, TypeCorrect, ControlHolds, KilledInv, PTL DEF Spec, JoinIsBounded

-------------------------------------------------------------------------------
(* What it takes for the poll thread to join itself.                        *)

\* No subscription is dropped while its dispatch runs: what flat_subscription.hpp asks
\* of user callbacks, asked of every thread.
DropsBetweenDispatches ==
  [][\A s \in Subscriptions : stage[s] = "active" /\ stage'[s] # "active" => ~Held(s)]_vars

\* The node is dropped when all of its subscriptions are gone.
NodeGoesLast == [][node /\ ~node' => Holders = {}]_vars

\* The poll thread never holds the last reference on a subscription.
NeverLast ==
  /\ \A s \in Subscriptions : stage[s] \notin {"released", "orphaned"}
  /\ pc \notin {"unregister", "close"} /\ NoSelfJoin

\* Where subscriptions are dropped between their dispatches, the poll thread destroys
\* none of them and the node's backend never with it.
THEOREM NoSelfJoinByDrops == Spec /\ DropsBetweenDispatches => []NoSelfJoin
<1> DEFINE Calm ==
      \A s \in Subscriptions : stage[s] = "active" /\ stage'[s] # "active" => ~Held(s)
<1>1. Init => NeverLast
  BY DEF Init, NeverLast, NoSelfJoin
<1>2. TypeOK /\ Control /\ NeverLast /\ [Next]_vars /\ [Calm]_vars => NeverLast'
  <2> SUFFICES ASSUME TypeOK, Control, NeverLast, [Next]_vars, [Calm]_vars PROVE NeverLast'
    OBVIOUS
  <2> USE DEF pubVars, subVars, nodeVars, pollVars, OnlyPoll, Goto, TypeOK, LifeTypeOK,
       NeverLast, NoSelfJoin
  <2>1. CASE PublisherNext
    BY <2>1 DEF PublisherNext, Send, PublishFails, Notify, MissedNotify
  <2>2. ASSUME NEW s \in Subscriptions, Reset(s) PROVE NeverLast'
    <3>1. stage[s] = "active" /\ stage'[s] \in {"closing", "released", "orphaned"}
      BY <2>2 DEF Reset
    <3>2. ~Held(s)
      BY <3>1 DEF vars
    <3> QED BY <2>2, <3>2 DEF Reset
  <2>3. ASSUME NEW s \in Subscriptions, CreateSubscriber(s) \/ LibraryRuns(s) PROVE NeverLast'
    BY <2>3
    DEF LibraryRuns, CreateSubscriber, CreateListener, ConstructionThrows, Attach,
        ActivateUnattached, Register, Unregister, Detach, Close, Destroy
  <2>4. CASE DropNode \/ Join \/ Shutdown
    BY <2>4 DEF DropNode, Join, Shutdown
  <2>5. CASE PollRelease
    <3>1. task \in Subscriptions /\ stage[task] = "active"
      BY <2>5 DEF PollRelease, Control, DispatchInv, PollTypeOK, Dispatching
    <3> QED BY <2>5, <3>1 DEF PollRelease
  <2>6. CASE PollUnregister \/ PollClose
    BY <2>6 DEF PollUnregister, PollClose
  <2>7. CASE PollNext /\ ~PollRelease /\ ~PollUnregister /\ ~PollClose
    BY <2>7
    DEF PollNext, PollTop, PollWait, PollTimeout, PollLookup, PollBatchDone, PollLock,
        PollDrainEvents, PollTrigger, PollHook, PollTake, PollDrained, PollReceiveError
  <2>8. CASE Terminated \/ UNCHANGED vars
    BY <2>8 DEF Terminated, vars
  <2> QED
    BY <2>1, <2>2, <2>3, <2>4, <2>5, <2>6, <2>7, <2>8 DEF Next, UserNext
<1>3. NeverLast => NoSelfJoin
  BY DEF NeverLast
<1> QED BY <1>1, <1>2, <1>3, TypeCorrect, ControlHolds, PTL DEF Spec, DropsBetweenDispatches

\* Where the node outlives its subscriptions, the poll thread may destroy one of them
\* but the node's backend never with it.
THEOREM NoSelfJoinByOrder == Spec /\ NodeGoesLast => []NoSelfJoin
<1> DEFINE Outlives == (node \/ Holders = {}) /\ NoSelfJoin
<1>1. Init => Outlives
  BY DEF Init, NoSelfJoin
<1>2. TypeOK /\ Control /\ Outlives /\ [Next]_vars /\ [node /\ ~node' => Holders = {}]_vars
        => Outlives'
  <2> SUFFICES ASSUME TypeOK, Control, Outlives, [Next]_vars,
                      [node /\ ~node' => Holders = {}]_vars
               PROVE  Outlives'
    OBVIOUS
  <2> USE DEF pubVars, subVars, nodeVars, pollVars, OnlyPoll, Goto, TypeOK, LifeTypeOK,
       PollTypeOK, Holders, NoSelfJoin
  <2>1. CASE PublisherNext
    <3>1. UNCHANGED <<node, stage, backend>>
      BY <2>1 DEF PublisherNext, Send, PublishFails, Notify, MissedNotify
    <3> QED BY <3>1
  <2>2. ASSUME NEW s \in Subscriptions, CreateSubscriber(s) \/ LibraryRuns(s) \/ Reset(s)
        PROVE  Outlives'
    BY <2>2
    DEF LibraryRuns, CreateSubscriber, CreateListener, ConstructionThrows, Attach,
        ActivateUnattached, Register, Reset, Unregister, Detach, Close, Destroy
  <2>3. CASE DropNode \/ Join \/ Shutdown
    BY <2>3 DEF DropNode, Join, Shutdown, vars
  <2>4. CASE PollRelease \/ PollUnregister \/ PollClose
    <3>1. task \in Subscriptions /\ stage[task] \notin {"absent", "closed"}
      BY <2>4 DEF PollRelease, PollUnregister, PollClose, Detach, Destroy, Dispatching, Control,
                  DispatchInv
    <3>2. node
      BY <3>1
    <3> QED BY <2>4, <3>2 DEF PollRelease, PollUnregister, PollClose, Detach, Destroy
  <2>5. CASE PollNext /\ ~PollRelease /\ ~PollUnregister /\ ~PollClose
    BY <2>5
    DEF PollNext, PollTop, PollWait, PollTimeout, PollLookup, PollBatchDone, PollLock,
        PollDrainEvents, PollTrigger, PollHook, PollTake, PollDrained, PollReceiveError
  <2>6. CASE Terminated \/ UNCHANGED vars
    BY <2>6 DEF Terminated, vars
  <2> QED
    BY <2>1, <2>2, <2>3, <2>4, <2>5, <2>6 DEF Next, UserNext
<1> QED BY <1>1, <1>2, TypeCorrect, ControlHolds, PTL DEF Spec, NodeGoesLast

-------------------------------------------------------------------------------
(* The last round.                                                          *)

\* Nobody activates a subscription once the context is shut down.
NoLateActivation == [][~ok => registered' \subseteq registered]_vars

\* The poll thread that has gone of itself has triggered the guard condition of every
\* subscription it served: an executor that waits for one of them returns.
ExitWakesAll ==
  pc = "exited" /\ backend = "up" => \A s \in registered : stage[s] = "active" => guard[s]

\* In the last round a subscription has been woken or is still to be.
LastRound ==
  /\ final =>
       /\ ~ok /\ pc \notin {"off", "top", "wait"}
       /\ \A s \in registered :
            stage[s] = "active" =>
              guard[s] \/ s \in batch \/ (task = s /\ pc \in {"lock", "events", "trigger"})
  /\ pc = "exited" /\ backend = "up" => final /\ batch = {}
  /\ \A s \in registered : stage[s] # "pushing"

\* Whatever is dropped, sent or drained during the last round, it reaches everyone who
\* was attached when the context was shut down.  A subscription that is activated
\* after the callbacks were copied is never woken: hence the hypothesis.
THEOREM LastRoundWakesAll == Spec /\ NoLateActivation => []ExitWakesAll
<1> DEFINE OnTime == ~ok => registered' \subseteq registered
<1>1. Init => LastRound
  BY DEF Init, LastRound
<1>2. TypeOK /\ Control /\ LastRound /\ [Next]_vars /\ [OnTime]_vars => LastRound'
  <2> SUFFICES ASSUME TypeOK, Control, LastRound, [Next]_vars, [OnTime]_vars PROVE LastRound'
    OBVIOUS
  <2> USE DEF pubVars, dataVars, subVars, nodeVars, pollVars, OnlyPoll, Goto, TypeOK,
       DataTypeOK, LifeTypeOK, PollTypeOK, Dispatching, LastRound
  <2>1. CASE PublisherNext
    <3>1. UNCHANGED <<stage, registered, guard, pc, batch, final, task, ok, backend>>
      BY <2>1 DEF PublisherNext, Send, PublishFails, Notify, MissedNotify
    <3> QED BY <3>1
  <2>2. ASSUME NEW s \in Subscriptions, Register(s) PROVE LastRound'
    <3>1. final => s \in registered
      BY <2>2 DEF Register, vars
    <3>2. ~final
      BY <2>2, <3>1 DEF Register
    <3> QED BY <2>2, <3>2 DEF Register
  <2>3. ASSUME NEW s \in Subscriptions, Attach(s) \/ ActivateUnattached(s) PROVE LastRound'
    <3>1. s \notin registered
      BY <2>3 DEF Attach, ActivateUnattached, Control, LifeInv
    <3>2. /\ stage' \in {[stage EXCEPT ![s] = "pushing"], [stage EXCEPT ![s] = "active"]}
          /\ UNCHANGED <<registered, guard, pc, batch, final, task, ok, backend>>
      BY <2>3 DEF Attach, ActivateUnattached
    <3> QED BY <3>1, <3>2
  <2>4. ASSUME NEW s \in Subscriptions,
               \/ CreateSubscriber(s) \/ CreateListener(s) \/ ConstructionThrows(s)
               \/ Unregister(s) \/ Close(s) \/ Reset(s)
        PROVE  LastRound'
    BY <2>4
    DEF CreateSubscriber, CreateListener, ConstructionThrows, Reset, Unregister, Detach, Close,
        Destroy
  <2>5. CASE DropNode \/ Join \/ Shutdown
    BY <2>5 DEF DropNode, Join, Shutdown
  <2>6. CASE PollTop \/ PollWait \/ PollTimeout \/ PollBatchDone
    BY <2>6 DEF PollTop, PollWait, PollTimeout, PollBatchDone, Stop
  <2>7. ASSUME NEW s \in Subscriptions, PollLookup(s) PROVE LastRound'
    BY <2>7 DEF PollLookup
  <2>8. CASE PollLock \/ PollDrainEvents \/ PollTrigger \/ PollHook
    BY <2>8 DEF PollLock, PollDrainEvents, PollTrigger, PollHook
  <2>9. CASE (\E p \in Publishers : PollTake(p)) \/ PollDrained \/ PollReceiveError
    BY <2>9 DEF PollTake, PollDrained, PollReceiveError
  <2>10. CASE PollRelease \/ PollUnregister \/ PollClose
    <3>1. CASE PollRelease
      BY <3>1 DEF PollRelease
    <3>2. CASE PollUnregister
      BY <3>2 DEF PollUnregister, Detach
    <3>3. CASE PollClose
      <4>1. /\ pc = "close" /\ pc' \in {"batch", "aborted"} /\ task \in Subscriptions
            /\ UNCHANGED <<registered, batch, final, ok>>
            /\ stage' = [stage EXCEPT ![task] = "closed"] /\ guard' = [guard EXCEPT ![task] = FALSE]
        BY <3>3 DEF PollClose, Destroy
      <4> QED BY <4>1
    <3> QED BY <2>10, <3>1, <3>2, <3>3
  <2>11. CASE Terminated \/ UNCHANGED vars
    BY <2>11 DEF Terminated, vars
  <2> QED
    BY <2>1, <2>2, <2>3, <2>4, <2>5, <2>6, <2>7, <2>8, <2>9, <2>10, <2>11
    DEF Next, UserNext, LibraryRuns, PollNext
<1>3. LastRound => ExitWakesAll
  BY DEF LastRound, ExitWakesAll
<1> QED BY <1>1, <1>2, <1>3, TypeCorrect, ControlHolds, PTL DEF Spec, NoLateActivation
===============================================================================
