-------------------------- MODULE FlatExecutorsProofs --------------------------
(***************************************************************************)
(* What holds of FlatExecutors for every set of subscriptions, whatever    *)
(* they were created with, every number of threads and of wait sets.       *)
(***************************************************************************)
EXTENDS FlatExecutors, TLAPS

\* A push onto the buffer yields a buffer that is not empty.
LEMMA PushIsBuffer ==
  ASSUME NEW S, NEW q \in Seq(S), NEW x \in S, Len(q) <= QueueDepth
  PROVE  Push(q, x) \in Seq(S) /\ Len(Push(q, x)) <= QueueDepth /\ Push(q, x) # <<>>
<1>1. QueueDepth \in Nat \ {0}
  BY BoundsAssumption
<1>2. CASE Len(q) = QueueDepth
  <2>1. Tail(q) \in Seq(S) /\ Len(Tail(q)) = Len(q) - 1
    BY <1>1, <1>2
  <2> QED BY <1>1, <1>2, <2>1 DEF Push
<1>3. CASE Len(q) # QueueDepth
  BY <1>1, <1>3 DEF Push
<1> QED BY <1>2, <1>3

\* A sequence that is not empty is a head and a shorter tail.
LEMMA HeadAndTail ==
  ASSUME NEW S, NEW q \in Seq(S), q # <<>>
  PROVE  Head(q) \in S /\ Tail(q) \in Seq(S) /\ Len(Tail(q)) = Len(q) - 1
OBVIOUS

\* What is received was in the buffer, and the rest still is one.
LEMMA ReceiveIsTyped ==
  ASSUME TypeOK, NEW s \in Subscriptions, Receive(s)
  PROVE  /\ Head(queue[s]) \in 1..MaxCalls
         /\ queue' \in [Subscriptions -> Seq(1..MaxCalls)]
         /\ \A r \in Subscriptions : Len(queue'[r]) <= QueueDepth
<1>1. queue[s] \in Seq(1..MaxCalls) /\ queue[s] # <<>> /\ Len(queue[s]) <= QueueDepth
  BY DEF TypeOK, Receive
<1>2. Head(queue[s]) \in 1..MaxCalls /\ Tail(queue[s]) \in Seq(1..MaxCalls)
  BY <1>1, HeadAndTail
<1>3. Len(Tail(queue[s])) <= QueueDepth
  <2>1. Len(Tail(queue[s])) = Len(queue[s]) - 1 /\ Len(queue[s]) \in Nat
    BY <1>1, HeadAndTail
  <2> QED BY <1>1, <2>1, BoundsAssumption
<1> QED
  BY <1>2, <1>3 DEF TypeOK, Receive

\* The user's history grows by a sample or stays.
LEMMA HandOverIsTyped ==
  ASSUME TypeOK, NEW s \in Subscriptions, NEW n \in 1..MaxCalls, HandOver(s, n)
  PROVE  handed' \in [Subscriptions -> Seq(1..MaxCalls)]
<1>1. Append(handed[s], n) \in Seq(1..MaxCalls)
  BY DEF TypeOK
<1> QED BY <1>1 DEF TypeOK, HandOver

-------------------------------------------------------------------------------
\* Type correctness: every action keeps the state representable, and the mutex is
\* with the thread that looks for work.
THEOREM TypeCorrect == Spec => []TypeOK
<1>1. Init => TypeOK
  <2> HAVE Init
  <2>1. Spun \subseteq Subscriptions /\ QueueDepth \in Nat /\ MaxCalls \in Nat
    BY BoundsAssumption DEF Spun
  <2>2. \A t \in Threads : mutex # t
    BY NobodyAssumption DEF Init
  <2>3. hand \in [Threads -> Hand] /\ pc \in [Threads -> ThreadStates]
    BY <2>1 DEF Init, Hand, ThreadStates
  <2>4. queue \in [Subscriptions -> Seq(1..MaxCalls)] /\ handed \in [Subscriptions -> Seq(1..MaxCalls)]
        /\ \A s \in Subscriptions : Len(queue[s]) <= QueueDepth
    BY <2>1, BoundsAssumption DEF Init
  <2>5. /\ config \in Configs /\ calls \in 0..MaxCalls
        /\ event \in [Subscriptions -> BOOLEAN] /\ guard \in [Subscriptions -> BOOLEAN]
        /\ inUse \in [Subscriptions -> BOOLEAN]
        /\ member \in [WaitSets -> Subscriptions \union {Nobody}]
    BY <2>1 DEF Init
  <2>6. \A t \in Threads :
          /\ mutex = t <=> pc[t] \in {"scan", "ask", "take", "collect", "wait"}
          /\ pc[t] \in {"ask", "take", "execute", "callback"} => hand[t].sub \in collected
    BY <2>2 DEF Init
  <2> QED BY <2>3, <2>4, <2>5, <2>6 DEF Init, TypeOK
<1>2. TypeOK /\ [Next]_vars => TypeOK'
  <2> SUFFICES ASSUME TypeOK, [Next]_vars PROVE TypeOK'
    OBVIOUS
  <2> USE DEF chanVars, execVars, waitVars, userVars
  <2>a. /\ config \in Configs /\ calls \in 0..MaxCalls
        /\ QueueDepth \in Nat \ {0} /\ MaxCalls \in Nat
        /\ Spun \subseteq Subscriptions
        /\ config' = config => Spun' = Spun
    BY BoundsAssumption DEF TypeOK, Spun, Group, Added, Mode
  <2>b. UNCHANGED execVars /\ config' = config =>
          /\ collected' \subseteq Spun' /\ scan' \subseteq collected'
          /\ refused' \in BOOLEAN /\ notified' \in BOOLEAN
          /\ pc' \in [Threads -> ThreadStates] /\ hand' \in [Threads -> Hand]
          /\ \A t \in Threads :
               /\ mutex' = t <=> pc'[t] \in {"scan", "ask", "take", "collect", "wait"}
               /\ pc'[t] \in {"ask", "take", "execute", "callback"} => hand'[t].sub \in collected'
    BY <2>a DEF TypeOK
  <2>1. CASE Publish
    <3>1. calls' \in 1..MaxCalls
      BY <2>1, <2>a DEF Publish
    <3>2. \A s \in Subscriptions : /\ queue[s] \in Seq(1..MaxCalls)
                                   /\ Len(queue[s]) <= QueueDepth
      BY DEF TypeOK
    <3>3. \A s \in Subscriptions : /\ Push(queue[s], calls') \in Seq(1..MaxCalls)
                                   /\ Len(Push(queue[s], calls')) <= QueueDepth
      BY <3>1, <3>2, PushIsBuffer
    <3>4. /\ queue' \in [Subscriptions -> Seq(1..MaxCalls)]
          /\ \A s \in Subscriptions : Len(queue'[s]) <= QueueDepth
      BY <2>1, <3>3 DEF Publish
    <3> QED BY <2>1, <2>b, <3>1, <3>4 DEF Publish, TypeOK
  <2>2. ASSUME NEW s \in Subscriptions, PollDispatch(s) PROVE TypeOK'
    BY <2>2, <2>b DEF PollDispatch, TypeOK
  <2>3. CASE PollTake
    <3>1. poller \in Subscriptions /\ Receive(poller)
      BY <2>3 DEF PollTake, TypeOK
    <3> QED BY <2>3, <2>b, <3>1, ReceiveIsTyped, HandOverIsTyped DEF PollTake, TypeOK
  <2>4. CASE PollDrained
    BY <2>4, <2>b DEF PollDrained, TypeOK
  <2>5. ASSUME NEW t \in Threads, Enter(t) PROVE TypeOK'
    <3>1. \A u \in Threads : mutex # u
      BY <2>5, NobodyAssumption DEF Enter
    <3> QED BY <2>5, <2>a, <3>1 DEF Enter, At, Goto, TypeOK, ThreadStates
  <2>6. ASSUME NEW t \in Threads, ScanDone(t) PROVE TypeOK'
    BY <2>6, <2>a DEF ScanDone, At, Goto, TypeOK, ThreadStates
  <2>7. ASSUME NEW t \in Threads, Collect(t) PROVE TypeOK'
    BY <2>7, <2>a DEF Collect, At, Goto, TypeOK, ThreadStates
  <2>8. ASSUME NEW t \in Threads, WaitReturns(t) PROVE TypeOK'
    BY <2>8, <2>a DEF WaitReturns, At, Goto, TypeOK, ThreadStates
  <2>9. ASSUME NEW t \in Threads, NEW s \in Subscriptions, Ask(t, s) PROVE TypeOK'
    BY <2>9, <2>a DEF Ask, At, Goto, Holds, TypeOK, ThreadStates, Hand
  <2>10. ASSUME NEW t \in Threads, Asked(t) PROVE TypeOK'
    <3>1. CASE Goto(t, "take") /\ UNCHANGED hand
      BY <2>10, <2>a, <3>1 DEF Asked, At, Goto, TypeOK, ThreadStates
    <3>2. CASE Goto(t, "scan") /\ Holds(t, Nobody, 0)
      <4>1. hand' \in [Threads -> Hand] /\ \A u \in Threads : u # t => hand'[u] = hand[u]
        BY <3>2, <2>a DEF Holds, Hand, TypeOK
      <4> QED BY <2>10, <2>a, <3>2, <4>1 DEF Asked, At, Goto, TypeOK, ThreadStates
    <3> QED BY <2>10, <3>1, <3>2 DEF Asked
  <2>11. ASSUME NEW t \in Threads, TakeData(t) PROVE TypeOK'
    <3> DEFINE s == hand[t].sub
    <3>1. s \in Subscriptions /\ s \in collected /\ mutex = t
      BY <2>11, <2>a DEF TakeData, At, TypeOK
    <3>2. /\ queue' \in [Subscriptions -> Seq(1..MaxCalls)]
          /\ \A r \in Subscriptions : Len(queue'[r]) <= QueueDepth
          /\ hand' \in [Threads -> Hand]
          /\ \A u \in Threads : hand'[u].sub = hand[u].sub
      <4>1. CASE Receive(s)
        <5>1. Head(queue[s]) \in 0..MaxCalls
          BY <3>1, <4>1, <2>a, ReceiveIsTyped
        <5>2. \/ hand' = hand
              \/ \E n \in 0..MaxCalls : hand' = [hand EXCEPT ![t] = [sub |-> s, num |-> n]]
          <6>1. (IF Head(queue[s]) \in Foreign THEN 0 ELSE Head(queue[s])) \in 0..MaxCalls
            BY <5>1, <2>a
          <6> QED BY <2>11, <6>1 DEF TakeData, Holds
        <5>3. hand' \in [Threads -> Hand] /\ \A u \in Threads : hand'[u].sub = hand[u].sub
          <6>1. CASE hand' = hand
            BY <6>1 DEF TypeOK
          <6>2. ASSUME NEW n \in 0..MaxCalls, hand' = [hand EXCEPT ![t] = [sub |-> s, num |-> n]]
                PROVE  hand' \in [Threads -> Hand] /\ \A u \in Threads : hand'[u].sub = hand[u].sub
            BY <3>1, <6>2 DEF TypeOK, Hand
          <6> QED BY <5>2, <6>1, <6>2
        <5> QED BY <3>1, <4>1, <5>3, ReceiveIsTyped
      <4>2. CASE UNCHANGED <<queue, hand>>
        BY <4>2 DEF TypeOK
      <4> QED BY <2>11, <4>1, <4>2 DEF TakeData
    <3>3. mutex' # t /\ \A u \in Threads : u # t => mutex # u /\ mutex' # u
      BY <2>11, <3>1, NobodyAssumption DEF TakeData
    <3>4. pc' = [pc EXCEPT ![t] = "execute"]
      BY <2>11 DEF TakeData, Goto
    <3>5. /\ pc' \in [Threads -> ThreadStates]
          /\ \A u \in Threads :
               /\ mutex' = u <=> pc'[u] \in {"scan", "ask", "take", "collect", "wait"}
               /\ pc'[u] \in {"ask", "take", "execute", "callback"} => hand'[u].sub \in collected
      BY <3>1, <3>2, <3>3, <3>4 DEF TypeOK, ThreadStates
    <3> QED BY <2>11, <2>a, <3>2, <3>5 DEF TakeData, TypeOK
  <2>12. ASSUME NEW t \in Threads, Execute(t) PROVE TypeOK'
    <3>1. hand[t].sub \in Subscriptions /\ hand[t].num \in 0..MaxCalls
      BY <2>12, <2>a DEF Execute, At, TypeOK, Hand
    <3>2. handed' \in [Subscriptions -> Seq(1..MaxCalls)] /\ discarded' \subseteq Subscriptions
      <4>1. CASE hand[t].num # 0
        <5>1. hand[t].num \in 1..MaxCalls
          BY <3>1, <4>1, <2>a
        <5> QED BY <2>12, <3>1, <4>1, <5>1, HandOverIsTyped DEF Execute, TypeOK
      <4>2. CASE hand[t].num = 0
        BY <2>12, <4>2 DEF Execute, TypeOK
      <4> QED BY <4>1, <4>2
    <3> QED BY <2>12, <2>a, <3>2 DEF Execute, At, Goto, TypeOK, ThreadStates
  <2>13. ASSUME NEW t \in Threads, CallbackDone(t) PROVE TypeOK'
    BY <2>13, <2>a DEF CallbackDone, At, Goto, Holds, TypeOK, ThreadStates, Hand, Exclusive
  <2>14. ASSUME NEW w \in WaitSets, NEW s \in Subscriptions, AddWaitable(w, s) PROVE TypeOK'
    BY <2>14, <2>b, NobodyAssumption DEF AddWaitable, FlagAfterAdd, TypeOK
  <2>15. ASSUME NEW w \in WaitSets, DestroyWaitSet(w) PROVE TypeOK'
    BY <2>15, <2>b DEF DestroyWaitSet, TypeOK
  <2>16. ASSUME NEW w \in WaitSets, UserWoken(w) PROVE TypeOK'
    BY <2>16, <2>b DEF UserWoken, TypeOK
  <2>17. ASSUME NEW w \in WaitSets, UserTake(w) PROVE TypeOK'
    <3>1. member[w] \in Subscriptions /\ Receive(member[w])
      BY <2>17 DEF UserTake, TypeOK
    <3> QED BY <2>17, <2>b, <3>1, ReceiveIsTyped, HandOverIsTyped DEF UserTake, TypeOK
  <2>18. ASSUME NEW w \in WaitSets, UserDone(w) PROVE TypeOK'
    BY <2>18, <2>b DEF UserDone, TypeOK
  <2>19. CASE UNCHANGED vars
    BY <2>19, <2>b DEF vars, TypeOK
  <2> QED
    BY <2>1, <2>2, <2>3, <2>4, <2>5, <2>6, <2>7, <2>8, <2>9, <2>10, <2>11, <2>12, <2>13,
       <2>14, <2>15, <2>16, <2>17, <2>18, <2>19
    DEF Next, PollNext, ThreadRuns, Woken, OtherWork, UserNext, Refused
<1> QED BY <1>1, <1>2, PTL DEF Spec

-------------------------------------------------------------------------------
(* Who may receive.  The strengthening: a subscription the poll thread drains *)
(* was created for it, a wait set has the flag of its member, the executor    *)
(* those of all it collected, and only subscriptions without callback are     *)
(* handed to users.                                                           *)

Owned ==
  /\ poller # Nobody => Drains(config[poller])
  /\ \A s \in collected : inUse[s]
  /\ \A w \in WaitSets : member[w] # Nobody =>
       /\ inUse[member[w]] /\ ~config[member[w]].callback
       /\ member[w] \notin collected
  /\ \A v, w \in WaitSets : member[v] = member[w] => v = w \/ member[w] = Nobody
  /\ \A s \in Subscriptions : inUse[s] => s \in collected \/ ~config[s].callback

\* What an executor serves, no drain touches, and it has a callback or is misused.
LEMMA SpunIsPulled ==
  ASSUME TypeOK, NEW s \in Spun
  PROVE  ~Drains(config[s]) /\ (config[s].callback \/ Misused(s))
<1>1. config[s] \in Option
  BY ConfigsAssumption DEF TypeOK, Spun
<1>2. Added(config[s]) /\ Group(s) # "manual"
  BY DEF Spun
<1>3. CASE config[s].callback
  BY <1>1, <1>2, <1>3 DEF Added, Mode, Drains
<1>4. CASE ~config[s].callback
  <2>1. config[s].group # "none"
    BY <1>2, <1>4 DEF Added
  <2>2. config[s].group \in {"none", "exclusive", "reentrant", "manual"}
    BY <1>1 DEF Option
  <2> QED BY <1>2, <1>4, <2>1, <2>2 DEF Group, Misused, Drains
<1> QED BY <1>3, <1>4

\* The only waitables the executor can find taken are misused ones.
LEMMA RefusedIsMisused ==
  ASSUME TypeOK, Owned, NEW s \in Spun \ collected, inUse[s]
  PROVE  Misused(s)
BY SpunIsPulled DEF Owned, Spun

\* The drain, the wait sets and the executor each have the subscriptions that
\* the factories and the in-use flag gave them.
THEOREM OwnedInvariant == Spec => []Owned
<1>1. Init => Owned
  BY DEF Init, Owned
<1>2. TypeOK /\ TypeOK' /\ Owned /\ [Next]_vars => Owned'
  <2> SUFFICES ASSUME TypeOK, TypeOK', Owned, [Next]_vars PROVE Owned'
    OBVIOUS
  <2> USE DEF chanVars, execVars, waitVars, userVars
  <2>a. config' = config => \A c : Drains(c)' = Drains(c)
    BY DEF Drains, Mode
  <2>b. UNCHANGED <<config, poller, collected, waitVars>> => Owned'
    BY DEF Owned, Drains, Mode
  <2>1. ASSUME NEW s \in Subscriptions, PollDispatch(s) PROVE Owned'
    BY <2>1, <2>a DEF PollDispatch, Owned
  <2>2. ASSUME NEW t \in Threads, Collect(t) PROVE Owned'
    <3>1. CASE UNCHANGED <<collected, inUse>>
      BY <2>2, <2>b, <3>1 DEF Collect
    <3>2. CASE ~\E s \in Spun \ collected : inUse[s]
      <4>1. /\ collected' = Spun /\ Spun \subseteq Subscriptions
            /\ inUse' = [s \in Subscriptions |-> inUse[s] \/ s \in Spun]
            /\ UNCHANGED <<config, poller, member>>
        BY <2>2, <3>2 DEF Collect, Spun
      <4>2. \A w \in WaitSets : member[w] # Nobody => member[w] \in Subscriptions
        BY DEF TypeOK
      <4>3. \A w \in WaitSets : member[w] # Nobody => member[w] \notin Spun
        BY <3>2 DEF Owned
      <4> QED BY <4>1, <4>2, <4>3, <2>a DEF Owned, TypeOK
    <3> QED BY <2>2, <3>1, <3>2 DEF Collect
  <2>3. ASSUME NEW w \in WaitSets, NEW s \in Subscriptions, AddWaitable(w, s) PROVE Owned'
    <3>1. /\ ~config[s].callback /\ member[w] = Nobody /\ ~inUse[s]
          /\ member' = [member EXCEPT ![w] = s] /\ inUse' = [inUse EXCEPT ![s] = TRUE]
          /\ UNCHANGED <<config, poller, collected>>
      BY <2>3 DEF AddWaitable, FlagAfterAdd
    <3>2. \A v \in WaitSets : member[v] # Nobody => member[v] # s /\ member[v] \in Subscriptions
      BY <3>1 DEF Owned, TypeOK
    <3>3. s \notin collected /\ s # Nobody
      BY <3>1, NobodyAssumption DEF Owned
    <3> QED BY <3>1, <3>2, <3>3, <2>a DEF Owned, TypeOK
  <2>4. ASSUME NEW w \in WaitSets, DestroyWaitSet(w) PROVE Owned'
    BY <2>4, <2>a DEF DestroyWaitSet, Owned, TypeOK
  <2>5. CASE PollTake \/ PollDrained
    BY <2>5, <2>a DEF PollTake, PollDrained, Owned
  <2>6. CASE Publish \/ UNCHANGED vars
    BY <2>6, <2>b DEF Publish, vars
  <2>7. ASSUME NEW w \in WaitSets, UserWoken(w) \/ UserTake(w) \/ UserDone(w) PROVE Owned'
    BY <2>7, <2>a DEF UserWoken, UserTake, UserDone, Owned
  <2>8. ASSUME NEW t \in Threads,
               \/ Enter(t) \/ ScanDone(t) \/ WaitReturns(t) \/ Asked(t)
               \/ (\E s \in Subscriptions : Ask(t, s))
               \/ TakeData(t) \/ Execute(t) \/ CallbackDone(t)
        PROVE  Owned'
    BY <2>8, <2>b
    DEF Enter, ScanDone, WaitReturns, Asked, Ask, TakeData, Execute, CallbackDone
  <2> QED
    BY <2>1, <2>2, <2>3, <2>4, <2>5, <2>6, <2>7, <2>8
    DEF Next, PollNext, ThreadRuns, Woken, OtherWork, UserNext, Refused
<1> QED BY <1>1, <1>2, TypeCorrect, PTL DEF Spec

\* At most one thread is inside the port of a subscription that is not misused.
THEOREM OneReceiverHolds == Spec => []OneReceiver
<1>1. TypeOK /\ Owned => OneReceiver
  <2> SUFFICES ASSUME TypeOK, Owned, NEW s \in Subscriptions, ~Misused(s),
                      NEW x \in Receivers(s), NEW y \in Receivers(s)
               PROVE  x = y
    BY DEF OneReceiver
  <2> DEFINE Reads(z) == z \in reading /\ member[z] = s
             Asks(z) == z \in Threads /\ hand[z].sub = s /\ pc[z] \in {"ask", "take"}
             Polls(z) == z = poller /\ z = s
  <2>1. \A z \in Receivers(s) : Reads(z) \/ Asks(z) \/ Polls(z)
    BY DEF Receivers
  <2>2. s # Nobody
    BY NobodyAssumption
  <2>3. \A z : Reads(z) => z \in WaitSets /\ ~config[s].callback /\ s \notin collected
    BY <2>2 DEF TypeOK, Owned
  <2>4. \A z : Asks(z) => mutex = z /\ s \in Spun
    BY DEF TypeOK
  <2>5. \A z : Polls(z) => Drains(config[s]) /\ config[s].callback
    BY <2>2 DEF Owned, Drains
  <2>6. s \in Spun => config[s].callback /\ ~Drains(config[s])
    BY SpunIsPulled
  <2>7. CASE Reads(x) /\ Reads(y)
    BY <2>2, <2>3, <2>7 DEF Owned
  <2>8. CASE Asks(x) /\ Asks(y)
    BY <2>4, <2>8
  <2>9. CASE Polls(x) /\ Polls(y)
    BY <2>9
  <2> QED BY <2>1, <2>3, <2>4, <2>5, <2>6, <2>7, <2>8, <2>9
<1> QED BY <1>1, TypeCorrect, OwnedInvariant, PTL

\* No waitable is in two wait sets.
THEOREM OneWaitSetHolds == Spec => []OneWaitSet
<1>1. TypeOK /\ Owned => OneWaitSet
  <2> SUFFICES ASSUME TypeOK, Owned PROVE OneWaitSet
    OBVIOUS
  <2>1. Nobody \notin collected
    BY NobodyAssumption DEF TypeOK, Spun
  <2> QED BY <2>1 DEF Owned, OneWaitSet
<1> QED BY <1>1, TypeCorrect, OwnedInvariant, PTL

\* The executor discards messages of, and is refused for, misused subscriptions only.
THEOREM OnlyMisuseConflictsHolds == Spec => []OnlyMisuseConflicts
<1>1. Init => OnlyMisuseConflicts
  BY DEF Init, OnlyMisuseConflicts
<1>2. TypeOK /\ Owned /\ OnlyMisuseConflicts /\ [Next]_vars => OnlyMisuseConflicts'
  <2> SUFFICES ASSUME TypeOK, Owned, OnlyMisuseConflicts, [Next]_vars
               PROVE  OnlyMisuseConflicts'
    OBVIOUS
  <2> USE DEF chanVars, execVars, waitVars, userVars
  <2>1. UNCHANGED <<config, refused, discarded, inUse>> => OnlyMisuseConflicts'
    BY DEF OnlyMisuseConflicts, Misused
  <2>2. ASSUME NEW t \in Threads, Collect(t) PROVE OnlyMisuseConflicts'
    <3>1. CASE \E s \in Spun \ collected : inUse[s]
      <4>1. PICK s \in Spun \ collected : inUse[s]
        BY <3>1
      <4>2. s \in Subscriptions /\ Misused(s)
        BY <4>1, RefusedIsMisused DEF Spun
      <4> QED BY <2>2, <3>1, <4>1, <4>2 DEF Collect, OnlyMisuseConflicts, Misused
    <3>2. CASE ~\E s \in Spun \ collected : inUse[s]
      <4>1. inUse' = [s \in Subscriptions |-> inUse[s] \/ s \in Spun]
        BY <2>2, <3>2 DEF Collect
      <4> QED BY <2>2, <3>2, <4>1 DEF Collect, OnlyMisuseConflicts, Misused
    <3> QED BY <3>1, <3>2
  <2>3. ASSUME NEW t \in Threads, Execute(t) PROVE OnlyMisuseConflicts'
    <3>1. hand[t].sub \in Spun
      BY <2>3 DEF Execute, At, TypeOK
    <3>2. discarded' # discarded => /\ Misused(hand[t].sub)
                                    /\ discarded' = discarded \union {hand[t].sub}
      BY <2>3, <3>1, SpunIsPulled DEF Execute
    <3> QED BY <2>3, <3>2 DEF Execute, OnlyMisuseConflicts, Misused
  <2>4. ASSUME NEW w \in WaitSets, NEW s \in Subscriptions, AddWaitable(w, s)
        PROVE  OnlyMisuseConflicts'
    <3>1. \A r \in Subscriptions : inUse[r] => inUse'[r]
      BY <2>4 DEF AddWaitable, FlagAfterAdd, TypeOK
    <3> QED BY <2>4, <3>1 DEF AddWaitable, OnlyMisuseConflicts, Misused
  <2> QED
    BY <2>1, <2>2, <2>3, <2>4
    DEF Next, vars, Publish, PollNext, PollDispatch, PollTake, PollDrained, ThreadRuns, Enter,
        ScanDone, Woken, OtherWork, WaitReturns, Ask, Asked, TakeData, CallbackDone, UserNext,
        DestroyWaitSet, UserWoken, UserTake, UserDone, Refused
<1> QED BY <1>1, <1>2, TypeCorrect, OwnedInvariant, PTL DEF Spec

-------------------------------------------------------------------------------
(* No sample of an exclusive group is left behind.  The strengthening follows *)
(* a trigger: from the event to the guard condition, to the round of the      *)
(* executor that consumed it, to the thread that asks, and, if the group is   *)
(* taken, to the interrupt that follows the callback which holds it.          *)

InRound(s) ==
  s \in scan \/ \E t \in Threads : pc[t] \in {"ask", "take"} /\ hand[t].sub = s

Noticed(s) ==
  event[s] \/ guard[s] \/ notified \/ Group(s) \in busy \/ InRound(s)

Noticing ==
  /\ \A s \in collected : Exclusive(s) /\ queue[s] # <<>> => Noticed(s)
  /\ \A s \in Spun : ~inUse[s] /\ queue[s] # <<>> => event[s] \/ guard[s]
  /\ \A t \in Threads : pc[t] \in {"collect", "wait"} => scan = {}

\* What is queued for the executor has an event, a trigger, a thread that will ask
\* for it, or a callback after which the executor interrupts itself.
THEOREM NoticingInvariant == Spec => []Noticing
<1>1. Init => Noticing
  BY DEF Init, Noticing, Spun
<1>2. TypeOK /\ TypeOK' /\ Owned /\ Noticing /\ [Next]_vars => Noticing'
  <2> SUFFICES ASSUME TypeOK, TypeOK', Owned, Noticing, [Next]_vars PROVE Noticing'
    OBVIOUS
  <2> USE DEF chanVars, execVars, waitVars, userVars
  <2>a. config' = config =>
          /\ Spun' = Spun
          /\ \A s : Group(s)' = Group(s) /\ Exclusive(s)' = Exclusive(s)
    BY DEF Spun, Group, Exclusive, Added, Mode
  <2>b. collected \subseteq Spun /\ Spun \subseteq Subscriptions
    BY DEF TypeOK, Spun
  <2>1. CASE Publish
    BY <2>1, <2>a, <2>b DEF Publish, Noticing, Noticed
  <2>2. ASSUME NEW s \in Subscriptions, PollDispatch(s) PROVE Noticing'
    BY <2>2, <2>a, <2>b DEF PollDispatch, Noticing, Noticed, InRound, TypeOK
  <2>3. CASE PollTake
    <3>1. poller \notin Spun
      BY <2>3, SpunIsPulled DEF PollTake, Owned
    <3>2. \A s \in Spun : queue'[s] = queue[s]
      BY <2>3, <2>b, <3>1 DEF PollTake, Receive, TypeOK
    <3> QED BY <2>3, <2>a, <2>b, <3>2 DEF PollTake, Noticing, Noticed, InRound
  <2>4. CASE PollDrained \/ UNCHANGED vars
    BY <2>4, <2>a, <2>b DEF PollDrained, vars, Noticing, Noticed, InRound
  <2>5. ASSUME NEW t \in Threads, Enter(t) PROVE Noticing'
    <3>1. \A s : InRound(s) => InRound(s)'
      BY <2>5 DEF Enter, At, Goto, InRound, TypeOK
    <3>2. \A u \in Threads : pc'[u] \in {"collect", "wait"} => pc[u] \in {"collect", "wait"}
      BY <2>5 DEF Enter, Goto, TypeOK
    <3> QED BY <2>5, <2>a, <2>b, <3>1, <3>2 DEF Enter, Noticing, Noticed
  <2>6. ASSUME NEW t \in Threads, ScanDone(t) PROVE Noticing'
    <3>1. \A s : InRound(s) => InRound(s)'
      BY <2>6 DEF ScanDone, At, Goto, InRound, TypeOK
    <3> QED BY <2>6, <2>a, <2>b, <3>1 DEF ScanDone, Noticing, Noticed
  <2>7. ASSUME NEW t \in Threads, Collect(t) PROVE Noticing'
    <3>1. \A s : InRound(s) => InRound(s)'
      BY <2>7 DEF Collect, At, Goto, InRound, TypeOK
    <3>2. scan' = {}
      BY <2>7 DEF Collect, At, Noticing
    <3>3. /\ \A s \in Subscriptions : inUse[s] => inUse'[s]
          /\ \A s \in collected' : s \in collected \/ (s \in Spun /\ ~inUse[s])
      BY <2>7, <2>b DEF Collect, TypeOK
    <3> QED BY <2>7, <2>a, <2>b, <3>1, <3>2, <3>3 DEF Collect, Noticing, Noticed
  <2>8. ASSUME NEW t \in Threads, WaitReturns(t) PROVE Noticing'
    BY <2>8, <2>a, <2>b DEF WaitReturns, At, Goto, Noticing, Noticed, InRound, TypeOK, Owned
  <2>9. ASSUME NEW t \in Threads, NEW s \in Subscriptions, Ask(t, s) PROVE Noticing'
    <3>1. \A u \in Threads : u # t => pc'[u] = pc[u] /\ hand'[u] = hand[u]
      BY <2>9 DEF Ask, Goto, Holds, TypeOK
    <3>2. pc'[t] = "ask" /\ hand'[t].sub = s /\ pc[t] = "scan" /\ scan' = scan \ {s}
      BY <2>9 DEF Ask, At, Goto, Holds, TypeOK
    <3>3. \A r : InRound(r) => InRound(r)'
      BY <3>1, <3>2 DEF InRound
    <3>4. \A u \in Threads : pc'[u] \in {"collect", "wait"} => pc[u] \in {"collect", "wait"}
      BY <3>1, <3>2
    <3> QED BY <2>9, <2>a, <2>b, <3>2, <3>3, <3>4 DEF Ask, Noticing, Noticed
  <2>10. ASSUME NEW t \in Threads, Asked(t) PROVE Noticing'
    <3>1. pc[t] = "ask" /\ \A u \in Threads : u # t => pc'[u] = pc[u] /\ hand'[u] = hand[u]
      BY <2>10 DEF Asked, At, Goto, Holds, TypeOK
    <3>2. \/ pc'[t] = "take" /\ hand' = hand
          \/ /\ pc'[t] = "scan"
             /\ queue[hand[t].sub] = <<>> \/ Group(hand[t].sub) \in busy
      BY <2>10 DEF Asked, Goto, Ready, TypeOK
    <3>3. \A s : InRound(s) =>
                 InRound(s)' \/ queue[s] = <<>> \/ Group(s) \in busy
      BY <2>10, <3>1, <3>2 DEF Asked, InRound
    <3>4. \A u \in Threads : pc'[u] \in {"collect", "wait"} => pc[u] \in {"collect", "wait"}
      BY <3>1, <3>2
    <3> QED BY <2>10, <2>a, <2>b, <3>3, <3>4 DEF Asked, Noticing, Noticed
  <2>11. ASSUME NEW t \in Threads, TakeData(t) PROVE Noticing'
    <3> DEFINE r == hand[t].sub
    <3>1. /\ pc[t] = "take" /\ pc'[t] = "execute" /\ r \in collected
          /\ \A u \in Threads : u # t => pc'[u] = pc[u] /\ hand'[u] = hand[u]
      BY <2>11 DEF TakeData, At, Goto, Holds, TypeOK
    <3>2. \A s \in Subscriptions : s # r => queue'[s] = queue[s]
      BY <2>11, <2>b, <3>1 DEF TakeData, Receive, TypeOK
    <3>3. \A s : s # r /\ InRound(s) => InRound(s)'
      BY <2>11, <3>1 DEF TakeData, InRound
    <3>4. busy \subseteq busy' /\ (Exclusive(r) => Group(r) \in busy')
      BY <2>11 DEF TakeData
    <3>5. \A u \in Threads : pc'[u] \in {"collect", "wait"} => pc[u] \in {"collect", "wait"}
      BY <3>1
    <3>6. inUse[r]
      BY <3>1 DEF Owned
    <3> HIDE DEF r
    <3> QED BY <2>11, <2>a, <2>b, <3>2, <3>3, <3>4, <3>5, <3>6 DEF TakeData, Noticing, Noticed
  <2>12. ASSUME NEW t \in Threads, Execute(t) PROVE Noticing'
    BY <2>12, <2>a, <2>b DEF Execute, At, Goto, Noticing, Noticed, InRound, TypeOK
  <2>13. ASSUME NEW t \in Threads, CallbackDone(t) PROVE Noticing'
    BY <2>13, <2>a, <2>b DEF CallbackDone, At, Goto, Holds, Noticing, Noticed, InRound, TypeOK, Exclusive
  <2>14. ASSUME NEW w \in WaitSets, NEW s \in Subscriptions, AddWaitable(w, s) PROVE Noticing'
    BY <2>14, <2>a, <2>b DEF AddWaitable, FlagAfterAdd, Noticing, Noticed, InRound, TypeOK
  <2>15. ASSUME NEW w \in WaitSets, DestroyWaitSet(w) PROVE Noticing'
    BY <2>15, <2>a, <2>b DEF DestroyWaitSet, Noticing, Noticed, InRound
  <2>16. ASSUME NEW w \in WaitSets, UserWoken(w) PROVE Noticing'
    BY <2>16, <2>a, <2>b DEF UserWoken, Noticing, Noticed, InRound, TypeOK, Owned
  <2>17. ASSUME NEW w \in WaitSets, UserTake(w) PROVE Noticing'
    BY <2>17, <2>a, <2>b DEF UserTake, Receive, Noticing, Noticed, InRound, TypeOK, Owned
  <2>18. ASSUME NEW w \in WaitSets, UserDone(w) PROVE Noticing'
    BY <2>18, <2>a, <2>b DEF UserDone, Noticing, Noticed, InRound
  <2> QED
    BY <2>1, <2>2, <2>3, <2>4, <2>5, <2>6, <2>7, <2>8, <2>9, <2>10, <2>11, <2>12, <2>13,
       <2>14, <2>15, <2>16, <2>17, <2>18
    DEF Next, PollNext, ThreadRuns, Woken, OtherWork, UserNext, Refused
<1> QED BY <1>1, <1>2, TypeCorrect, OwnedInvariant, PTL DEF Spec

\* A MultiThreadedExecutor that blocks has left no sample of an exclusive group behind.
THEOREM ExecutorDrainsHolds == Spec => []ExecutorDrains
<1>1. TypeOK /\ Noticing => ExecutorDrains
  BY DEF TypeOK, Noticing, Noticed, InRound, ExecutorDrains, Triggered
<1> QED BY <1>1, TypeCorrect, NoticingInvariant, PTL

-------------------------------------------------------------------------------
(* The refinement of LatestWins.  The strengthening: the queues ascend and    *)
(* hold what is newer than anything taken out of them, a thread on its way to *)
(* a callback holds what lies between, and no two threads are on their way to *)
(* callbacks of one exclusive group.                                          *)

Ascending(q) == \A i, j \in 1..Len(q) : i < j => q[i] < q[j]
Above(q, n) == \A i \in 1..Len(q) : q[i] > n
UpTo(q, n) == \A i \in 1..Len(q) : q[i] <= n

\* The entries of a sequence with one more at its end.
LEMMA AppendEntries ==
  ASSUME NEW q \in Seq(Nat), NEW x \in Nat
  PROVE  /\ Len(Append(q, x)) = Len(q) + 1 /\ Append(q, x)[Len(q) + 1] = x
         /\ \A i \in 1..Len(q) : Append(q, x)[i] = q[i]
OBVIOUS

\* The next number keeps a buffer in order, and the buffer above what was below it.
LEMMA PushAscends ==
  ASSUME NEW q \in Seq(Nat), Len(q) <= QueueDepth, Ascending(q),
         NEW n \in Nat, UpTo(q, n), NEW r, r = Push(q, n + 1)
  PROVE  /\ Ascending(r) /\ UpTo(r, n + 1)
         /\ \A m \in Nat : m <= n /\ Above(q, m) => Above(r, m)
<1>1. QueueDepth \in Nat \ {0} /\ Len(q) \in Nat /\ \A i \in 1..Len(q) : q[i] \in Nat
  BY BoundsAssumption
<1>2. CASE Len(q) = QueueDepth
  <2>1. q # <<>> /\ r = Append(Tail(q), n + 1)
    BY <1>1, <1>2 DEF Push
  <2>2. /\ Tail(q) \in Seq(Nat) /\ Len(Tail(q)) = Len(q) - 1
        /\ \A i \in 1..Len(q) - 1 : Tail(q)[i] = q[i + 1]
    BY <2>1
  <2>3. /\ Len(r) = Len(q) /\ r[Len(q)] = n + 1
        /\ \A i \in 1..Len(q) - 1 : r[i] = q[i + 1]
    <3>1. /\ Len(r) = Len(Tail(q)) + 1 /\ r[Len(Tail(q)) + 1] = n + 1
          /\ \A i \in 1..Len(Tail(q)) : r[i] = Tail(q)[i]
      <4>1. n + 1 \in Nat /\ Tail(q) \in Seq(Nat)
        BY <2>2
      <4> QED BY <2>1, <4>1, AppendEntries
    <3> QED BY <1>1, <2>2, <3>1
  <2>4. UpTo(r, n + 1)
    BY <1>1, <2>3 DEF UpTo
  <2>5. Ascending(r)
    <3> SUFFICES ASSUME NEW i \in 1..Len(q), NEW j \in 1..Len(q), i < j PROVE r[i] < r[j]
      BY <2>3 DEF Ascending
    <3>1. i \in 1..Len(q) - 1 /\ i + 1 \in 1..Len(q) /\ r[i] = q[i + 1]
      BY <1>1, <2>3
    <3>2. CASE j = Len(q)
      BY <1>1, <2>3, <3>1, <3>2 DEF UpTo
    <3>3. CASE j # Len(q)
      <4>1. j \in 1..Len(q) - 1 /\ j + 1 \in 1..Len(q) /\ r[j] = q[j + 1] /\ i + 1 < j + 1
        BY <1>1, <2>3, <3>3
      <4> QED BY <3>1, <4>1 DEF Ascending
    <3> QED BY <3>2, <3>3
  <2>6. ASSUME NEW m \in Nat, m <= n, Above(q, m) PROVE Above(r, m)
    BY <1>1, <2>3, <2>6 DEF Above
  <2> QED BY <2>4, <2>5, <2>6
<1>3. CASE Len(q) # QueueDepth
  <2>1. /\ Len(r) = Len(q) + 1 /\ r[Len(q) + 1] = n + 1
        /\ \A i \in 1..Len(q) : r[i] = q[i]
    BY <1>1, <1>3, AppendEntries DEF Push
  <2>2. UpTo(r, n + 1)
    BY <1>1, <2>1 DEF UpTo
  <2>3. Ascending(r)
    BY <1>1, <2>1 DEF UpTo, Ascending
  <2>4. ASSUME NEW m \in Nat, m <= n, Above(q, m) PROVE Above(r, m)
    BY <1>1, <2>1, <2>4 DEF Above
  <2> QED BY <2>2, <2>3, <2>4
<1> QED BY <1>2, <1>3

\* Without its head an ascending buffer is above that head.
LEMMA TailAscends ==
  ASSUME NEW q \in Seq(Nat), q # <<>>, Ascending(q), NEW n \in Nat, UpTo(q, n)
  PROVE  /\ Ascending(Tail(q)) /\ UpTo(Tail(q), n) /\ Above(Tail(q), Head(q))
         /\ Head(q) <= n
         /\ \A m \in Nat : Above(q, m) => Head(q) > m /\ Above(Tail(q), m)
<1>1. /\ Len(Tail(q)) = Len(q) - 1 /\ Len(q) \in Nat \ {0}
      /\ \A i \in 1..Len(q) - 1 : Tail(q)[i] = q[i + 1]
      /\ Head(q) = q[1]
  OBVIOUS
<1> QED BY <1>1 DEF Ascending, Above, UpTo

\* t has a message and will run a callback of s with it.
Carries(t, s) == pc[t] = "execute" /\ hand[t].sub = s /\ hand[t].num # 0 /\ config[s].callback

Exclusion ==
  /\ \A t \in Threads : pc[t] \in {"ask", "take"} => hand[t].num = 0
  /\ \A t \in Threads : pc[t] = "take" /\ Exclusive(hand[t].sub) => Group(hand[t].sub) \notin busy
  /\ \A t \in Threads : pc[t] \in {"execute", "callback"} /\ Exclusive(hand[t].sub) =>
       /\ Group(hand[t].sub) \in busy
       /\ \A u \in Threads :
            pc[u] \in {"execute", "callback"} /\ Group(hand[u].sub) = Group(hand[t].sub) => u = t

\* One callback at a time of a mutually exclusive group.
THEOREM ExclusionInvariant == Spec => []Exclusion
<1>1. Init => Exclusion
  BY DEF Init, Exclusion
<1>2. TypeOK /\ TypeOK' /\ Exclusion /\ [Next]_vars => Exclusion'
  <2> SUFFICES ASSUME TypeOK, TypeOK', Exclusion, [Next]_vars PROVE Exclusion'
    OBVIOUS
  <2> USE DEF chanVars, execVars, waitVars, userVars
  <2>a. config' = config =>
          \A s : Group(s)' = Group(s) /\ Exclusive(s)' = Exclusive(s)
    BY DEF Group, Exclusive
  <2>b. config' = config
    BY DEF Next, vars, Publish, PollNext, PollDispatch, PollTake, PollDrained, ThreadRuns, Enter,
           ScanDone, Collect, Woken, OtherWork, WaitReturns, Ask, Asked, TakeData, Execute,
           CallbackDone, UserNext, AddWaitable, DestroyWaitSet, UserWoken, UserTake, UserDone,
           Refused
  <2>1. UNCHANGED <<busy, pc, hand>> => Exclusion'
    BY <2>a, <2>b DEF Exclusion
  <2>2. ASSUME NEW t \in Threads, UNCHANGED busy,
               \A u \in Threads : u # t => pc'[u] = pc[u] /\ hand'[u] = hand[u],
               \/ pc'[t] \notin {"ask", "take", "execute", "callback"}
               \/ pc'[t] = "ask" /\ hand'[t].num = 0
               \/ pc[t] = "execute" /\ pc'[t] = "callback" /\ hand'[t] = hand[t]
        PROVE  Exclusion'
    BY <2>2, <2>a, <2>b DEF Exclusion
  <2>3. ASSUME NEW t \in Threads, Enter(t) \/ ScanDone(t) \/ Collect(t) \/ WaitReturns(t)
        PROVE  Exclusion'
    <3>1. /\ UNCHANGED busy
          /\ \A u \in Threads : u # t => pc'[u] = pc[u] /\ hand'[u] = hand[u]
          /\ pc'[t] \notin {"ask", "take", "execute", "callback"}
      BY <2>3 DEF Enter, ScanDone, Collect, WaitReturns, At, Goto, TypeOK
    <3> QED BY <2>2, <3>1
  <2>4. ASSUME NEW t \in Threads, NEW s \in Subscriptions, Ask(t, s) PROVE Exclusion'
    <3>1. /\ UNCHANGED busy
          /\ \A u \in Threads : u # t => pc'[u] = pc[u] /\ hand'[u] = hand[u]
          /\ pc'[t] = "ask" /\ hand'[t].num = 0
      BY <2>4 DEF Ask, At, Goto, Holds, TypeOK
    <3> QED BY <2>2, <3>1
  <2>5. ASSUME NEW t \in Threads, Asked(t) PROVE Exclusion'
    <3>1. /\ UNCHANGED busy /\ pc[t] = "ask"
          /\ \A u \in Threads : u # t => pc'[u] = pc[u] /\ hand'[u] = hand[u]
          /\ \/ pc'[t] = "scan"
             \/ pc'[t] = "take" /\ hand'[t] = hand[t] /\ Group(hand[t].sub) \notin busy
      BY <2>5 DEF Asked, At, Goto, Holds, TypeOK
    <3> QED BY <3>1, <2>a, <2>b DEF Exclusion
  <2>6. ASSUME NEW t \in Threads, TakeData(t) PROVE Exclusion'
    <3>1. /\ pc[t] = "take" /\ pc'[t] = "execute" /\ hand'[t].sub = hand[t].sub
          /\ \A u \in Threads : u # t => pc'[u] = pc[u] /\ hand'[u] = hand[u] /\ pc[u] # "take"
      BY <2>6 DEF TakeData, At, Goto, Holds, TypeOK, Hand
    <3>2. busy' = IF Exclusive(hand[t].sub) THEN busy \union {Group(hand[t].sub)} ELSE busy
      BY <2>6 DEF TakeData
    <3>3. \A u \in Threads :
            u # t /\ pc[u] \in {"execute", "callback"} /\ Exclusive(hand[t].sub) =>
              Group(hand[u].sub) # Group(hand[t].sub)
      BY <3>1 DEF Exclusion, Exclusive
    <3>4. \A u \in Threads :
            u # t /\ Exclusive(hand[u].sub) /\ ~Exclusive(hand[t].sub) =>
              Group(hand[u].sub) # Group(hand[t].sub)
      BY DEF Exclusive
    <3> QED BY <3>1, <3>2, <3>3, <3>4, <2>a, <2>b DEF Exclusion
  <2>7. ASSUME NEW t \in Threads, Execute(t) PROVE Exclusion'
    <3>1. /\ UNCHANGED <<busy, hand>> /\ pc[t] = "execute" /\ pc'[t] = "callback"
          /\ \A u \in Threads : u # t => pc'[u] = pc[u] /\ hand'[u] = hand[u]
      BY <2>7 DEF Execute, At, Goto, TypeOK
    <3> QED BY <2>2, <3>1
  <2>8. ASSUME NEW t \in Threads, CallbackDone(t) PROVE Exclusion'
    <3>1. /\ pc[t] = "callback" /\ pc'[t] = "idle" /\ busy' = busy \ {Group(hand[t].sub)}
          /\ \A u \in Threads : u # t => pc'[u] = pc[u] /\ hand'[u] = hand[u]
      BY <2>8 DEF CallbackDone, At, Goto, Holds, TypeOK
    <3>2. \A u \in Threads :
            u # t /\ pc[u] \in {"execute", "callback"} /\ Exclusive(hand[u].sub) =>
              Group(hand[u].sub) # Group(hand[t].sub)
      BY <3>1 DEF Exclusion, Exclusive
    <3> QED BY <3>1, <3>2, <2>a, <2>b DEF Exclusion
  <2> QED
    BY <2>1, <2>3, <2>4, <2>5, <2>6, <2>7, <2>8
    DEF Next, vars, Publish, PollNext, PollDispatch, PollTake, PollDrained, ThreadRuns,
        Woken, OtherWork, UserNext, AddWaitable, DestroyWaitSet, UserWoken, UserTake, UserDone,
        Refused
<1> QED BY <1>1, <1>2, TypeCorrect, PTL DEF Spec

InOrder ==
  \A s \in Subscriptions :
    /\ Ascending(queue[s]) /\ UpTo(queue[s], calls)
    /\ Steady(s) =>
         /\ LastOf(s) <= calls /\ Above(queue[s], LastOf(s))
         /\ \A t \in Threads : Carries(t, s) =>
              /\ LastOf(s) < hand[t].num /\ hand[t].num <= calls
              /\ Above(queue[s], hand[t].num)

\* What is compared are natural numbers.
LEMMA OrderTypes ==
  ASSUME TypeOK, NEW s \in Subscriptions
  PROVE  /\ queue[s] \in Seq(Nat) /\ calls \in Nat /\ LastOf(s) \in Nat
         /\ \A t \in Threads : hand[t].num \in Nat
<1>1. MaxCalls \in Nat /\ calls \in Nat /\ \A t \in Threads : hand[t].num \in Nat
  BY BoundsAssumption DEF TypeOK, Hand
<1>2. queue[s] \in Seq(1..MaxCalls) /\ handed[s] \in Seq(1..MaxCalls)
  BY DEF TypeOK
<1>3. queue[s] \in Seq(Nat) /\ handed[s] \in Seq(Nat)
  BY <1>1, <1>2
<1>4. LastOf(s) \in Nat
  BY <1>3 DEF LastOf
<1> QED BY <1>1, <1>3, <1>4

\* The sample handed over becomes the last one its user got, if it parses.
LEMMA HandOverAdvances ==
  ASSUME TypeOK, NEW s \in Subscriptions, NEW n \in Nat, HandOver(s, n)
  PROVE  /\ \A r \in Subscriptions : r # s => handed'[r] = handed[r]
         /\ \/ handed' = handed
            \/ LastOf(s)' = n /\ Len(handed'[s]) = Len(handed[s]) + 1
<1>1. CASE n \in Foreign
  BY <1>1 DEF HandOver
<1>2. CASE n \notin Foreign
  <2>1. handed[s] \in Seq(1..MaxCalls) /\ handed \in [Subscriptions -> Seq(1..MaxCalls)]
    BY DEF TypeOK
  <2>2. handed'[s] = Append(handed[s], n) /\ \A r \in Subscriptions : r # s => handed'[r] = handed[r]
    BY <1>2, <2>1 DEF HandOver
  <2>3. handed[s] \in Seq(Nat)
    BY <2>1, BoundsAssumption
  <2>4. /\ Len(handed'[s]) = Len(handed[s]) + 1 /\ handed'[s][Len(handed[s]) + 1] = n
        /\ Len(handed[s]) \in Nat
    BY <2>2, <2>3, AppendEntries
  <2>5. handed'[s] # <<>>
    BY <2>4
  <2> QED BY <2>2, <2>4, <2>5 DEF LastOf
<1> QED BY <1>1, <1>2

\* A receive takes the oldest sample, and what stays is newer.
LEMMA ReceiveAscends ==
  ASSUME TypeOK, InOrder, NEW s \in Subscriptions, Receive(s)
  PROVE  /\ \A r \in Subscriptions : r # s => queue'[r] = queue[r]
         /\ queue[s] # <<>> /\ Head(queue[s]) \in Nat /\ Head(queue[s]) <= calls
         /\ Ascending(queue'[s]) /\ UpTo(queue'[s], calls) /\ Above(queue'[s], Head(queue[s]))
         /\ \A m \in Nat : Above(queue[s], m) => Head(queue[s]) > m /\ Above(queue'[s], m)
<1>1. /\ queue[s] \in Seq(Nat) /\ queue[s] # <<>> /\ calls \in Nat
      /\ Ascending(queue[s]) /\ UpTo(queue[s], calls)
  BY OrderTypes DEF Receive, InOrder
<1>2. queue'[s] = Tail(queue[s]) /\ \A r \in Subscriptions : r # s => queue'[r] = queue[r]
  BY DEF Receive, TypeOK
<1>3. Head(queue[s]) \in Nat
  BY <1>1
<1> QED BY <1>1, <1>2, <1>3, TailAscends

\* Nobody carries samples of a subscription the poll thread or a user receives from.
LEMMA NotCarried ==
  ASSUME TypeOK, Owned, NEW s \in Subscriptions,
         s = poller \/ \E w \in reading : member[w] = s
  PROVE  \A t \in Threads : ~Carries(t, s)
<1>1. CASE s = poller
  <2>1. s \notin Spun
    BY <1>1, NobodyAssumption, SpunIsPulled DEF Owned
  <2> QED BY <2>1 DEF Carries, TypeOK
<1>2. CASE \E w \in reading : member[w] = s
  BY <1>2, NobodyAssumption DEF Owned, TypeOK, Carries
<1> QED BY <1>1, <1>2

\* Queues, hands and histories of a subscription follow each other in order.
THEOREM InOrderInvariant == Spec => []InOrder
<1>1. Init => InOrder
  <2> HAVE Init
  <2>1. calls = 0 /\ \A s \in Subscriptions : queue[s] = <<>> /\ LastOf(s) = 0
    BY DEF Init, LastOf
  <2>2. \A t \in Threads, s \in Subscriptions : ~Carries(t, s)
    BY DEF Init, Carries
  <2>3. ASSUME NEW s \in Subscriptions
        PROVE  Len(queue[s]) = 0 /\ LastOf(s) = 0 /\ calls = 0
    <3>1. Len(<<>>) = 0
      OBVIOUS
    <3>2. queue[s] = <<>>
      BY <2>1
    <3> QED BY <2>1, <3>1, <3>2
  <2>4. ASSUME NEW s \in Subscriptions
        PROVE  Ascending(queue[s]) /\ UpTo(queue[s], calls) /\ Above(queue[s], LastOf(s))
    <3>1. \A i \in 1..Len(queue[s]) : FALSE
      <4>1. \A i \in 1..0 : FALSE
        OBVIOUS
      <4> QED BY <2>3, <4>1
    <3> QED BY <3>1 DEF Ascending, UpTo, Above
  <2>5. \A s \in Subscriptions : LastOf(s) <= calls
    <3>1. 0 <= 0
      OBVIOUS
    <3> QED BY <2>1, <3>1
  <2> QED BY <2>2, <2>4, <2>5 DEF InOrder
<1>2. TypeOK /\ TypeOK' /\ Owned /\ Exclusion /\ InOrder /\ [Next]_vars => InOrder'
  <2> SUFFICES ASSUME TypeOK, TypeOK', Owned, Exclusion, InOrder, [Next]_vars PROVE InOrder'
    OBVIOUS
  <2> USE DEF chanVars, execVars, waitVars, userVars
  <2>a. config' = config => \A s : Steady(s)' = Steady(s)
    BY DEF Steady, Exclusive, Group, Spun, Added, Mode
  <2>b. \A s \in Subscriptions :
          /\ queue[s] \in Seq(Nat) /\ calls \in Nat /\ LastOf(s) \in Nat /\ LastOf(s)' \in Nat
          /\ \A t \in Threads : hand[t].num \in Nat
    <3>1. \A s \in Subscriptions : LastOf(s)' \in Nat
      <4> SUFFICES ASSUME NEW s \in Subscriptions PROVE LastOf(s)' \in Nat
        OBVIOUS
      <4>1. handed'[s] \in Seq(1..MaxCalls) /\ MaxCalls \in Nat
        BY BoundsAssumption DEF TypeOK
      <4>2. handed'[s] \in Seq(Nat)
        BY <4>1
      <4> QED BY <4>2 DEF LastOf
    <3> QED BY <3>1, OrderTypes
  <2>1. ASSUME UNCHANGED <<config, calls, queue, handed>>,
               \A t \in Threads : pc'[t] = "execute" => pc[t] = "execute" /\ hand'[t] = hand[t]
        PROVE  InOrder'
    <3>1. \A t \in Threads, s \in Subscriptions : Carries(t, s)' => Carries(t, s) /\ hand'[t] = hand[t]
      BY <2>1 DEF Carries
    <3>2. \A s \in Subscriptions : LastOf(s)' = LastOf(s)
      BY <2>1 DEF LastOf
    <3> QED BY <2>1, <3>1, <3>2, <2>a DEF InOrder, Ascending, Above, UpTo
  <2>2. CASE Publish
    <3>1. \A s \in Subscriptions : queue'[s] = Push(queue[s], calls + 1) /\ calls' = calls + 1
      BY <2>2 DEF Publish
    <3>2. \A s \in Subscriptions :
            /\ Ascending(queue'[s]) /\ UpTo(queue'[s], calls + 1)
            /\ \A m \in Nat : m <= calls /\ Above(queue[s], m) => Above(queue'[s], m)
      BY <2>b, <3>1, PushAscends DEF TypeOK, InOrder
    <3>3. \A s \in Subscriptions :
            /\ LastOf(s)' = LastOf(s)
            /\ \A t \in Threads : Carries(t, s)' = Carries(t, s) /\ hand'[t] = hand[t]
      BY <2>2 DEF Publish, LastOf, Carries
    <3>4. \A s \in Subscriptions : UpTo(queue[s]', calls') /\ Ascending(queue[s]')
      BY <3>1, <3>2
    <3>5. ASSUME NEW s \in Subscriptions, Steady(s)
          PROVE  /\ LastOf(s)' <= calls' /\ Above(queue'[s], LastOf(s)')
                 /\ \A t \in Threads : Carries(t, s)' =>
                      /\ LastOf(s)' < hand'[t].num /\ hand'[t].num <= calls'
                      /\ Above(queue'[s], hand'[t].num)
      BY <2>b, <3>1, <3>2, <3>3, <3>5 DEF InOrder
    <3> QED BY <2>2, <2>a, <3>4, <3>5 DEF InOrder, Publish, Ascending, Above, UpTo
  <2>3. ASSUME NEW s \in Subscriptions, Receive(s), HandOver(s, Head(queue[s])),
               \A t \in Threads : ~Carries(t, s),
               UNCHANGED <<config, calls, pc, hand>>
        PROVE  InOrder'
    <3> DEFINE n == Head(queue[s])
    <3>1. /\ \A r \in Subscriptions : r # s => queue'[r] = queue[r]
          /\ n \in Nat /\ n <= calls
          /\ Ascending(queue'[s]) /\ UpTo(queue'[s], calls) /\ Above(queue'[s], n)
          /\ \A m \in Nat : Above(queue[s], m) => n > m /\ Above(queue'[s], m)
      BY <2>3, ReceiveAscends
    <3>2. /\ \A r \in Subscriptions : r # s => LastOf(r)' = LastOf(r)
          /\ LastOf(s)' \in {LastOf(s), n}
      BY <2>3, <3>1, HandOverAdvances DEF LastOf
    <3>3. \A r \in Subscriptions, t \in Threads : Carries(t, r)' = Carries(t, r)
      BY <2>3 DEF Carries
    <3>4. Steady(s) => LastOf(s)' <= calls /\ Above(queue'[s], LastOf(s)')
      BY <2>b, <3>1, <3>2 DEF InOrder
    <3> HIDE DEF n
    <3> QED BY <2>3, <2>a, <3>1, <3>2, <3>3, <3>4 DEF InOrder, Ascending, Above, UpTo
  <2>4. CASE PollTake
    <3>1. poller \in Subscriptions /\ Receive(poller) /\ HandOver(poller, Head(queue[poller]))
      BY <2>4 DEF PollTake, TypeOK
    <3> QED BY <2>3, <2>4, <3>1, NotCarried DEF PollTake
  <2>5. ASSUME NEW w \in WaitSets, UserTake(w) PROVE InOrder'
    <3>1. /\ member[w] \in Subscriptions /\ w \in reading
          /\ Receive(member[w]) /\ HandOver(member[w], Head(queue[member[w]]))
      BY <2>5 DEF UserTake, TypeOK
    <3> QED BY <2>3, <2>5, <3>1, NotCarried DEF UserTake
  <2>6. ASSUME NEW t \in Threads, TakeData(t) PROVE InOrder'
    <3> DEFINE s == hand[t].sub
    <3>1. /\ s \in Subscriptions /\ pc[t] = "take"
          /\ \A u \in Threads : u # t => pc'[u] = pc[u] /\ hand'[u] = hand[u]
      BY <2>6 DEF TakeData, At, Goto, Holds, TypeOK, Spun
    <3>2. UNCHANGED <<config, calls, handed>>
      BY <2>6 DEF TakeData
    <3>3. \A r \in Subscriptions : LastOf(r)' = LastOf(r)
      BY <3>2 DEF LastOf
    <3>4. \A r \in Subscriptions, u \in Threads : u # t => Carries(u, r)' = Carries(u, r)
      BY <3>1, <3>2 DEF Carries
    <3>5. CASE Receive(s)
      <4> DEFINE n == Head(queue[s])
      <4>1. /\ \A r \in Subscriptions : r # s => queue'[r] = queue[r]
            /\ n \in Nat /\ n <= calls
            /\ Ascending(queue'[s]) /\ UpTo(queue'[s], calls) /\ Above(queue'[s], n)
            /\ \A m \in Nat : Above(queue[s], m) => n > m /\ Above(queue'[s], m)
        BY <3>1, <3>5, ReceiveAscends
      <4>2. hand'[t] = [sub |-> s, num |-> IF n \in Foreign THEN 0 ELSE n]
        <5>1. queue[s] # <<>>
          BY <3>5 DEF Receive
        <5> QED BY <2>6, <5>1 DEF TakeData, Holds, TypeOK
      <4>3. \A r \in Subscriptions : Carries(t, r)' => r = s /\ hand'[t].num = n
        BY <4>2 DEF Carries
      <4>4. ASSUME NEW r \in Subscriptions, Steady(r)
            PROVE  /\ LastOf(r)' <= calls' /\ Above(queue'[r], LastOf(r)')
                   /\ \A u \in Threads : Carries(u, r)' =>
                        /\ LastOf(r)' < hand'[u].num /\ hand'[u].num <= calls'
                        /\ Above(queue'[r], hand'[u].num)
        <5> HIDE DEF s, n
        <5>1. CASE r = s
          BY <2>b, <3>1, <3>2, <3>3, <3>4, <4>1, <4>3, <4>4, <5>1 DEF InOrder
        <5>2. CASE r # s
          BY <3>1, <3>2, <3>3, <3>4, <4>1, <4>3, <4>4, <5>2 DEF InOrder
        <5> QED BY <5>1, <5>2
      <4>5. \A r \in Subscriptions : Ascending(queue'[r]) /\ UpTo(queue'[r], calls)
        BY <4>1 DEF InOrder
      <4> HIDE DEF s, n
      <4> QED BY <2>a, <3>2, <4>4, <4>5 DEF InOrder, Ascending, Above, UpTo
    <3>6. CASE queue[s] = <<>> /\ UNCHANGED <<queue, hand>>
      <4>1. \A u \in Threads, r \in Subscriptions :
              Carries(u, r)' /\ queue[r] # <<>> => Carries(u, r)
        BY <3>1, <3>4, <3>6 DEF Carries
      <4>2. hand[t].num = 0
        BY <3>1 DEF Exclusion
      <4> QED BY <3>1, <3>2, <3>3, <3>4, <3>6, <4>2, <2>a DEF Carries, InOrder, Ascending, Above, UpTo
    <3> QED BY <2>6, <3>5, <3>6 DEF TakeData
  <2>7. ASSUME NEW t \in Threads, Execute(t) PROVE InOrder'
    <3> DEFINE s == hand[t].sub n == hand[t].num
    <3>1. /\ s \in Subscriptions /\ s \in Spun /\ pc[t] = "execute" /\ pc'[t] = "callback"
          /\ UNCHANGED <<config, calls, queue, hand>>
          /\ \A u \in Threads : u # t => pc'[u] = pc[u]
      BY <2>7 DEF Execute, At, Goto, TypeOK, Spun
    <3>2. CASE handed' = handed
      <4>1. \A u \in Threads : pc'[u] = "execute" => pc[u] = "execute" /\ hand'[u] = hand[u]
        BY <3>1
      <4> QED BY <2>1, <3>1, <3>2, <4>1
    <3>3. CASE n # 0 /\ config[s].callback /\ HandOver(s, n)
      <4>1. Carries(t, s)
        BY <3>1, <3>3 DEF Carries
      <4>2. /\ \A r \in Subscriptions : r # s => LastOf(r)' = LastOf(r)
            /\ LastOf(s)' \in {LastOf(s), n}
        <5>1. n \in Nat
          BY <2>b, <3>1
        <5> QED BY <3>1, <3>3, <5>1, HandOverAdvances DEF LastOf
      <4>3. \A u \in Threads, r \in Subscriptions : Carries(u, r)' => Carries(u, r) /\ u # t
        BY <3>1 DEF Carries
      <4>4. Steady(s) => \A u \in Threads : ~Carries(u, s)'
        BY <3>1, <4>3 DEF Exclusion, Carries, Steady
      <4>5. ASSUME NEW r \in Subscriptions, Steady(r)
            PROVE  /\ LastOf(r)' <= calls /\ Above(queue[r], LastOf(r)')
                   /\ \A u \in Threads : Carries(u, r)' =>
                        /\ LastOf(r)' < hand[u].num /\ hand[u].num <= calls
                        /\ Above(queue[r], hand[u].num)
        <5>1. CASE r = s
          BY <2>b, <3>1, <4>1, <4>2, <4>4, <4>5, <5>1 DEF InOrder
        <5>2. CASE r # s
          BY <4>2, <4>3, <4>5, <5>2 DEF InOrder
        <5> QED BY <5>1, <5>2
      <4> HIDE DEF s, n
      <4> QED BY <2>a, <3>1, <4>5 DEF InOrder, Ascending, Above, UpTo
    <3> QED BY <2>7, <3>2, <3>3 DEF Execute
  <2>8. ASSUME NEW t \in Threads,
               \/ Enter(t) \/ ScanDone(t) \/ Collect(t) \/ WaitReturns(t) \/ Asked(t)
               \/ (\E s \in Subscriptions : Ask(t, s)) \/ CallbackDone(t)
        PROVE  InOrder'
    <3>1. UNCHANGED <<config, calls, queue, handed>>
      BY <2>8 DEF Enter, ScanDone, Collect, WaitReturns, Asked, Ask, CallbackDone
    <3>2. /\ pc'[t] # "execute"
          /\ \A u \in Threads : u # t => pc'[u] = pc[u] /\ hand'[u] = hand[u]
      BY <2>8 DEF Enter, ScanDone, Collect, WaitReturns, Asked, Ask, CallbackDone,
                  At, Goto, Holds, TypeOK
    <3> QED BY <2>1, <3>1, <3>2
  <2>9. CASE UNCHANGED <<config, calls, queue, handed, pc, hand>>
    BY <2>1, <2>9
  <2> QED
    BY <2>2, <2>4, <2>5, <2>6, <2>7, <2>8, <2>9
    DEF Next, vars, PollNext, PollDispatch, PollDrained, ThreadRuns, Woken, OtherWork, UserNext,
        AddWaitable, DestroyWaitSet, UserWoken, UserDone, Refused
<1> QED BY <1>1, <1>2, TypeCorrect, OwnedInvariant, ExclusionInvariant, PTL DEF Spec

\* Every step that hands a sample over is a Deliver of LatestWins, every publish a
\* Publish, and every other step stutters.
THEOREM RefinesLatestWins == Spec => ImplementsLatestWins
<1> DEFINE Seen == [s \in Subscriptions |-> [p \in {Nobody} |-> IF Steady(s) THEN LastOf(s) ELSE 0]]
           Got == [s \in Subscriptions |-> [p \in {Nobody} |-> IF Steady(s) THEN Len(handed[s]) ELSE 0]]
           Calls == [p \in {Nobody} |-> calls]
<1>1. Init => Channel!Init
  BY DEF Init, Channel!Init, LastOf
<1>2. TypeOK /\ Owned /\ InOrder /\ [Next]_vars => [Channel!Next]_Channel!vars
  <2> SUFFICES ASSUME TypeOK, Owned, InOrder, [Next]_vars
               PROVE  [Channel!Next]_Channel!vars
    OBVIOUS
  <2> USE DEF chanVars, execVars, waitVars, userVars
  <2>a. config' = config => \A s : Steady(s)' = Steady(s)
    BY DEF Steady, Exclusive, Group, Spun, Added, Mode
  <2>1. ASSUME UNCHANGED <<config, handed>> PROVE Seen' = Seen /\ Got' = Got
    BY <2>1, <2>a DEF LastOf
  <2>2. ASSUME UNCHANGED <<config, calls, handed>> PROVE UNCHANGED Channel!vars
    BY <2>1, <2>2 DEF Channel!vars
  <2>3. CASE Publish
    <3>1. Calls' = [Calls EXCEPT ![Nobody] = @ + 1] /\ Seen' = Seen /\ Got' = Got
      BY <2>1, <2>3 DEF Publish
    <3> QED BY <3>1 DEF Channel!Next, Channel!Publish
  <2>4. ASSUME NEW s \in Subscriptions, NEW n \in Nat, HandOver(s, n),
               Steady(s) => n > LastOf(s) /\ n <= calls, UNCHANGED <<config, calls>>
        PROVE  [Channel!Next]_Channel!vars
    <3>1. CASE handed' = handed
      BY <2>2, <2>4, <3>1
    <3>2. CASE handed' # handed
      <4>1. /\ \A r \in Subscriptions : r # s => handed'[r] = handed[r]
            /\ LastOf(s)' = n /\ Len(handed'[s]) = Len(handed[s]) + 1
        BY <2>4, <3>2, HandOverAdvances
      <4>2. \A r \in Subscriptions : r # s => LastOf(r)' = LastOf(r)
        BY <4>1 DEF LastOf
      <4>3. CASE Steady(s)
        <5>1. Seen' = [Seen EXCEPT ![s][Nobody] = n]
          BY <2>4, <2>a, <4>1, <4>2, <4>3
        <5>2. Got' = [Got EXCEPT ![s][Nobody] = @ + 1]
          BY <2>4, <2>a, <4>1, <4>2, <4>3
        <5>3. n \in (Seen[s][Nobody] + 1)..Calls[Nobody] /\ Calls' = Calls
          BY <2>4, <4>3, OrderTypes
        <5> HIDE DEF Seen, Got, Calls
        <5> QED BY <5>1, <5>2, <5>3 DEF Channel!Next, Channel!Deliver, Seen, Got, Calls
      <4>4. CASE ~Steady(s)
        <5>1. Seen' = Seen /\ Got' = Got
          BY <2>4, <2>a, <4>1, <4>2, <4>4
        <5> QED BY <2>4, <5>1 DEF Channel!vars
      <4> QED BY <4>3, <4>4
    <3> QED BY <3>1, <3>2
  <2>5. CASE PollTake
    <3>1. poller \in Subscriptions /\ Receive(poller) /\ HandOver(poller, Head(queue[poller]))
      BY <2>5 DEF PollTake, TypeOK
    <3>2. LastOf(poller) \in Nat /\ (Steady(poller) => Above(queue[poller], LastOf(poller)))
      BY <3>1, OrderTypes DEF InOrder
    <3>3. Head(queue[poller]) \in Nat /\ Head(queue[poller]) <= calls
          /\ (Steady(poller) => Head(queue[poller]) > LastOf(poller))
      BY <3>1, <3>2, ReceiveAscends
    <3> QED BY <2>4, <2>5, <3>1, <3>3 DEF PollTake
  <2>6. ASSUME NEW w \in WaitSets, UserTake(w) PROVE [Channel!Next]_Channel!vars
    <3> DEFINE s == member[w]
    <3>1. s \in Subscriptions /\ Receive(s) /\ HandOver(s, Head(queue[s]))
      BY <2>6 DEF UserTake, TypeOK
    <3>2. LastOf(s) \in Nat /\ (Steady(s) => Above(queue[s], LastOf(s)))
      BY <3>1, OrderTypes DEF InOrder
    <3>3. Head(queue[s]) \in Nat /\ Head(queue[s]) <= calls
          /\ (Steady(s) => Head(queue[s]) > LastOf(s))
      BY <3>1, <3>2, ReceiveAscends
    <3> QED BY <2>4, <2>6, <3>1, <3>3 DEF UserTake
  <2>7. ASSUME NEW t \in Threads, Execute(t) PROVE [Channel!Next]_Channel!vars
    <3> DEFINE s == hand[t].sub n == hand[t].num
    <3>1. s \in Subscriptions /\ n \in Nat /\ UNCHANGED <<config, calls>> /\ pc[t] = "execute"
      BY <2>7, OrderTypes DEF Execute, At, TypeOK, Spun
    <3>2. CASE handed' = handed
      BY <2>2, <3>1, <3>2
    <3>3. CASE n # 0 /\ config[s].callback /\ HandOver(s, n)
      <4>1. Carries(t, s)
        BY <3>1, <3>3 DEF Carries
      <4>2. Steady(s) => n > LastOf(s) /\ n <= calls
        BY <3>1, <4>1 DEF InOrder
      <4> QED BY <2>4, <3>1, <3>3, <4>2
    <3> QED BY <2>7, <3>2, <3>3 DEF Execute
  <2>8. CASE UNCHANGED <<config, calls, handed>>
    BY <2>2, <2>8
  <2> QED
    BY <2>3, <2>5, <2>6, <2>7, <2>8
    DEF Next, vars, PollNext, PollDispatch, PollDrained, ThreadRuns, Enter, ScanDone, Collect,
        Woken, OtherWork, WaitReturns, Ask, Asked, TakeData, CallbackDone, UserNext,
        AddWaitable, DestroyWaitSet, UserWoken, UserDone, Refused
<1> QED
  BY <1>1, <1>2, TypeCorrect, OwnedInvariant, InOrderInvariant, PTL
  DEF Spec, ImplementsLatestWins, Channel!Spec

===============================================================================
