-------------------------- MODULE FlatEndpointsProofs -------------------------
\* Proofs about FlatEndpoints: names, types and the endpoints that are valid.
EXTENDS FlatEndpoints, TLAPS, SequenceTheorems

\* The slash FlatSubscription adds is the one the backend drops.
LEMMA NormalizeIsNeutral ==
  ASSUME NEW t \in Seq(Characters)
  PROVE  Bare(Normalize(t)) = Bare(t)
<1>1. CASE t # <<>> /\ t[1] = Slash
  BY <1>1 DEF Normalize
<1>2. CASE ~(t # <<>> /\ t[1] = Slash)
  <2>1. Normalize(t) = <<Slash>> \o t
    BY <1>2 DEF Normalize
  <2>2. /\ <<Slash>> \o t # <<>>
        /\ (<<Slash>> \o t)[1] = Slash
        /\ Tail(<<Slash>> \o t) = t
    OBVIOUS
  <2>3. Bare(t) = t
    BY <1>2 DEF Bare
  <2> QED
    BY <2>1, <2>2, <2>3 DEF Bare
<1> QED
  BY <1>1, <1>2

\* A publisher and a subscription of one topic use one service, whichever of
\* them wrote the name with its leading slash.
LEMMA OneTopicOneService ==
  ASSUME NEW t \in Topics, NEW u \in Topics, Normalize(t) = Normalize(u)
  PROVE  PublisherService(t) = SubscriberService(u)
<1>1. t \in Seq(Characters) /\ u \in Seq(Characters)
  BY TopicAssumption
<1>2. Bare(t) = Bare(Normalize(u))
  BY <1>1, NormalizeIsNeutral
<1> QED
  BY <1>2 DEF PublisherService, SubscriberService, CleanTopic

-------------------------------------------------------------------------------
\* The overflow keeps the newest sample and the bound of the queue.
LEMMA OverflowKeepsNewest ==
  ASSUME NEW q \in Seq(Publishers), Len(q) <= QueueDepth, NEW p \in Publishers,
         NEW r, r = Append(IF Len(q) = QueueDepth THEN Tail(q) ELSE q, p)
  PROVE  /\ r \in Seq(Publishers) /\ Len(r) <= QueueDepth /\ r # <<>>
         /\ r[Len(r)] = p
         /\ \A i \in 1..Len(r) : r[i] = p \/ \E j \in 1..Len(q) : r[i] = q[j]
<1>1. QueueDepth \in Nat \ {0}
  BY SizeAssumption
<1>2. CASE Len(q) = QueueDepth
  <2>1. /\ Tail(q) \in Seq(Publishers) /\ Len(Tail(q)) = Len(q) - 1
        /\ \A i \in 1..Len(Tail(q)) : Tail(q)[i] = q[i + 1]
    BY <1>1, <1>2
  <2> QED
    BY <1>1, <1>2, <2>1
<1>3. CASE Len(q) # QueueDepth
  BY <1>1, <1>3
<1> QED
  BY <1>2, <1>3

\* Steps that leave the endpoints alone keep what TypeOK says of them.
LEMMA FrameIsTyped ==
  ASSUME TypeOK, UNCHANGED endpointVars
  PROVE  /\ node' \in {"none", "up", "failed"} /\ waitSet' \in BOOLEAN
         /\ topic' \in [Publishers \union Subscriptions -> Topics \union {NoTopic}]
         /\ publisher' \union notifier' \subseteq {p \in Publishers : topic'[p] # NoTopic}
         /\ subscriber' \union listener' \subseteq {s \in Subscriptions : topic'[s] # NoTopic}
         /\ attached' \subseteq listener'
         /\ node' # "up" => publisher' \union notifier' \union subscriber' \union listener' = {}
         /\ subscriber' = subscriber
         /\ \A p, s : Meet(p, s)' <=> Meet(p, s)
BY DEF TypeOK, endpointVars, Meet

-------------------------------------------------------------------------------
\* Type correctness: endpoints have what the creations left them, and a queue
\* holds, within its bound, samples of its own service only.
THEOREM TypeCorrect == Spec => []TypeOK
<1>1. ASSUME Init
      PROVE  TypeOK
  <2>1. /\ topic \in [Publishers \union Subscriptions -> Topics \union {NoTopic}]
        /\ event \in [Subscriptions -> BOOLEAN]
        /\ node \in {"none", "up", "failed"} /\ waitSet \in BOOLEAN
    BY <1>1 DEF Init
  <2>2. /\ calls \in [Publishers -> 0..MaxCalls] /\ fails \in [Publishers -> 0..MaxCalls]
        /\ \A p \in Publishers : fails[p] <= calls[p]
    BY <1>1, SizeAssumption DEF Init
  <2>3. /\ queue \in [Subscriptions -> Seq(Publishers)]
        /\ \A s \in Subscriptions : Len(queue[s]) = 0
    BY <1>1 DEF Init
  <2> QED
    BY <1>1, <2>1, <2>2, <2>3, SizeAssumption DEF Init, TypeOK
<1>2. TypeOK /\ [Next]_vars => TypeOK'
  <2> SUFFICES ASSUME TypeOK, [Next]_vars
               PROVE  TypeOK'
    OBVIOUS
  <2> USE SizeAssumption, KindAssumption, NoTopicAssumption
  <2>1. ASSUME NEW p \in Publishers, NEW t \in Topics, CreatePublisher(p, t)
        PROVE  TypeOK'
    <3>1. topic' \in [Publishers \union Subscriptions -> Topics \union {NoTopic}]
      BY <2>1 DEF CreatePublisher, TypeOK
    <3>2. \A e \in Publishers \union Subscriptions : topic[e] # NoTopic => topic'[e] = topic[e]
      BY <2>1 DEF CreatePublisher, TypeOK
    <3>3. topic'[p] # NoTopic
      BY <2>1 DEF CreatePublisher, TypeOK
    <3>4. node' \in {"none", "up", "failed"} /\ waitSet' \in BOOLEAN
      BY <2>1 DEF CreatePublisher, EnsureBackend, TypeOK
    <3>5. publisher' \subseteq publisher \union {p} /\ notifier' \subseteq notifier \union {p}
      BY <2>1 DEF CreatePublisher, May
    <3>6. node' # "up" => publisher' \union notifier' \union subscriber' \union listener' = {}
      BY <2>1 DEF CreatePublisher, EnsureBackend, May, TypeOK
    <3>7. \A s \in Subscriptions : \A i \in 1..Len(queue[s]) :
            Meet(queue[s][i], s)' /\ s \in subscriber'
      BY <2>1, <3>2 DEF CreatePublisher, TypeOK, Meet
    <3> QED
      BY <2>1, <3>1, <3>2, <3>3, <3>4, <3>5, <3>6, <3>7 DEF CreatePublisher, TypeOK
  <2>2. ASSUME NEW s \in Subscriptions, NEW t \in Topics, CreateSubscription(s, t)
        PROVE  TypeOK'
    <3>1. topic' \in [Publishers \union Subscriptions -> Topics \union {NoTopic}]
      BY <2>2 DEF CreateSubscription, TypeOK
    <3>2. \A e \in Publishers \union Subscriptions : topic[e] # NoTopic => topic'[e] = topic[e]
      BY <2>2 DEF CreateSubscription, TypeOK
    <3>3. topic'[s] # NoTopic
      BY <2>2 DEF CreateSubscription, TypeOK
    <3>4. node' \in {"none", "up", "failed"} /\ waitSet' \in BOOLEAN
      BY <2>2 DEF CreateSubscription, EnsureBackend, TypeOK
    <3>5. /\ subscriber \subseteq subscriber' /\ subscriber' \subseteq subscriber \union {s}
          /\ listener \subseteq listener' /\ listener' \subseteq listener \union {s}
      BY <2>2 DEF CreateSubscription, May
    <3>6. node' # "up" => publisher' \union notifier' \union subscriber' \union listener' = {}
      BY <2>2 DEF CreateSubscription, EnsureBackend, May, TypeOK
    <3>7. attached' \subseteq listener'
      BY <2>2, <3>5 DEF CreateSubscription, TypeOK
    <3>8. \A r \in Subscriptions : \A i \in 1..Len(queue[r]) :
            Meet(queue[r][i], r)' /\ r \in subscriber'
      BY <2>2, <3>2, <3>5 DEF CreateSubscription, TypeOK, Meet
    <3> QED
      BY <2>2, <3>1, <3>2, <3>3, <3>4, <3>5, <3>6, <3>7, <3>8 DEF CreateSubscription, TypeOK
  <2>3. ASSUME NEW p \in Publishers, PublishThrows(p) \/ PublishFails(p)
        PROVE  TypeOK'
    <3>1. /\ calls' \in [Publishers -> 0..MaxCalls] /\ fails' \in [Publishers -> 0..MaxCalls]
          /\ \A q \in Publishers : fails'[q] <= calls'[q]
      <4>1. /\ calls[p] \in 0..MaxCalls /\ calls[p] < MaxCalls
            /\ fails[p] \in 0..MaxCalls /\ fails[p] <= calls[p]
        BY <2>3 DEF PublishThrows, PublishFails, CanPublish, TypeOK
      <4>2. calls' = [calls EXCEPT ![p] = calls[p] + 1]
        BY <2>3 DEF PublishThrows, PublishFails
      <4>3. fails' = fails \/ fails' = [fails EXCEPT ![p] = fails[p] + 1]
        BY <2>3 DEF PublishThrows, PublishFails
      <4> QED
        BY <4>1, <4>2, <4>3 DEF TypeOK
    <3> QED
      BY <2>3, <3>1 DEF PublishThrows, PublishFails, endpointVars, TypeOK, Meet
  <2>4. ASSUME NEW p \in Publishers, Publish(p)
        PROVE  TypeOK'
    <3>1. /\ calls' \in [Publishers -> 0..MaxCalls] /\ fails' = fails
          /\ \A q \in Publishers : fails'[q] <= calls'[q]
      BY <2>4 DEF Publish, CanPublish, TypeOK
    <3>2. ASSUME NEW s \in Subscriptions
          PROVE  /\ queue'[s] \in Seq(Publishers) /\ Len(queue'[s]) <= QueueDepth
                 /\ \A i \in 1..Len(queue'[s]) : Meet(queue'[s][i], s) /\ s \in subscriber
      <4>1. CASE s \in subscriber /\ Meet(p, s)
        BY <2>4, <4>1, OverflowKeepsNewest DEF Publish, TypeOK
      <4>2. CASE ~(s \in subscriber /\ Meet(p, s))
        BY <2>4, <4>2 DEF Publish, TypeOK
      <4> QED
        BY <4>1, <4>2
    <3>3. queue' \in [Subscriptions -> Seq(Publishers)]
      BY <2>4, <3>2 DEF Publish
    <3>4. event' \in [Subscriptions -> BOOLEAN]
      BY <2>4 DEF Publish, TypeOK
    <3>5. UNCHANGED endpointVars
      BY <2>4 DEF Publish
    <3> QED
      BY <3>1, <3>2, <3>3, <3>4, <3>5, FrameIsTyped DEF TypeOK
  <2>5. ASSUME NEW s \in Subscriptions, Dispatch(s)
        PROVE  TypeOK'
    <3>1. UNCHANGED endpointVars /\ UNCHANGED <<calls, fails>>
      BY <2>5 DEF Dispatch
    <3>2. event' \in [Subscriptions -> BOOLEAN]
      BY <2>5 DEF Dispatch, TypeOK
    <3>3. CASE s \in PushSubscriptions
      <4>1. queue' = [queue EXCEPT ![s] = <<>>]
        BY <2>5, <3>3 DEF Dispatch
      <4>2. queue' \in [Subscriptions -> Seq(Publishers)]
        BY <4>1 DEF TypeOK
      <4>3. ASSUME NEW r \in Subscriptions
            PROVE  /\ Len(queue'[r]) <= QueueDepth
                   /\ \A i \in 1..Len(queue'[r]) : Meet(queue'[r][i], r) /\ r \in subscriber
        <5>1. CASE r = s
          <6>1. queue'[r] = <<>>
            BY <4>1, <5>1 DEF TypeOK
          <6> QED
            BY <6>1
        <5>2. CASE r # s
          <6>1. queue'[r] = queue[r]
            BY <4>1, <5>2 DEF TypeOK
          <6> QED
            BY <6>1 DEF TypeOK
        <5> QED
          BY <5>1, <5>2
      <4> QED
        BY <3>1, <3>2, <4>2, <4>3, FrameIsTyped DEF TypeOK
    <3>4. CASE s \notin PushSubscriptions
      <4>1. UNCHANGED queue
        BY <2>5, <3>4 DEF Dispatch
      <4> QED
        BY <3>1, <3>2, <4>1, FrameIsTyped DEF TypeOK
    <3> QED
      BY <3>3, <3>4
  <2>6. ASSUME NEW s \in Subscriptions, Take(s)
        PROVE  TypeOK'
    <3>1. /\ queue[s] \in Seq(Publishers) /\ queue[s] # <<>>
          /\ Len(queue[s]) <= QueueDepth
          /\ \A i \in 1..Len(queue[s]) : Meet(queue[s][i], s) /\ s \in subscriber
      BY <2>6 DEF Take, TypeOK
    <3>2. /\ Tail(queue[s]) \in Seq(Publishers)
          /\ Len(Tail(queue[s])) = Len(queue[s]) - 1
          /\ \A i \in 1..Len(Tail(queue[s])) : Tail(queue[s])[i] = queue[s][i + 1]
      BY <3>1
    <3>3. queue' = [queue EXCEPT ![s] = Tail(queue[s])]
      BY <2>6 DEF Take
    <3>4. queue' \in [Subscriptions -> Seq(Publishers)]
      BY <3>2, <3>3 DEF TypeOK
    <3>5. ASSUME NEW r \in Subscriptions
          PROVE  /\ Len(queue'[r]) <= QueueDepth
                 /\ \A i \in 1..Len(queue'[r]) : Meet(queue'[r][i], r) /\ r \in subscriber
      <4>1. CASE r = s
        <5>1. queue'[r] = Tail(queue[s])
          BY <3>3, <4>1 DEF TypeOK
        <5> QED
          BY <3>1, <3>2, <4>1, <5>1
      <4>2. CASE r # s
        <5>1. queue'[r] = queue[r]
          BY <3>3, <4>2 DEF TypeOK
        <5> QED
          BY <5>1 DEF TypeOK
      <4> QED
        BY <4>1, <4>2
    <3>6. UNCHANGED endpointVars /\ UNCHANGED <<event, calls, fails>>
      BY <2>6 DEF Take
    <3> QED
      BY <3>4, <3>5, <3>6, FrameIsTyped DEF TypeOK
  <2>7. CASE UNCHANGED vars
    BY <2>7 DEF vars, endpointVars, TypeOK, Meet
  <2> QED
    BY <2>1, <2>2, <2>3, <2>4, <2>5, <2>6, <2>7 DEF Next
<1> QED
  BY <1>1, <1>2, PTL DEF Spec

-------------------------------------------------------------------------------
\* A successful publish between valid endpoints of one topic arrives and is
\* announced, for all names, depths and numbers of endpoints.
THEOREM ValidIsEnough == Spec => ValidEndpointsMeet
<1> DEFINE Arrives ==
      \A p \in Publishers, s \in Subscriptions :
        calls'[p] # calls[p] /\ fails'[p] = fails[p] /\ SameTopic(p, s)
          /\ ValidPublisher(p) /\ ValidSubscription(s)
        => event'[s] /\ queue'[s] # <<>> /\ Last(queue'[s]) = p
<1>1. TypeOK /\ [Next]_vars => Arrives
  <2> SUFFICES ASSUME TypeOK, [Next]_vars, NEW p \in Publishers, NEW s \in Subscriptions,
                      calls'[p] # calls[p], fails'[p] = fails[p], SameTopic(p, s),
                      ValidPublisher(p), ValidSubscription(s)
               PROVE  event'[s] /\ queue'[s] # <<>> /\ Last(queue'[s]) = p
    OBVIOUS
  <2>1. Publish(p)
    <3>1. PICK q \in Publishers : PublishThrows(q) \/ PublishFails(q) \/ Publish(q)
      BY DEF Next, vars, CreatePublisher, CreateSubscription, Dispatch, Take
    <3>2. q = p
      BY <3>1 DEF PublishThrows, PublishFails, Publish, TypeOK
    <3>3. ~PublishFails(p)
      BY DEF PublishFails, TypeOK
    <3>4. ~PublishThrows(p)
      BY DEF PublishThrows, ValidPublisher
    <3> QED
      BY <3>1, <3>2, <3>3, <3>4
  <2>2. Meet(p, s)
    <3>1. topic[p] \in Topics /\ topic[s] \in Topics
      BY DEF SameTopic, TypeOK
    <3> QED
      BY <3>1, OneTopicOneService DEF SameTopic, Meet
  <2>3. queue'[s] # <<>> /\ queue'[s][Len(queue'[s])] = p
    BY <2>1, <2>2, OverflowKeepsNewest DEF Publish, ValidSubscription, TypeOK
  <2>4. event'[s]
    BY <2>1, <2>2 DEF Publish, ValidPublisher, ValidSubscription
  <2> QED
    BY <2>3, <2>4 DEF Last
<1> QED
  BY <1>1, TypeCorrect, PTL DEF Spec, ValidEndpointsMeet
===============================================================================
