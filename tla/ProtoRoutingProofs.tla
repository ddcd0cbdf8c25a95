-------------------------- MODULE ProtoRoutingProofs ---------------------------
(***************************************************************************)
(* What holds of ProtoRouting for every number of publishers and           *)
(* subscriptions, every depth and every combination of middleware, tracks  *)
(* and intra-process settings.                                             *)
(***************************************************************************)
EXTENDS ProtoRouting, TLAPS

-------------------------------------------------------------------------------
(* What they rest on.                                                      *)

\* The number of the last message that publish has passed on, or dropped.
Committed(p) == IF pc[p] = "idle" THEN calls[p] ELSE calls[p] - 1

\* By which way the messages of p reach the callback of s; the other has copies.
Way(s, p) == IF s \in subIntra /\ p \in pubIntra THEN inbox[s] ELSE wire[s]

\* The messages of p in q are numbered in increasing order, above low and up to high.
Ascends(q, p, low, high) ==
  \A i \in 1..Len(q), n \in 1..MaxCalls : q[i] = <<p, n>> =>
    /\ low < n /\ n <= high
    /\ \A j \in 1..Len(q), m \in 1..MaxCalls : i < j /\ q[j] = <<p, m>> => n < m

\* A way holds, in order, messages newer than the last one the callback got.
OrderInv ==
  \A s \in Subscriptions, p \in Publishers :
    /\ seen[s][p] <= Committed(p)
    /\ Ascends(Way(s, p), p, seen[s][p], Committed(p))


-------------------------------------------------------------------------------
\* A push onto a queue of rclcpp or of the middleware keeps its bound.
LEMMA PushIsQueue ==
  ASSUME NEW S, NEW q \in Seq(S), NEW x \in S, Len(q) <= Depth
  PROVE  /\ Push(q, x) \in Seq(S) /\ Len(Push(q, x)) <= Depth
         /\ Len(Push(q, x)) \in Nat \ {0} /\ Push(q, x)[Len(Push(q, x))] = x
<1>1. CASE Len(q) = Depth
  <2>1. q # <<>> /\ Len(q) \in Nat
    BY <1>1, DepthAssumption
  <2>2. Tail(q) \in Seq(S) /\ Len(Tail(q)) = Len(q) - 1
    BY <2>1
  <2> QED BY <1>1, <2>1, <2>2, DepthAssumption DEF Push
<1>2. CASE Len(q) # Depth
  BY <1>2, DepthAssumption DEF Push
<1> QED BY <1>1, <1>2

\* Nothing but a message has a publisher.
LEMMA MessageParts ==
  ASSUME NEW x \in Message \union {NoMessage}, x # NoMessage
  PROVE  /\ x[1] \in Publishers /\ x[2] \in 1..MaxCalls /\ x = <<x[1], x[2]>>
         /\ x \in Message
BY DEF Message

\* A message has a publisher and a number.
LEMMA MessageIs ==
  ASSUME NEW p \in Publishers, NEW n \in 1..MaxCalls
  PROVE  /\ <<p, n>> \in Message /\ <<p, n>> # NoMessage
         /\ <<p, n>>[1] = p /\ <<p, n>>[2] = n
BY NoMessageAssumption, BoundAssumption DEF Message

-------------------------------------------------------------------------------
\* What rclcpp's buffers hold comes from publishers that use them.
InProcessMessage == pubIntra \X (1..MaxCalls)

\* Whatever way a message goes, it goes to whoever is there, into a queue that
\* keeps its bound.
LEMMA SendIsTyped ==
  ASSUME TypeOK, NEW p \in Publishers, NEW n \in 1..MaxCalls,
         SendTyped(p, n) \/ SendBytes(p, n) \/ Unserializable,
         UNCHANGED <<endVars, seen, got>>
  PROVE  QueueTypeOK'
<1> USE DEF TypeOK, QueueTypeOK, InProcessMessage
<1>1. <<p, n>> \in Message
  BY MessageIs
<1>2. ASSUME NEW s \in Subscriptions
      PROVE  /\ p \in pubIntra => Push(inbox[s], <<p, n>>) \in Seq(InProcessMessage)
             /\ p \in pubIntra => Len(Push(inbox[s], <<p, n>>)) <= Depth
             /\ Push(wire[s], <<p, n>>) \in Seq(Message \union {NoMessage})
             /\ Len(Push(wire[s], <<p, n>>)) <= Depth
  <2> DEFINE x == <<p, n>>
  <2>1. /\ x \in Message /\ x \in Message \union {NoMessage}
        /\ p \in pubIntra => x \in InProcessMessage
        /\ inbox[s] \in Seq(InProcessMessage) /\ Len(inbox[s]) <= Depth
        /\ wire[s] \in Seq(Message \union {NoMessage}) /\ Len(wire[s]) <= Depth
    BY <1>1
  <2> HIDE DEF x
  <2>2. p \in pubIntra =>
          Push(inbox[s], x) \in Seq(InProcessMessage) /\ Len(Push(inbox[s], x)) <= Depth
    BY <2>1, PushIsQueue
  <2>3. /\ Push(wire[s], x) \in Seq(Message \union {NoMessage})
        /\ Len(Push(wire[s], x)) <= Depth
    BY <2>1, PushIsQueue
  <2> QED BY <2>2, <2>3 DEF x
<1>3. /\ \/ inbox' = inbox
         \/ p \in pubIntra /\ inbox' = PushAll(inbox, InProcess, <<p, n>>)
      /\ wire' \in {wire, PushAll(wire, Present, <<p, n>>)}
      /\ UNCHANGED <<track, subIntra, pubIntra>>
  <2>1. UNCHANGED <<track, subIntra, pubIntra>>
    BY DEF SendTyped, SendBytes, Unserializable, Sent, endVars, EndsTypeOK
  <2>2. \/ inbox' = inbox
        \/ p \in pubIntra /\ inbox' = PushAll(inbox, InProcess, <<p, n>>)
    <3>1. CASE SendTyped(p, n) /\ p \in pubIntra
      BY <3>1 DEF SendTyped
    <3>2. CASE SendTyped(p, n) /\ p \notin pubIntra
      BY <3>2 DEF SendTyped
    <3>3. CASE SendBytes(p, n) \/ Unserializable
      BY <3>3 DEF SendBytes, Unserializable, msgVars
    <3> QED BY <3>1, <3>2, <3>3
  <2>3. wire' = wire \/ wire' = PushAll(wire, Present, <<p, n>>)
    <3>1. CASE SendTyped(p, n) /\ p \in pubIntra
      BY <3>1 DEF SendTyped
    <3>2. CASE SendTyped(p, n) /\ p \notin pubIntra
      BY <3>2 DEF SendTyped
    <3>3. CASE SendBytes(p, n) \/ Unserializable
      BY <3>3 DEF SendBytes, Unserializable, msgVars
    <3> QED BY <3>1, <3>2, <3>3
  <2> QED BY <2>1, <2>2, <2>3
<1>4. /\ due' \in [Subscriptions -> Message \union {NoMessage}]
      /\ \A s \in Subscriptions \ Present : due'[s] = NoMessage
  BY <1>1 DEF SendTyped, SendBytes, Unserializable, Sent, msgVars
<1>5. InProcess \subseteq Present /\ InProcess \subseteq subIntra /\ Present' = Present
  BY <1>3 DEF Present, InProcess
<1>6. ASSUME NEW s \in Subscriptions
      PROVE  /\ \/ inbox'[s] = inbox[s]
                \/ p \in pubIntra /\ s \in InProcess /\ inbox'[s] = Push(inbox[s], <<p, n>>)
             /\ \/ wire'[s] = wire[s]
                \/ s \in Present /\ wire'[s] = Push(wire[s], <<p, n>>)
  <2>1. PushAll(inbox, InProcess, <<p, n>>)[s]
          = IF s \in InProcess THEN Push(inbox[s], <<p, n>>) ELSE inbox[s]
    BY DEF PushAll
  <2>2. PushAll(wire, Present, <<p, n>>)[s]
          = IF s \in Present THEN Push(wire[s], <<p, n>>) ELSE wire[s]
    BY DEF PushAll
  <2> QED BY <1>3, <2>1, <2>2
<1>7. /\ inbox' = [s \in Subscriptions |-> inbox'[s]]
      /\ wire' = [s \in Subscriptions |-> wire'[s]]
  BY <1>3 DEF PushAll
<1>8. /\ inbox' \in [Subscriptions -> Seq(InProcessMessage)]
      /\ wire' \in [Subscriptions -> Seq(Message \union {NoMessage})]
  BY <1>2, <1>6, <1>7
<1>9. ASSUME NEW s \in Subscriptions
      PROVE  /\ Len(inbox'[s]) <= Depth /\ Len(wire'[s]) <= Depth
             /\ s \notin Present => inbox'[s] = <<>> /\ wire'[s] = <<>> /\ due'[s] = NoMessage
             /\ inbox'[s] # <<>> => s \in subIntra
  BY <1>2, <1>4, <1>5, <1>6
<1> QED BY <1>3, <1>4, <1>5, <1>8, <1>9

\* What a callback is given leaves what it has seen representable.
LEMMA CallbackIsTyped ==
  ASSUME CallsTypeOK, NEW s \in Subscriptions, NEW x \in Message \union {NoMessage},
         \/ UNCHANGED <<seen, got>>
         \/ x # NoMessage /\ Callback(s, x)
  PROVE  /\ seen' \in [Subscriptions -> [Publishers -> 0..MaxCalls]]
         /\ got' \in [Subscriptions -> [Publishers -> Nat]]
<1>1. /\ seen \in [Subscriptions -> [Publishers -> 0..MaxCalls]]
      /\ got \in [Subscriptions -> [Publishers -> Nat]]
  BY DEF CallsTypeOK
<1>2. CASE UNCHANGED <<seen, got>>
  BY <1>1, <1>2
<1>3. ASSUME x # NoMessage, Callback(s, x)
      PROVE  /\ seen' \in [Subscriptions -> [Publishers -> 0..MaxCalls]]
             /\ got' \in [Subscriptions -> [Publishers -> Nat]]
  <2>1. x[1] \in Publishers /\ x[2] \in 0..MaxCalls
    BY <1>3, MessageParts, BoundAssumption
  <2>2. /\ seen' = [seen EXCEPT ![s][x[1]] = x[2]]
        /\ got' = [got EXCEPT ![s][x[1]] = @ + 1]
    BY <1>3 DEF Callback
  <2>3. seen' \in [Subscriptions -> [Publishers -> 0..MaxCalls]]
    BY <1>1, <2>1, <2>2
  <2>4. got' \in [Subscriptions -> [Publishers -> Nat]]
    BY <1>1, <2>1, <2>2
  <2> QED BY <2>3, <2>4
<1> QED BY <1>2, <1>3

\* What leaves the head of a queue leaves a queue.
LEMMA TakeIsTyped ==
  ASSUME NEW S, NEW queues \in [Subscriptions -> Seq(S)], NEW s \in Subscriptions,
         queues[s] # <<>>
  PROVE  /\ Head(queues[s]) \in S
         /\ [queues EXCEPT ![s] = Tail(@)] \in [Subscriptions -> Seq(S)]
         /\ Len(Tail(queues[s])) = Len(queues[s]) - 1 /\ Len(queues[s]) \in Nat
<1>1. queues[s] \in Seq(S)
  OBVIOUS
<1>2. /\ Head(queues[s]) \in S /\ Tail(queues[s]) \in Seq(S)
      /\ Len(Tail(queues[s])) = Len(queues[s]) - 1 /\ Len(queues[s]) \in Nat
  BY <1>1
<1> QED BY <1>2

\* A reception: of the queue of the middleware, or of the buffer of rclcpp.
FromWire(s) ==
  /\ wire[s] # <<>> /\ s \in Subscriptions
  /\ wire' = [wire EXCEPT ![s] = Tail(@)]
  /\ IF Head(wire[s]) = NoMessage \/ Copy(s, Head(wire[s]))
     THEN UNCHANGED <<seen, got>>
     ELSE Callback(s, Head(wire[s]))
  /\ UNCHANGED <<endVars, inbox, due, pc, calls>>

\* The executor and the polling loop receive alike.
LEMMA BothFromWire ==
  ASSUME NEW s \in Subscriptions, TakeWire(s) \/ TakePolled(s)
  PROVE  FromWire(s)
BY DEF TakeWire, TakePolled, FromWire

\* Type correctness, with the bounds of all queues.
THEOREM TypeCorrect == Spec => []TypeOK
<1>1. Init => TypeOK
  <2> HAVE Init
  <2>1. EndsTypeOK
    BY DEF Init, EndsTypeOK
  <2>2. CallsTypeOK
    BY BoundAssumption DEF Init, CallsTypeOK
  <2>3. QueueTypeOK
    BY DepthAssumption DEF Init, QueueTypeOK
  <2> QED BY <2>1, <2>2, <2>3 DEF TypeOK
<1>2. TypeOK /\ [Next]_vars => TypeOK'
  <2> SUFFICES ASSUME TypeOK, [Next]_vars PROVE TypeOK'
    OBVIOUS
  <2> USE DEF endVars, msgVars, TypeOK
  <2>1. ASSUME NEW s \in Subscriptions, NEW setting \in Settings, NEW default \in BOOLEAN,
               Create(s, setting, default)
        PROVE  TypeOK'
    <3>1. EndsTypeOK'
      BY <2>1 DEF Create, Track, UsesIntra, Resolved, EndsTypeOK
    <3>2. CallsTypeOK'
      BY <2>1 DEF Create, CallsTypeOK
    <3>3. QueueTypeOK'
      BY <2>1 DEF Create, QueueTypeOK, Present, EndsTypeOK
    <3> QED BY <3>1, <3>2, <3>3
  <2>2. ASSUME NEW s \in Subscriptions, Drop(s) PROVE TypeOK'
    <3>1. EndsTypeOK'
      BY <2>2 DEF Drop, EndsTypeOK
    <3>2. CallsTypeOK'
      BY <2>2 DEF Drop, CallsTypeOK
    <3>3. QueueTypeOK'
      BY <2>2, DepthAssumption DEF Drop, QueueTypeOK, Present, EndsTypeOK
    <3> QED BY <3>1, <3>2, <3>3
  <2>3. ASSUME NEW s \in Subscriptions, Foreign(s) PROVE TypeOK'
    <3>1. EndsTypeOK' /\ CallsTypeOK'
      BY <2>3 DEF Foreign, EndsTypeOK, CallsTypeOK
    <3>2. QueueTypeOK'
      BY <2>3, DepthAssumption DEF Foreign, QueueTypeOK, Present
    <3> QED BY <3>1, <3>2
  <2>4. ASSUME NEW s \in Subscriptions, TakeIntra(s) PROVE TypeOK'
    <3>1. /\ Head(inbox[s]) \in InProcessMessage
          /\ inbox' \in [Subscriptions -> Seq(InProcessMessage)]
          /\ Len(inbox'[s]) = Len(inbox[s]) - 1 /\ Len(inbox[s]) \in Nat
      BY <2>4, TakeIsTyped DEF TakeIntra, QueueTypeOK, InProcessMessage
    <3>2. Head(inbox[s]) # NoMessage /\ Head(inbox[s]) \in Message
      BY <3>1, NoMessageAssumption, BoundAssumption DEF Message, InProcessMessage,
           EndsTypeOK
    <3>3. CallsTypeOK'
      BY <2>4, <3>1, <3>2, CallbackIsTyped DEF TakeIntra, CallsTypeOK
    <3>4. EndsTypeOK'
      BY <2>4 DEF TakeIntra, EndsTypeOK
    <3>5. QueueTypeOK'
      BY <2>4, <3>1, DepthAssumption DEF TakeIntra, QueueTypeOK, Present,
           InProcessMessage
    <3> QED BY <3>3, <3>4, <3>5
  <2>5. ASSUME NEW s \in Subscriptions, FromWire(s) PROVE TypeOK'
    <3>1. /\ Head(wire[s]) \in Message \union {NoMessage}
          /\ wire' \in [Subscriptions -> Seq(Message \union {NoMessage})]
          /\ Len(wire'[s]) = Len(wire[s]) - 1 /\ Len(wire[s]) \in Nat
      BY <2>5, TakeIsTyped DEF FromWire, QueueTypeOK
    <3>2. CallsTypeOK'
      BY <2>5, <3>1, CallbackIsTyped DEF FromWire, CallsTypeOK
    <3>3. EndsTypeOK'
      BY <2>5 DEF FromWire, EndsTypeOK
    <3>4. QueueTypeOK'
      BY <2>5, <3>1, DepthAssumption DEF FromWire, QueueTypeOK, Present
    <3> QED BY <3>2, <3>3, <3>4
  <2>6. ASSUME NEW p \in Publishers, PublishConst(p) PROVE TypeOK'
    <3>1. calls[p] + 1 \in 1..MaxCalls
      BY <2>6, BoundAssumption DEF PublishConst, CanPublish, CallsTypeOK
    <3>2. QueueTypeOK'
      BY <2>6, <3>1, SendIsTyped DEF PublishConst
    <3>3. EndsTypeOK'
      BY <2>6, <3>2 DEF PublishConst, EndsTypeOK
    <3>4. CallsTypeOK'
      BY <2>6, <3>1, BoundAssumption DEF PublishConst, CallsTypeOK
    <3> QED BY <3>2, <3>3, <3>4
  <2>7. ASSUME NEW p \in Publishers, Count(p) PROVE TypeOK'
    <3>1. calls[p] + 1 \in 1..MaxCalls
      BY <2>7, BoundAssumption DEF Count, CanPublish, CallsTypeOK
    <3>2. EndsTypeOK' /\ QueueTypeOK'
      BY <2>7 DEF Count, EndsTypeOK, QueueTypeOK, Present
    <3>3. CallsTypeOK'
      BY <2>7, <3>1, BoundAssumption DEF Count, CallsTypeOK, InProcess
    <3> QED BY <3>2, <3>3
  <2>8. ASSUME NEW p \in Publishers, PublishUnique(p) PROVE TypeOK'
    <3>1. calls[p] \in 1..MaxCalls
      <4>1. pc[p] # "idle"
        BY <2>8 DEF PublishUnique
      <4> QED BY <4>1, BoundAssumption DEF CallsTypeOK
    <3>2. QueueTypeOK'
      BY <2>8, <3>1, SendIsTyped DEF PublishUnique
    <3>3. EndsTypeOK'
      BY <2>8, <3>2 DEF PublishUnique, EndsTypeOK
    <3>4. CallsTypeOK'
      BY <2>8 DEF PublishUnique, CallsTypeOK
    <3> QED BY <3>2, <3>3, <3>4
  <2>9. CASE UNCHANGED vars
    BY <2>9 DEF vars, EndsTypeOK, CallsTypeOK, QueueTypeOK, Present
  <2> QED BY <2>1, <2>2, <2>3, <2>4, <2>5, <2>6, <2>7, <2>8, <2>9, BothFromWire DEF Next
<1> QED BY <1>1, <1>2, PTL DEF Spec

-------------------------------------------------------------------------------
\* A way stays in order when something newer comes, or nothing of p.
LEMMA AscendsOnPush ==
  ASSUME NEW S, NEW q \in Seq(S), NEW x \in S, NEW p, Len(q) <= Depth,
         NEW low \in Nat, NEW high \in Nat, NEW top \in Nat, low <= high, high <= top,
         Ascends(q, p, low, high),
         \A n \in 1..MaxCalls : x = <<p, n>> => high < n /\ n <= top
  PROVE  Ascends(Push(q, x), p, low, top)
<1> DEFINE Is(y, n) == y = <<p, n>>
           r == Push(q, x)
           shift == IF Len(q) = Depth THEN 1 ELSE 0
<1>1. /\ \A i \in 1..Len(q), n \in 1..MaxCalls : Is(q[i], n) => low < n /\ n <= high
      /\ \A i, j \in 1..Len(q) : \A n, m \in 1..MaxCalls :
           Is(q[i], n) /\ Is(q[j], m) /\ i < j => n < m
      /\ \A n \in 1..MaxCalls : Is(x, n) => high < n /\ n <= top
  BY DEF Ascends
<1>2. /\ Len(q) \in Nat /\ Len(r) = Len(q) + 1 - shift /\ r[Len(r)] = x
      /\ \A i \in 1..(Len(r) - 1) : r[i] = q[i + shift] /\ i + shift \in 1..Len(q)
  <2>1. CASE Len(q) = Depth
    <3>1. q # <<>> /\ Len(q) \in Nat \ {0}
      BY <2>1, DepthAssumption
    <3>2. /\ Tail(q) \in Seq(S) /\ Len(Tail(q)) = Len(q) - 1
          /\ \A i \in 1..(Len(q) - 1) : Tail(q)[i] = q[i + 1]
      BY <3>1
    <3>3. r = Append(Tail(q), x) /\ shift = 1
      BY <2>1 DEF Push
    <3> HIDE DEF r, shift
    <3> QED BY <3>1, <3>2, <3>3
  <2>2. CASE Len(q) # Depth
    <3>1. r = Append(q, x) /\ shift = 0
      BY <2>2 DEF Push
    <3> HIDE DEF r, shift
    <3> QED BY <3>1
  <2> QED BY <2>1, <2>2
<1>3. shift \in Nat
  OBVIOUS
<1> HIDE DEF Is, r, shift
<1>4. \A i \in 1..Len(r) : i = Len(r) \/ i \in 1..(Len(r) - 1)
  BY <1>2, <1>3
<1>5. \A i \in 1..Len(r), n \in 1..MaxCalls : Is(r[i], n) => low < n /\ n <= top
  <2> SUFFICES ASSUME NEW i \in 1..Len(r), NEW n \in 1..MaxCalls, Is(r[i], n)
               PROVE  low < n /\ n <= top
    OBVIOUS
  <2>1. CASE i = Len(r)
    BY <1>1, <1>2, <2>1, BoundAssumption
  <2>2. CASE i \in 1..(Len(r) - 1)
    BY <1>1, <1>2, <2>2, BoundAssumption
  <2> QED BY <1>4, <2>1, <2>2
<1>6. \A i, j \in 1..Len(r) : \A n, m \in 1..MaxCalls :
        Is(r[i], n) /\ Is(r[j], m) /\ i < j => n < m
  <2> SUFFICES ASSUME NEW i \in 1..Len(r), NEW j \in 1..Len(r), NEW n \in 1..MaxCalls,
                      NEW m \in 1..MaxCalls, Is(r[i], n), Is(r[j], m), i < j
               PROVE  n < m
    OBVIOUS
  <2>1. i \in 1..(Len(r) - 1)
    BY <1>2, <1>3
  <2>2. n <= high
    BY <1>1, <1>2, <2>1
  <2>3. CASE j = Len(r)
    BY <1>1, <1>2, <2>2, <2>3, BoundAssumption
  <2>4. CASE j \in 1..(Len(r) - 1)
    <3>1. i + shift < j + shift
      BY <1>3
    <3> QED BY <1>1, <1>2, <2>1, <2>4, <3>1
  <2> QED BY <1>4, <2>3, <2>4
<1> QED BY <1>5, <1>6 DEF Ascends, Is, r

\* And when its head is taken, also above that head.
LEMMA AscendsOnTake ==
  ASSUME NEW S, NEW q \in Seq(S), q # <<>>, NEW p, NEW low \in Nat, NEW high \in Nat,
         Ascends(q, p, low, high)
  PROVE  /\ Ascends(Tail(q), p, low, high)
         /\ \A n \in 1..MaxCalls : Head(q) = <<p, n>> =>
              low < n /\ n <= high /\ Ascends(Tail(q), p, n, high)
<1> USE BoundAssumption DEF Ascends
<1>1. /\ Len(q) \in Nat \ {0} /\ Head(q) = q[1] /\ Len(Tail(q)) = Len(q) - 1
      /\ \A i \in 1..(Len(q) - 1) : Tail(q)[i] = q[i + 1]
  OBVIOUS
<1>2. 1 \in 1..Len(q) /\ \A i \in 1..(Len(q) - 1) : i + 1 \in 1..Len(q) /\ 1 < i + 1
  BY <1>1
<1>3. Ascends(Tail(q), p, low, high)
  BY <1>1, <1>2
<1>4. ASSUME NEW n \in 1..MaxCalls, Head(q) = <<p, n>>
      PROVE  low < n /\ n <= high /\ Ascends(Tail(q), p, n, high)
  BY <1>1, <1>2, <1>3, <1>4
<1> QED BY <1>3, <1>4

\* What the publisher's next message is, and that publish passes on no other.
LEMMA PublishEffect ==
  ASSUME TypeOK, NEW p \in Publishers, NEW n, n = Committed(p) + 1,
         PublishConst(p) \/ PublishUnique(p)
  PROVE  /\ n \in 1..MaxCalls
         /\ SendTyped(p, n) \/ SendBytes(p, n) \/ Unserializable
         /\ UNCHANGED <<endVars, seen, got>>
         /\ Committed(p)' = n
         /\ \A o \in Publishers : o # p => Committed(o)' = Committed(o)
<1> USE BoundAssumption DEF TypeOK, CallsTypeOK, Committed
<1>1. CASE PublishConst(p)
  <2>1. n = calls[p] + 1 /\ n \in 1..MaxCalls
    BY <1>1 DEF PublishConst, CanPublish
  <2>2. SendTyped(p, n) \/ SendBytes(p, n) \/ Unserializable
    BY <1>1, <2>1 DEF PublishConst
  <2>3. /\ UNCHANGED <<endVars, pc, seen, got>> /\ pc[p] = "idle"
        /\ calls' = [calls EXCEPT ![p] = @ + 1]
    BY <1>1 DEF PublishConst, CanPublish
  <2> QED BY <2>1, <2>2, <2>3
<1>2. CASE PublishUnique(p)
  <2>1. pc[p] # "idle" /\ n = calls[p] /\ n \in 1..MaxCalls
    <3>1. pc[p] # "idle"
      BY <1>2 DEF PublishUnique
    <3> QED BY <3>1
  <2>2. SendTyped(p, n) \/ SendBytes(p, n) \/ Unserializable
    BY <1>2, <2>1 DEF PublishUnique
  <2>3. /\ UNCHANGED <<endVars, calls, seen, got>>
        /\ pc' = [pc EXCEPT ![p] = "idle"]
    BY <1>2 DEF PublishUnique
  <2> QED BY <2>1, <2>2, <2>3
<1> QED BY <1>1, <1>2

\* Each queue gets the message at most once.
LEMMA SendEffect ==
  ASSUME NEW p, NEW n, NEW s \in Subscriptions,
         SendTyped(p, n) \/ SendBytes(p, n) \/ Unserializable
  PROVE  /\ inbox'[s] = inbox[s] \/ inbox'[s] = Push(inbox[s], <<p, n>>)
         /\ wire'[s] = wire[s] \/ wire'[s] = Push(wire[s], <<p, n>>)
<1>1. /\ inbox' \in {inbox, PushAll(inbox, InProcess, <<p, n>>)}
      /\ wire' \in {wire, PushAll(wire, Present, <<p, n>>)}
  BY DEF SendTyped, SendBytes, Unserializable, msgVars
<1>2. PushAll(inbox, InProcess, <<p, n>>)[s]
        = IF s \in InProcess THEN Push(inbox[s], <<p, n>>) ELSE inbox[s]
  BY DEF PushAll
<1>3. PushAll(wire, Present, <<p, n>>)[s]
        = IF s \in Present THEN Push(wire[s], <<p, n>>) ELSE wire[s]
  BY DEF PushAll
<1> QED BY <1>1, <1>2, <1>3

\* Either queue of a subscription is a queue of messages, with numbers of calls.
LEMMA WayIsTyped ==
  ASSUME TypeOK, NEW s \in Subscriptions, NEW p \in Publishers
  PROVE  /\ Way(s, p) \in Seq(Message \union {NoMessage}) /\ Len(Way(s, p)) <= Depth
         /\ inbox[s] \in Seq(Message \union {NoMessage})
         /\ seen[s][p] \in Nat /\ Committed(p) \in Nat
<1>1. seen[s][p] \in Nat /\ Committed(p) \in Nat
  BY BoundAssumption DEF TypeOK, CallsTypeOK, Committed
<1>2. InProcessMessage \subseteq Message \union {NoMessage}
  BY DEF InProcessMessage, Message, TypeOK, EndsTypeOK
<1>3. inbox[s] \in Seq(InProcessMessage)
  BY DEF TypeOK, QueueTypeOK, InProcessMessage
<1>4. inbox[s] \in Seq(Message \union {NoMessage})
  BY <1>2, <1>3
<1> QED BY <1>1, <1>4 DEF Way, TypeOK, QueueTypeOK

\* A callback's message comes from the way of its publisher, and is its head: what
\* the other way has are copies, which never get there.
LEMMA Reception ==
  ASSUME TypeOK, NEW r \in Subscriptions, TakeIntra(r) \/ FromWire(r),
         NEW s \in Subscriptions, NEW p \in Publishers
  PROVE  \/ Way(s, p)' = Way(s, p) /\ seen'[s][p] = seen[s][p]
         \/ /\ Way(s, p) # <<>> /\ Way(s, p)' = Tail(Way(s, p))
            /\ \/ seen'[s][p] = seen[s][p]
               \/ \E n \in 1..MaxCalls : Head(Way(s, p)) = <<p, n>> /\ seen'[s][p] = n
<1>1. UNCHANGED <<subIntra, pubIntra>>
  BY DEF TakeIntra, FromWire, endVars
<1>2. /\ seen \in [Subscriptions -> [Publishers -> 0..MaxCalls]]
      /\ inbox \in [Subscriptions -> Seq(InProcessMessage)]
      /\ wire \in [Subscriptions -> Seq(Message \union {NoMessage})]
  BY DEF TypeOK, CallsTypeOK, QueueTypeOK, InProcessMessage
<1>3. ASSUME TakeIntra(r)
      PROVE  \/ Way(s, p)' = Way(s, p) /\ seen'[s][p] = seen[s][p]
             \/ /\ Way(s, p) # <<>> /\ Way(s, p)' = Tail(Way(s, p))
                /\ \/ seen'[s][p] = seen[s][p]
                   \/ \E n \in 1..MaxCalls : Head(Way(s, p)) = <<p, n>> /\ seen'[s][p] = n
  <2>1. /\ inbox[r] # <<>> /\ inbox' = [inbox EXCEPT ![r] = Tail(@)] /\ wire' = wire
        /\ Head(inbox[r]) \in InProcessMessage
    BY <1>2, <1>3 DEF TakeIntra
  <2>2. PICK o \in pubIntra, n \in 1..MaxCalls : Head(inbox[r]) = <<o, n>>
    BY <2>1 DEF InProcessMessage
  <2>3. r \in subIntra /\ o \in Publishers
    BY <2>1, <2>2 DEF TypeOK, QueueTypeOK, EndsTypeOK
  <2>4. seen' = seen \/ seen' = [seen EXCEPT ![r][o] = n]
    BY <1>3, <2>2, <2>3, MessageIs DEF TakeIntra, Callback
  <2>5. CASE s = r /\ p \in pubIntra
    <3>1. Way(s, p) = inbox[s] /\ Way(s, p)' = Tail(inbox[s])
      BY <1>1, <1>2, <2>1, <2>3, <2>5 DEF Way
    <3>2. seen'[s][p] = seen[s][p] \/ (p = o /\ seen'[s][p] = n)
      BY <1>2, <2>3, <2>4, <2>5
    <3> QED BY <2>1, <2>2, <2>5, <3>1, <3>2
  <2>6. CASE ~(s = r /\ p \in pubIntra)
    <3>1. Way(s, p)' = Way(s, p)
      BY <1>1, <1>2, <2>1, <2>6 DEF Way
    <3>2. seen'[s][p] = seen[s][p]
      BY <1>2, <2>2, <2>3, <2>4, <2>6
    <3> QED BY <3>1, <3>2
  <2> QED BY <2>5, <2>6
<1>4. ASSUME FromWire(r)
      PROVE  \/ Way(s, p)' = Way(s, p) /\ seen'[s][p] = seen[s][p]
             \/ /\ Way(s, p) # <<>> /\ Way(s, p)' = Tail(Way(s, p))
                /\ \/ seen'[s][p] = seen[s][p]
                   \/ \E n \in 1..MaxCalls : Head(Way(s, p)) = <<p, n>> /\ seen'[s][p] = n
  <2>1. /\ wire[r] # <<>> /\ wire' = [wire EXCEPT ![r] = Tail(@)] /\ inbox' = inbox
        /\ Head(wire[r]) \in Message \union {NoMessage}
    BY <1>2, <1>4 DEF FromWire
  <2>2. \/ seen' = seen
        \/ \E o \in Publishers, n \in 1..MaxCalls :
             /\ Head(wire[r]) = <<o, n>> /\ ~(r \in subIntra /\ o \in pubIntra)
             /\ seen' = [seen EXCEPT ![r][o] = n]
    <3>1. CASE Head(wire[r]) = NoMessage \/ Copy(r, Head(wire[r]))
      BY <1>4, <3>1 DEF FromWire
    <3>2. CASE ~(Head(wire[r]) = NoMessage \/ Copy(r, Head(wire[r])))
      <4>1. /\ Head(wire[r])[1] \in Publishers /\ Head(wire[r])[2] \in 1..MaxCalls
            /\ Head(wire[r]) = <<Head(wire[r])[1], Head(wire[r])[2]>>
        BY <2>1, <3>2, MessageParts
      <4>2. seen' = [seen EXCEPT ![r][Head(wire[r])[1]] = Head(wire[r])[2]]
        BY <1>4, <3>2 DEF FromWire, Callback
      <4> QED BY <3>2, <4>1, <4>2 DEF Copy
    <3> QED BY <3>1, <3>2
  <2>3. CASE s = r /\ ~(s \in subIntra /\ p \in pubIntra)
    <3>1. Way(s, p) = wire[s] /\ Way(s, p)' = Tail(wire[s])
      BY <1>1, <1>2, <2>1, <2>3 DEF Way
    <3>2. \/ seen'[s][p] = seen[s][p]
          \/ \E n \in 1..MaxCalls : Head(wire[s]) = <<p, n>> /\ seen'[s][p] = n
      BY <1>2, <2>2, <2>3
    <3> QED BY <2>1, <2>3, <3>1, <3>2
  <2>4. CASE ~(s = r /\ ~(s \in subIntra /\ p \in pubIntra))
    <3>1. Way(s, p)' = Way(s, p)
      BY <1>1, <1>2, <2>1, <2>4 DEF Way
    <3>2. seen'[s][p] = seen[s][p]
      BY <1>2, <2>2, <2>4
    <3> QED BY <3>1, <3>2
  <2> QED BY <2>3, <2>4
<1> QED BY <1>3, <1>4

\* Messages go and come by two ways, and both keep their order.
LEMMA OrderStep == OrderInv /\ TypeOK /\ [Next]_vars => OrderInv'
<1> SUFFICES ASSUME OrderInv, TypeOK, [Next]_vars,
                    NEW s \in Subscriptions, NEW p \in Publishers
             PROVE  (/\ seen[s][p] <= Committed(p)
                     /\ Ascends(Way(s, p), p, seen[s][p], Committed(p)))'
  BY DEF OrderInv
<1> DEFINE Ordered == /\ seen[s][p] <= Committed(p)
                      /\ Ascends(Way(s, p), p, seen[s][p], Committed(p))
<1>1. /\ Way(s, p) \in Seq(Message \union {NoMessage}) /\ Len(Way(s, p)) <= Depth
      /\ inbox[s] \in Seq(Message \union {NoMessage})
      /\ seen[s][p] \in Nat /\ Committed(p) \in Nat
      /\ seen[s][p] <= Committed(p) /\ Ascends(Way(s, p), p, seen[s][p], Committed(p))
  BY WayIsTyped DEF OrderInv
<1>2. ASSUME NEW o \in Publishers, PublishConst(o) \/ PublishUnique(o) PROVE Ordered'
  <2> DEFINE n == Committed(o) + 1
  <2>1. /\ n \in 1..MaxCalls
        /\ SendTyped(o, n) \/ SendBytes(o, n) \/ Unserializable
        /\ UNCHANGED <<endVars, seen, got>>
        /\ Committed(o)' = n /\ \A r \in Publishers : r # o => Committed(r)' = Committed(r)
    BY <1>2, PublishEffect
  <2> HIDE DEF n
  <2>2. /\ inbox'[s] = inbox[s] \/ inbox'[s] = Push(inbox[s], <<o, n>>)
        /\ wire'[s] = wire[s] \/ wire'[s] = Push(wire[s], <<o, n>>)
    BY <2>1, SendEffect
  <2>3. Way(s, p)' = Way(s, p) \/ Way(s, p)' = Push(Way(s, p), <<o, n>>)
    BY <2>1, <2>2 DEF Way, endVars
  <2>4. Committed(p)' \in Nat /\ Committed(p) <= Committed(p)'
        /\ (o = p => Committed(p)' = n /\ n = Committed(p) + 1)
    BY <1>1, <2>1 DEF n
  <2>5. seen'[s][p] = seen[s][p]
    BY <2>1
  <2>6. <<o, n>> \in Message \union {NoMessage}
    BY <2>1, MessageIs
  <2>7. \A m \in 1..MaxCalls : <<o, n>> = <<p, m>> =>
          Committed(p) < m /\ m <= Committed(p)'
    BY <1>1, <2>4
  <2>8. Ascends(Push(Way(s, p), <<o, n>>), p, seen[s][p], Committed(p)')
    <3> DEFINE x == <<o, n>>
               top == Committed(p)'
               low == seen[s][p]
               high == Committed(p)
               q == Way(s, p)
    <3>1. /\ x \in Message \union {NoMessage} /\ q \in Seq(Message \union {NoMessage})
          /\ Len(q) <= Depth /\ low \in Nat /\ high \in Nat /\ top \in Nat
          /\ low <= high /\ high <= top /\ Ascends(q, p, low, high)
          /\ \A m \in 1..MaxCalls : x = <<p, m>> => high < m /\ m <= top
      BY <1>1, <2>4, <2>6, <2>7
    <3> HIDE DEF x, top, low, high, q
    <3>2. Ascends(Push(q, x), p, low, top)
      BY <3>1, AscendsOnPush
    <3> QED BY <3>2 DEF x, top, low, high, q
  <2>9. Ascends(Way(s, p), p, seen[s][p], Committed(p)')
    BY <1>1, <2>4, BoundAssumption DEF Ascends
  <2> QED BY <1>1, <2>3, <2>4, <2>5, <2>8, <2>9
<1>3. ASSUME NEW o \in Publishers, Count(o) PROVE Ordered'
  <2>1. /\ UNCHANGED <<seen, inbox, wire, subIntra, pubIntra>>
        /\ Committed(p)' = Committed(p)
    BY <1>3, BoundAssumption DEF Count, CanPublish, endVars, msgVars, Committed, TypeOK,
         CallsTypeOK
  <2> QED BY <1>1, <2>1 DEF Way
<1>4. ASSUME NEW r \in Subscriptions, NEW setting \in Settings, NEW default \in BOOLEAN,
             Create(r, setting, default)
      PROVE  Ordered'
  <2>1. /\ UNCHANGED <<seen, inbox, wire, pubIntra, pc, calls>>
        /\ s # r => (s \in subIntra' <=> s \in subIntra)
        /\ track[r] = "none"
    BY <1>4 DEF Create, msgVars
  <2>2. s = r => inbox[s] = <<>> /\ wire[s] = <<>>
    BY <2>1 DEF TypeOK, QueueTypeOK, Present
  <2> QED BY <1>1, <2>1, <2>2 DEF Way, Committed
<1>5. ASSUME NEW r \in Subscriptions, Drop(r) PROVE Ordered'
  <2>1. /\ UNCHANGED <<seen, subIntra, pubIntra, pc, calls>>
        /\ inbox'[s] \in {inbox[s], <<>>} /\ wire'[s] \in {wire[s], <<>>}
    BY <1>5 DEF Drop, TypeOK, QueueTypeOK
  <2>2. Way(s, p)' \in {Way(s, p), <<>>} /\ Committed(p)' = Committed(p)
    BY <2>1 DEF Way, Committed
  <2>3. Ascends(<<>>, p, seen[s][p], Committed(p))
    BY DEF Ascends
  <2> QED BY <1>1, <2>1, <2>2, <2>3
<1>6. ASSUME NEW r \in Subscriptions, Foreign(r) PROVE Ordered'
  <2>1. /\ UNCHANGED <<seen, inbox, subIntra, pubIntra, pc, calls>>
        /\ \/ wire'[s] = wire[s]
           \/ wire'[s] = Append(wire[s], NoMessage) /\ Len(wire[s]) < Depth
    <3>1. /\ UNCHANGED <<seen, inbox, subIntra, pubIntra, pc, calls>>
          /\ wire' = [wire EXCEPT ![r] = Append(@, NoMessage)] /\ Len(wire[r]) < Depth
      BY <1>6 DEF Foreign, endVars
    <3>2. CASE s = r
      BY <3>1, <3>2 DEF TypeOK, QueueTypeOK
    <3>3. CASE s # r
      BY <3>1, <3>3 DEF TypeOK, QueueTypeOK
    <3> QED BY <3>2, <3>3
  <2>2. /\ Way(s, p)' = Way(s, p) \/ Way(s, p)' = Push(Way(s, p), NoMessage)
        /\ Committed(p)' = Committed(p)
    BY <2>1, DepthAssumption DEF Way, Committed, Push, TypeOK, QueueTypeOK
  <2>3. \A m \in 1..MaxCalls : NoMessage # <<p, m>>
    BY MessageIs
  <2>4. Ascends(Push(Way(s, p), NoMessage), p, seen[s][p], Committed(p))
    BY <1>1, <2>3, AscendsOnPush
  <2> QED BY <1>1, <2>1, <2>2, <2>4
<1>7. ASSUME NEW r \in Subscriptions, TakeIntra(r) \/ FromWire(r) PROVE Ordered'
  <2>1. /\ UNCHANGED <<subIntra, pubIntra>> /\ Committed(p)' = Committed(p)
    BY <1>7 DEF TakeIntra, FromWire, endVars, Committed
  <2>2. \/ Way(s, p)' = Way(s, p) /\ seen'[s][p] = seen[s][p]
        \/ /\ Way(s, p) # <<>> /\ Way(s, p)' = Tail(Way(s, p))
           /\ \/ seen'[s][p] = seen[s][p]
              \/ \E n \in 1..MaxCalls : Head(Way(s, p)) = <<p, n>> /\ seen'[s][p] = n
    BY <1>7, Reception
  <2>3. CASE Way(s, p)' = Way(s, p) /\ seen'[s][p] = seen[s][p]
    BY <1>1, <2>1, <2>3
  <2>4. ASSUME Way(s, p) # <<>>, Way(s, p)' = Tail(Way(s, p)) PROVE Ordered'
    <3>1. /\ Ascends(Tail(Way(s, p)), p, seen[s][p], Committed(p))
          /\ \A n \in 1..MaxCalls : Head(Way(s, p)) = <<p, n>> =>
               /\ seen[s][p] < n /\ n <= Committed(p)
               /\ Ascends(Tail(Way(s, p)), p, n, Committed(p))
      BY <1>1, <2>4, AscendsOnTake
    <3> QED BY <1>1, <2>1, <2>2, <2>4, <3>1
  <2> QED BY <2>2, <2>3, <2>4
<1>8. CASE UNCHANGED vars
  BY <1>1, <1>8 DEF vars, endVars, msgVars, Way, Committed
<1> QED BY <1>2, <1>3, <1>4, <1>5, <1>6, <1>7, <1>8, BothFromWire DEF Next

\* Neither way of a subscription holds the messages of a publisher out of order, or
\* one that its callback has got.
THEOREM OrderHolds == Spec => []OrderInv
<1>1. Init => OrderInv
  <2> SUFFICES ASSUME Init, NEW s \in Subscriptions, NEW p \in Publishers
               PROVE  /\ seen[s][p] <= Committed(p)
                      /\ Ascends(Way(s, p), p, seen[s][p], Committed(p))
    BY DEF OrderInv
  <2>1. seen[s][p] = 0 /\ Committed(p) = 0 /\ Way(s, p) = <<>>
    BY DEF Init, Committed, Way
  <2> QED BY <2>1 DEF Ascends
<1> QED BY <1>1, TypeCorrect, OrderStep, PTL DEF Spec

-------------------------------------------------------------------------------
\* What is in a queue is still in it when its head is taken, or was that head.
LEMMA InTail ==
  ASSUME NEW S, NEW q \in Seq(S), q # <<>>, NEW i \in DOMAIN q
  PROVE  q[i] = Head(q) \/ \E j \in DOMAIN Tail(q) : Tail(q)[j] = q[i]
<1>1. /\ Len(q) \in Nat /\ i \in 1..Len(q) /\ Head(q) = q[1]
      /\ DOMAIN Tail(q) = 1..(Len(q) - 1)
      /\ \A j \in 1..(Len(q) - 1) : Tail(q)[j] = q[j + 1]
  OBVIOUS
<1>2. CASE i = 1
  BY <1>1, <1>2
<1>3. CASE i # 1
  <2>1. i - 1 \in 1..(Len(q) - 1) /\ (i - 1) + 1 = i
    BY <1>1, <1>3
  <2> QED BY <1>1, <2>1
<1> QED BY <1>2, <1>3

\* What a callback has seen only grows.
LEMMA SeenGrows ==
  ASSUME TypeOK, OrderInv, NEW r \in Subscriptions, TakeIntra(r) \/ FromWire(r),
         NEW s \in Subscriptions, NEW p \in Publishers
  PROVE  seen[s][p] <= seen'[s][p] /\ seen'[s][p] \in Nat
<1>1. /\ Way(s, p) \in Seq(Message \union {NoMessage})
      /\ seen[s][p] \in Nat /\ Committed(p) \in Nat
      /\ Ascends(Way(s, p), p, seen[s][p], Committed(p))
  BY WayIsTyped DEF OrderInv
<1>2. CASE seen'[s][p] = seen[s][p]
  BY <1>1, <1>2
<1>3. ASSUME NEW n \in 1..MaxCalls, Way(s, p) # <<>>, Head(Way(s, p)) = <<p, n>>,
             seen'[s][p] = n
      PROVE  seen[s][p] <= seen'[s][p] /\ seen'[s][p] \in Nat
  <2>1. seen[s][p] < n
    BY <1>1, <1>3, AscendsOnTake
  <2> QED BY <1>1, <1>3, <2>1, BoundAssumption
<1> QED BY <1>2, <1>3, Reception

\* The message due to s is with its callback, or on a way to it.
Reaching(s) ==
  \/ seen[s][due[s][1]] >= due[s][2]
  \/ \E i \in DOMAIN inbox[s] : inbox[s][i] = due[s] /\ track[s] = "B" /\ s \notin polled
  \/ \E i \in DOMAIN wire[s] : wire[s][i] = due[s] /\ ~Copy(s, due[s])

\* publish leaves its message where the subscription will take it from.
LEMMA SentReaches ==
  ASSUME TypeOK, NEW p \in Publishers, NEW n \in 1..MaxCalls,
         SendTyped(p, n) \/ (SendBytes(p, n) /\ p \notin pubIntra), UNCHANGED endVars,
         NEW s \in Present, due'[s] # NoMessage
  PROVE  Reaching(s)'
<1> DEFINE x == <<p, n>>
<1>1. s \in Subscriptions /\ x \in Message /\ x \in Message \union {NoMessage}
  BY MessageIs DEF Present
<1>2. due'[s] = x /\ ~(s \in polled /\ Copy(s, x))
  <2>1. Sent(p, n)
    BY DEF SendTyped, SendBytes
  <2> QED BY <1>1, <2>1 DEF Sent
<1>3. Copy(s, x) <=> s \in subIntra /\ p \in pubIntra
  BY DEF Copy
<1>4. /\ inbox[s] \in Seq(Message \union {NoMessage}) /\ Len(inbox[s]) <= Depth
      /\ wire[s] \in Seq(Message \union {NoMessage}) /\ Len(wire[s]) <= Depth
  BY <1>1, WayIsTyped DEF TypeOK, QueueTypeOK
<1>5. PushAll(wire, Present, x)[s] = Push(wire[s], x)
  BY <1>1 DEF PushAll
<1>6. s \in InProcess => PushAll(inbox, InProcess, x)[s] = Push(inbox[s], x)
  BY <1>1 DEF PushAll
<1>7. UNCHANGED <<polled, track>> /\ (Copy(s, x)' <=> Copy(s, x))
  BY DEF endVars, Copy
<1>8. CASE Copy(s, x)
  <2>1. s \in InProcess /\ p \in pubIntra /\ s \notin polled
    BY <1>2, <1>3, <1>8 DEF InProcess
  <2>2. inbox'[s] = Push(inbox[s], x)
    BY <1>6, <2>1 DEF SendTyped
  <2>3. track[s] = "B"
    BY <1>1, <2>1 DEF InProcess, Present, TypeOK, EndsTypeOK
  <2>4. /\ inbox'[s] \in Seq(Message \union {NoMessage})
        /\ Len(inbox'[s]) \in Nat \ {0} /\ inbox'[s][Len(inbox'[s])] = x
    <3> DEFINE S == Message \union {NoMessage}
               q == inbox[s]
    <3>1. q \in Seq(S) /\ x \in S /\ Len(q) <= Depth
      BY <1>1, <1>4
    <3> HIDE DEF x, S, q
    <3>2. /\ Push(q, x) \in Seq(S)
          /\ Len(Push(q, x)) \in Nat \ {0} /\ Push(q, x)[Len(Push(q, x))] = x
      BY <3>1, PushIsQueue
    <3> QED BY <2>2, <3>2 DEF S, q
  <2>5. Len(inbox'[s]) \in DOMAIN inbox'[s]
    BY <2>4
  <2> QED BY <1>2, <1>7, <2>1, <2>3, <2>4, <2>5 DEF Reaching
<1>9. CASE ~Copy(s, x)
  <2>1. wire'[s] = Push(wire[s], x)
    <3>1. CASE SendTyped(p, n) /\ p \in pubIntra
      <4>1. s \notin InProcess /\ s \in Present
        BY <1>3, <1>9, <3>1 DEF InProcess
      <4>2. Present # InProcess
        BY <4>1
      <4> QED BY <1>5, <3>1, <4>2 DEF SendTyped
    <3>2. CASE p \notin pubIntra
      BY <1>5, <3>2 DEF SendTyped, SendBytes
    <3> QED BY <3>1, <3>2
  <2>2. /\ wire'[s] \in Seq(Message \union {NoMessage})
        /\ Len(wire'[s]) \in Nat \ {0} /\ wire'[s][Len(wire'[s])] = x
    <3> DEFINE S == Message \union {NoMessage}
               q == wire[s]
    <3>1. q \in Seq(S) /\ x \in S /\ Len(q) <= Depth
      BY <1>1, <1>4
    <3> HIDE DEF x, S, q
    <3>2. /\ Push(q, x) \in Seq(S)
          /\ Len(Push(q, x)) \in Nat \ {0} /\ Push(q, x)[Len(Push(q, x))] = x
      BY <3>1, PushIsQueue
    <3> QED BY <2>1, <3>2 DEF S, q
  <2>3. Len(wire'[s]) \in DOMAIN wire'[s]
    BY <2>2
  <2>4. ~Copy(s, due[s])'
    BY <1>2, <1>7, <1>9 DEF Copy
  <2> QED BY <1>2, <2>2, <2>3, <2>4 DEF Reaching
<1> QED BY <1>8, <1>9

\* The newest message sent while a subscription is there reaches its callback,
\* whatever combination of tracks and intra-process settings meet.
THEOREM NewestArrives == Spec => []NewestReaches
<1>1. Init => NewestReaches
  BY DEF Init, NewestReaches, Present
<1>2. TypeOK /\ OrderInv /\ NewestReaches /\ [Next]_vars => NewestReaches'
  <2> SUFFICES ASSUME TypeOK, OrderInv, NewestReaches, [Next]_vars,
                      NEW s \in Present', due'[s] # NoMessage
               PROVE  Reaching(s)'
    BY DEF NewestReaches, Reaching
  <2>1. s \in Subscriptions /\ (due[s] # NoMessage => s \in Present)
    BY DEF Present, TypeOK, QueueTypeOK
  <2>2. due[s] # NoMessage => Reaching(s)
    BY <2>1 DEF NewestReaches, Reaching
  <2>3. ASSUME due'[s] = due[s], seen'[s] = seen[s], inbox'[s] = inbox[s],
               wire'[s] = wire[s], track'[s] = track[s], UNCHANGED <<polled, pubIntra>>,
               s \in subIntra' <=> s \in subIntra
        PROVE  Reaching(s)'
    BY <2>2, <2>3 DEF Reaching, Copy
  <2>4. ASSUME NEW r \in Subscriptions, NEW setting \in Settings, NEW default \in BOOLEAN,
               Create(r, setting, default)
        PROVE  Reaching(s)'
    <3>1. /\ UNCHANGED <<due, seen, inbox, wire, polled, pubIntra>>
          /\ track[r] = "none"
      BY <2>4 DEF Create, msgVars
    <3>2. s # r
      BY <2>1, <3>1 DEF Present
    <3>3. track'[s] = track[s] /\ (s \in subIntra' <=> s \in subIntra)
      BY <2>1, <2>4, <3>2 DEF Create, TypeOK, EndsTypeOK
    <3> QED BY <2>3, <3>1, <3>3
  <2>5. ASSUME NEW r \in Subscriptions, Drop(r) PROVE Reaching(s)'
    <3>1. s # r
      BY <2>1, <2>5 DEF Drop, Present, TypeOK, EndsTypeOK
    <3>2. /\ due'[s] = due[s] /\ inbox'[s] = inbox[s] /\ wire'[s] = wire[s]
          /\ track'[s] = track[s] /\ UNCHANGED <<seen, polled, pubIntra, subIntra>>
      BY <2>1, <2>5, <3>1 DEF Drop, TypeOK, EndsTypeOK, QueueTypeOK
    <3> QED BY <2>3, <3>2
  <2>6. ASSUME NEW r \in Subscriptions, Foreign(r) PROVE Reaching(s)'
    <3>1. /\ UNCHANGED <<due, seen, inbox, polled, pubIntra, subIntra, track>>
          /\ wire' = [wire EXCEPT ![r] = Append(@, NoMessage)]
      BY <2>6 DEF Foreign, endVars
    <3>2. CASE s # r
      BY <2>1, <2>3, <3>1, <3>2 DEF TypeOK, QueueTypeOK
    <3>3. CASE s = r
      <4>1. wire[s] \in Seq(Message \union {NoMessage}) /\ wire'[s] = Append(wire[s], NoMessage)
        BY <2>1, <3>1, <3>3 DEF TypeOK, QueueTypeOK
      <4>2. \A i \in DOMAIN wire[s] : i \in DOMAIN wire'[s] /\ wire'[s][i] = wire[s][i]
        BY <4>1
      <4> QED BY <2>2, <3>1, <4>2 DEF Reaching, Copy
    <3> QED BY <3>2, <3>3
  <2>7. ASSUME NEW r \in Subscriptions, TakeIntra(r) \/ FromWire(r) PROVE Reaching(s)'
    <3>1. UNCHANGED <<due, polled, pubIntra, subIntra, track>>
      BY <2>7 DEF TakeIntra, FromWire, endVars
    <3>2. /\ inbox[s] \in Seq(Message \union {NoMessage})
          /\ wire[s] \in Seq(Message \union {NoMessage})
          /\ due[s] \in Message \union {NoMessage}
          /\ inbox \in [Subscriptions -> Seq(InProcessMessage)]
          /\ wire \in [Subscriptions -> Seq(Message \union {NoMessage})]
          /\ seen \in [Subscriptions -> [Publishers -> 0..MaxCalls]]
      <4>1. Publishers # {} => inbox[s] \in Seq(Message \union {NoMessage})
        BY <2>1, WayIsTyped
      <4> QED BY <2>1, <4>1 DEF TypeOK, QueueTypeOK, CallsTypeOK, InProcessMessage, EndsTypeOK
    <3> DEFINE p == due[s][1]
               n == due[s][2]
    <3>3. p \in Publishers /\ n \in 1..MaxCalls /\ due[s] = <<p, n>>
      BY <3>1, <3>2, MessageParts
    <3>4. s \in Present /\ due'[s] = due[s] /\ Reaching(s)
      BY <2>1, <2>2, <3>1
    <3>5. seen[s][p] <= seen'[s][p] /\ seen[s][p] \in Nat /\ seen'[s][p] \in Nat
      BY <2>1, <2>7, <3>2, <3>3, SeenGrows, BoundAssumption
    <3> HIDE DEF p, n
    <3>6. CASE seen[s][p] >= n
      <4>1. seen'[s][p] >= n
        BY <3>3, <3>5, <3>6, BoundAssumption
      <4> QED BY <3>4, <4>1 DEF Reaching, p, n
    <3>7. ASSUME NEW i \in DOMAIN inbox[s],
                 inbox[s][i] = due[s], track[s] = "B", s \notin polled
          PROVE  Reaching(s)'
      <4>1. CASE inbox'[s] = inbox[s]
        BY <3>1, <3>7, <4>1 DEF Reaching
      <4>2. CASE inbox'[s] # inbox[s]
        <5>1. /\ r = s /\ inbox[s] # <<>> /\ inbox'[s] = Tail(inbox[s])
              /\ Callback(s, Head(inbox[s]))
          BY <2>1, <2>7, <3>2, <3>7, <4>2 DEF TakeIntra, FromWire
        <5>2. CASE Head(inbox[s]) = due[s]
          <6>1. seen'[s][p] = n
            BY <2>1, <3>2, <3>3, <5>1, <5>2 DEF Callback, p, n
          <6>2. seen'[s][p] >= n
            BY <3>3, <6>1, BoundAssumption
          <6> QED BY <3>4, <6>2 DEF Reaching, p, n
        <5>3. ASSUME NEW j \in DOMAIN Tail(inbox[s]), Tail(inbox[s])[j] = inbox[s][i]
              PROVE  Reaching(s)'
          BY <3>1, <3>7, <5>1, <5>3 DEF Reaching
        <5> QED BY <3>2, <3>7, <5>1, <5>2, <5>3, InTail
      <4> QED BY <4>1, <4>2
    <3>8. ASSUME NEW i \in DOMAIN wire[s], wire[s][i] = due[s], ~Copy(s, due[s])
          PROVE  Reaching(s)'
      <4>1. Copy(s, due[s])' <=> Copy(s, due[s])
        BY <3>1 DEF Copy
      <4>2. CASE wire'[s] = wire[s]
        BY <3>1, <3>8, <4>1, <4>2 DEF Reaching
      <4>3. CASE wire'[s] # wire[s]
        <5>1. r = s /\ wire[s] # <<>> /\ wire'[s] = Tail(wire[s]) /\ FromWire(s)
          BY <2>1, <2>7, <3>2, <4>3 DEF TakeIntra, FromWire
        <5>2. CASE Head(wire[s]) = due[s]
          <6>1. Callback(s, due[s])
            BY <3>1, <3>8, <5>1, <5>2 DEF FromWire
          <6>2. seen'[s][p] = n
            BY <2>1, <3>2, <3>3, <6>1 DEF Callback, p, n
          <6>3. seen'[s][p] >= n
            BY <3>3, <6>2, BoundAssumption
          <6> QED BY <3>4, <6>3 DEF Reaching, p, n
        <5>3. ASSUME NEW j \in DOMAIN Tail(wire[s]), Tail(wire[s])[j] = wire[s][i]
              PROVE  Reaching(s)'
          BY <3>1, <3>8, <4>1, <5>1, <5>3 DEF Reaching
        <5> QED BY <3>2, <3>8, <5>1, <5>2, <5>3, InTail
      <4> QED BY <4>2, <4>3
    <3> QED BY <3>4, <3>6, <3>7, <3>8 DEF Reaching, p, n
  <2>8. ASSUME NEW p \in Publishers, PublishConst(p) \/ PublishUnique(p) PROVE Reaching(s)'
    <3>1. PICK n \in 1..MaxCalls :
            /\ SendTyped(p, n) \/ SendBytes(p, n) \/ Unserializable
            /\ UNCHANGED <<endVars, seen, got>>
      BY <2>8, PublishEffect
    <3>2. CASE SendTyped(p, n) \/ (SendBytes(p, n) /\ p \notin pubIntra)
      <4>1. s \in Present
        BY <3>1 DEF Present, endVars
      <4> QED BY <3>1, <3>2, <4>1, SentReaches
    <3>3. CASE Unserializable \/ (SendBytes(p, n) /\ p \in pubIntra)
      <4>1. UNCHANGED <<endVars, msgVars, seen>>
        BY <3>1, <3>3 DEF Unserializable, SendBytes
      <4> QED BY <2>3, <4>1 DEF endVars, msgVars
    <3> QED BY <3>1, <3>2, <3>3
  <2>9. ASSUME NEW p \in Publishers, Count(p) PROVE Reaching(s)'
    BY <2>3, <2>9 DEF Count, endVars, msgVars
  <2>10. CASE UNCHANGED vars
    BY <2>3, <2>10 DEF vars, endVars, msgVars
  <2> QED BY <2>4, <2>5, <2>6, <2>7, <2>8, <2>9, <2>10, BothFromWire DEF Next
<1> QED BY <1>1, <1>2, TypeCorrect, OrderHolds, PTL DEF Spec

-------------------------------------------------------------------------------
\* A callback is a delivery of the promise of the flat channel.
LEMMA CallbackDelivers ==
  ASSUME TypeOK, OrderInv, NEW s \in Subscriptions, NEW p \in Publishers,
         NEW n \in 1..MaxCalls, Way(s, p) # <<>>, Head(Way(s, p)) = <<p, n>>,
         Callback(s, <<p, n>>), UNCHANGED calls
  PROVE  LW!Next
<1>1. /\ Way(s, p) \in Seq(Message \union {NoMessage})
      /\ seen[s][p] \in Nat /\ Committed(p) \in Nat
      /\ Ascends(Way(s, p), p, seen[s][p], Committed(p))
  BY WayIsTyped DEF OrderInv
<1>2. seen[s][p] < n /\ n <= Committed(p)
  BY <1>1, AscendsOnTake
<1>3. calls[p] \in Nat /\ Committed(p) <= calls[p]
  BY BoundAssumption DEF Committed, TypeOK, CallsTypeOK
<1>4. n \in (seen[s][p] + 1)..calls[p]
  BY <1>1, <1>2, <1>3, BoundAssumption
<1>5. LW!Deliver(s, p)
  BY <1>4, MessageIs DEF Callback, LW!Deliver
<1> QED BY <1>5 DEF LW!Next

\* The proto channel keeps the promise of the flat one, whichever way each message
\* takes: in order, at most once, none that was not sent.
THEOREM ProtoRefinement == Spec => ImplementsLatestWins
<1>1. Init => LW!Init
  BY DEF Init, LW!Init
<1>2. TypeOK /\ OrderInv /\ [Next]_vars => [LW!Next]_(LW!vars)
  <2> SUFFICES ASSUME TypeOK, OrderInv, [Next]_vars PROVE [LW!Next]_(LW!vars)
    OBVIOUS
  <2> USE DEF endVars, msgVars
  <2>1. ASSUME UNCHANGED <<calls, seen, got>> PROVE [LW!Next]_(LW!vars)
    BY <2>1 DEF LW!vars
  <2>2. ASSUME NEW s \in Subscriptions, NEW setting \in Settings, NEW default \in BOOLEAN,
               Create(s, setting, default)
        PROVE  [LW!Next]_(LW!vars)
    BY <2>1, <2>2 DEF Create
  <2>3. ASSUME NEW s \in Subscriptions, Drop(s) \/ Foreign(s) PROVE [LW!Next]_(LW!vars)
    BY <2>1, <2>3 DEF Drop, Foreign
  <2>4. ASSUME NEW s \in Subscriptions, TakeIntra(s) PROVE [LW!Next]_(LW!vars)
    <3>1. CASE track[s] # "B"
      BY <2>1, <2>4, <3>1 DEF TakeIntra
    <3>2. CASE track[s] = "B"
      <4>1. /\ inbox[s] # <<>> /\ Callback(s, Head(inbox[s])) /\ UNCHANGED calls
            /\ inbox[s] \in Seq(InProcessMessage)
        BY <2>4, <3>2 DEF TakeIntra, TypeOK, QueueTypeOK, InProcessMessage
      <4>2. PICK p \in pubIntra, n \in 1..MaxCalls : Head(inbox[s]) = <<p, n>>
        BY <4>1 DEF InProcessMessage
      <4>3. p \in Publishers /\ Way(s, p) = inbox[s]
        BY <4>1, <4>2 DEF Way, TypeOK, QueueTypeOK, EndsTypeOK
      <4> QED BY <4>1, <4>2, <4>3, CallbackDelivers
    <3> QED BY <3>1, <3>2
  <2>5. ASSUME NEW s \in Subscriptions, FromWire(s) PROVE [LW!Next]_(LW!vars)
    <3>1. CASE Head(wire[s]) = NoMessage \/ Copy(s, Head(wire[s]))
      BY <2>1, <2>5, <3>1 DEF FromWire
    <3>2. CASE ~(Head(wire[s]) = NoMessage \/ Copy(s, Head(wire[s])))
      <4>1. /\ wire[s] # <<>> /\ Callback(s, Head(wire[s])) /\ UNCHANGED calls
            /\ wire[s] \in Seq(Message \union {NoMessage})
        BY <2>5, <3>2 DEF FromWire, TypeOK, QueueTypeOK
      <4>2. PICK p \in Publishers, n \in 1..MaxCalls : Head(wire[s]) = <<p, n>>
        BY <3>2, <4>1 DEF Message
      <4>3. Way(s, p) = wire[s]
        BY <3>2, <4>2 DEF Way, Copy
      <4> QED BY <4>1, <4>2, <4>3, CallbackDelivers
    <3> QED BY <3>1, <3>2
  <2>6. ASSUME NEW p \in Publishers, PublishConst(p) \/ Count(p)
        PROVE  [LW!Next]_(LW!vars)
    <3>1. LW!Publish(p)
      BY <2>6 DEF PublishConst, Count, LW!Publish
    <3> QED BY <3>1 DEF LW!Next
  <2>7. ASSUME NEW p \in Publishers, PublishUnique(p) PROVE [LW!Next]_(LW!vars)
    BY <2>1, <2>7 DEF PublishUnique
  <2>8. CASE UNCHANGED vars
    BY <2>1, <2>8 DEF vars
  <2> QED BY <2>2, <2>3, <2>4, <2>5, <2>6, <2>7, <2>8, BothFromWire DEF Next
<1> QED BY <1>1, <1>2, TypeCorrect, OrderHolds, PTL DEF Spec, ImplementsLatestWins, LW!Spec

Promises == INSTANCE LatestWinsProofs

\* The promise whose consequences LatestWinsProofs draws is the one implemented here.
LEMMA SamePromise == LW!Spec => Promises!Spec
BY DEF LW!Spec, LW!Init, LW!Next, LW!Publish, LW!Deliver,
   LW!vars, Promises!Spec, Promises!Init, Promises!Next, Promises!Publish,
   Promises!Deliver, Promises!vars

\* A message that reaches a subscription by two ways is handed over once.
THEOREM RoutesDeliverOnce == Spec => []Promises!AtMostOnce /\ Promises!NeverBack
BY ProtoRefinement, SamePromise, Promises!AtMostOnceHolds, Promises!NeverBackHolds, PTL
   DEF ImplementsLatestWins

===============================================================================
