------------------------- MODULE BytesBenchmarkProofs -------------------------
(* Theorems about BytesBenchmark, for all profiles, buffers and bounds. *)
EXTENDS BytesBenchmark, TLAPS

\* What \div and % say of each other.
LEMMA Division ==
  ASSUME NEW a \in Nat, NEW b \in Nat \ {0}
  PROVE  a \div b \in Nat /\ a % b \in 0..b - 1 /\ a = b * (a \div b) + (a % b)
OBVIOUS

\* Quotient and remainder are unique.
LEMMA UniqueDivision ==
  ASSUME NEW b \in Nat \ {0}, NEW q \in Nat, NEW r \in 0..b - 1
  PROVE  (b * q + r) \div b = q /\ (b * q + r) % b = r
<1>1. ASSUME NEW m \in Nat, NEW n \in Nat, m < n PROVE b * m + b <= b * n
  <2> DEFINE k == n - m - 1
  <2>1. k \in Nat /\ n = m + 1 + k
    BY <1>1
  <2> HIDE DEF k
  <2>2. b * n = b * m + b + b * k /\ b * k \in Nat /\ b * m \in Nat
    BY <2>1
  <2> QED BY <2>2
<1> DEFINE a == b * q + r
           p == a \div b
           s == a % b
<1>0. a \in Nat /\ a = b * q + r
  OBVIOUS
<1>2. p \in Nat /\ s \in 0..b - 1 /\ b * q + r = b * p + s
  <2> HIDE DEF a
  <2>1. a \div b \in Nat /\ a % b \in 0..b - 1 /\ a = b * (a \div b) + (a % b)
    BY <1>0, Division
  <2> QED BY <1>0, <2>1
<1> HIDE DEF a, p, s
<1>3. b * p \in Nat /\ b * q \in Nat
  BY <1>2
<1>4. ~(p < q) /\ ~(q < p)
  BY <1>1, <1>2, <1>3
<1>5. p = q
  BY <1>2, <1>4
<1>6. s = r
  BY <1>2, <1>3, <1>5
<1> QED BY <1>5, <1>6 DEF a, p, s

\* A chunk is never empty.
LEMMA ChunkSizeIsTyped ==
  ASSUME NEW size \in Nat, NEW count \in Nat \ {0}
  PROVE  ChunkSize(size, count) \in Nat \ {0}
<1>1. size \div count \in Nat
  BY Division
<1> QED BY <1>1 DEF ChunkSize

\* Two places hold the same byte of the pattern if they are a multiple of 256 apart,
\* and only then: 31 is odd.
LEMMA PatternRepeats ==
  ASSUME NEW i \in Nat, NEW d \in Nat
  PROVE  Pattern(i) = Pattern(i + d) <=> d % 256 = 0
BY DEF Pattern

\* What the listener's spot check comes to: the last byte is where the talker's filler
\* put it only if the chunks before the last are a multiple of 256 bytes together.
LEMMA SpotCheck ==
  ASSUME NEW f, f.chunkSize \in Nat \ {0}, f.chunkCount \in Nat \ {0}, f.hashes = f.chunkCount
  PROVE  Verify(f) <=> (f.chunkSize * (f.chunkCount - 1)) % 256 = 0
<1> DEFINE size == f.chunkSize
           count == f.chunkCount
           before == size * (count - 1)
           end == Size(f) - 1
<1>0. size \in Nat \ {0} /\ count \in Nat \ {0} /\ count - 1 \in Nat /\ size - 1 \in 0..size - 1
  OBVIOUS
<1>1. Size(f) = size * count /\ Size(f) = count * size + 0
  BY <1>0 DEF Size
<1>2. before \in Nat /\ end = before + (size - 1) /\ end = size * (count - 1) + (size - 1)
  BY <1>0, <1>1
<1>3. Size(f) \div count = size
  <2>1. 0 \in 0..count - 1 /\ size \in Nat /\ count \in Nat \ {0}
    BY <1>0
  <2> QED BY <1>1, <2>1, UniqueDivision
<1>4. end % size = size - 1
  <2>1. (size * (count - 1) + (size - 1)) % size = size - 1
    <3> HIDE DEF size, count
    <3> QED BY <1>0, UniqueDivision
  <2> QED BY <1>2, <2>1
<1>5. \A i \in 0..count - 1 : Byte(f, i * size) = 7
  <2> SUFFICES ASSUME NEW i \in 0..count - 1 PROVE Byte(f, i * size) = 7
    OBVIOUS
  <2>1. i \in Nat /\ 0 \in 0..size - 1 /\ i * size = size * i + 0
    BY <1>0
  <2>2. (i * size) % size = 0
    BY <1>0, <2>1, UniqueDivision
  <2> QED BY <2>2 DEF Byte, Pattern
<1>6. Byte(f, 0) = 7
  <2>1. 0 * size = 0 /\ 0 \in 0..count - 1
    BY <1>0
  <2> HIDE DEF size, count
  <2> QED BY <1>5, <2>1
<1>7. Byte(f, end) = Pattern(size - 1)
  BY <1>4 DEF Byte
<1>8. Pattern(size - 1) = Pattern(end) <=> before % 256 = 0
  <2>1. size - 1 \in Nat /\ end = (size - 1) + before
    BY <1>0, <1>2
  <2> HIDE DEF size, before, end
  <2>2. Pattern(size - 1) = Pattern((size - 1) + before) <=> before % 256 = 0
    BY <1>2, <2>1, PatternRepeats
  <2> QED BY <2>1, <2>2
<1>9. Verify(f) <=> Byte(f, end) = Pattern(end)
  BY <1>3, <1>5, <1>6 DEF Verify
<1> QED BY <1>7, <1>8, <1>9

\* What remains of a function when one argument is dropped.
LEMMA RestrictIsTyped ==
  ASSUME NEW f, DOMAIN f \subseteq Counters, f \in [DOMAIN f -> Nat], NEW c \in DOMAIN f
  PROVE  LET g == Restrict(f, DOMAIN f \ {c})
         IN /\ DOMAIN g = DOMAIN f \ {c} /\ DOMAIN g \subseteq Counters
            /\ g \in [DOMAIN g -> Nat] /\ \A d \in DOMAIN g : g[d] = f[d]
BY DEF Restrict

\* What an append to a buffer leaves of it.
LEMMA PushedFrames ==
  ASSUME NEW q \in Seq(Frame), Len(q) <= BufferSize, NEW f \in Frame
  PROVE  LET r == Append(IF Len(q) = BufferSize THEN Tail(q) ELSE q, f)
         IN /\ r \in Seq(Frame) /\ Len(r) <= BufferSize /\ Len(r) \in Nat \ {0}
            /\ r[Len(r)] = f
            /\ \E k \in {0, 1} :
                 /\ Len(r) = Len(q) + 1 - k
                 /\ \A i \in 1..Len(r) - 1 : i + k \in 1..Len(q) /\ r[i] = q[i + k]
<1> DEFINE r == Append(IF Len(q) = BufferSize THEN Tail(q) ELSE q, f)
<1>1. BufferSize \in Nat \ {0} /\ Len(q) \in Nat
  BY BoundAssumption
<1>2. CASE Len(q) = BufferSize
  <2>1. /\ q # <<>> /\ Tail(q) \in Seq(Frame) /\ Len(Tail(q)) = Len(q) - 1
        /\ \A i \in 1..Len(q) - 1 : Tail(q)[i] = q[i + 1]
    BY <1>1, <1>2
  <2>2. /\ r \in Seq(Frame) /\ Len(r) = Len(q) /\ r[Len(r)] = f
        /\ \A i \in 1..Len(q) - 1 : r[i] = Tail(q)[i]
    BY <1>1, <1>2, <2>1
  <2>3. \A i \in 1..Len(r) - 1 : i + 1 \in 1..Len(q) /\ r[i] = q[i + 1]
    <3> HIDE DEF r
    <3> QED BY <1>1, <2>1, <2>2
  <2> QED BY <1>1, <1>2, <2>2, <2>3
<1>3. CASE Len(q) # BufferSize
  <2>1. /\ r \in Seq(Frame) /\ Len(r) = Len(q) + 1 /\ r[Len(r)] = f
        /\ \A i \in 1..Len(q) : r[i] = q[i]
    BY <1>1, <1>3
  <2>2. \A i \in 1..Len(r) - 1 : i + 0 \in 1..Len(q) /\ r[i] = q[i + 0]
    BY <1>1, <2>1
  <2> QED BY <1>1, <1>3, <2>1, <2>2
<1> QED BY <1>2, <1>3

\* The head of a buffer and what is behind it.
LEMMA PoppedFrames ==
  ASSUME NEW q \in Seq(Frame), q # <<>>
  PROVE  /\ Head(q) \in Frame /\ Head(q) = q[1] /\ 1 \in 1..Len(q)
         /\ Tail(q) \in Seq(Frame) /\ Len(Tail(q)) = Len(q) - 1 /\ Len(q) \in Nat
         /\ \A i \in 1..Len(Tail(q)) : i + 1 \in 1..Len(q) /\ Tail(q)[i] = q[i + 1]
<1>1. Len(q) \in Nat \ {0}
  OBVIOUS
<1>2. /\ Head(q) \in Frame /\ Head(q) = q[1] /\ Tail(q) \in Seq(Frame)
      /\ Len(Tail(q)) = Len(q) - 1
      /\ \A i \in 1..Len(q) - 1 : Tail(q)[i] = q[i + 1]
  OBVIOUS
<1> QED BY <1>1, <1>2

\* The numbers skipped are a natural number.
LEMMA MissedIsTyped ==
  ASSUME CallbackTypeOK, NEW n \in Nat
  PROVE  Missed(n) \in Nat
BY DEF Missed, CallbackTypeOK

\* The profile of a talker and the numbers of a frame are natural numbers.
LEMMA TypedData ==
  ASSUME TypeOK
  PROVE  /\ published \in Nat /\ seq \in Nat /\ published <= MaxFrames
         /\ seq <= published
         /\ profile[1] \in Nat \ {0} /\ profile[2] \in Nat \ {0}
         /\ \A i \in 1..Len(wire) :
              /\ wire[i] \in Frame /\ wire[i].seq \in Nat /\ wire[i].nth \in Nat
              /\ wire[i].seq < published /\ wire[i].nth < published
<1>1. profile \in (Nat \ {0}) \X (Nat \ {0})
  BY ProfileAssumption DEF TypeOK, TalkerTypeOK
<1>2. wire \in Seq(Frame) /\ \A i \in 1..Len(wire) : wire[i].seq < published /\ wire[i].nth < published
  BY DEF TypeOK, WireTypeOK
<1>3. \A i \in 1..Len(wire) : wire[i] \in Frame
  BY <1>2
<1>4. \A f \in Frame : f.seq \in Nat /\ f.nth \in Nat
  BY DEF Frame
<1>5. published \in Nat /\ seq \in Nat /\ published <= MaxFrames /\ seq <= published
  BY BoundAssumption DEF TypeOK, TalkerTypeOK
<1> QED BY <1>1, <1>2, <1>3, <1>4, <1>5

-------------------------------------------------------------------------------
\* Numbers, counters and the buffer keep their ranges.
THEOREM TypeCorrect == Spec => []TypeOK
<1> USE DEF callbackVars, talkerVars, listenerVars, Counters
<1>1. Init => TypeOK
  <2> SUFFICES ASSUME Init PROVE TypeOK
    OBVIOUS
  <2>1. TalkerTypeOK
    BY BoundAssumption DEF Init, TalkerTypeOK
  <2>2. WireTypeOK
    BY BoundAssumption DEF Init, WireTypeOK
  <2>3. CallbackTypeOK /\ ReportTypeOK
    BY DEF Init, CallbackTypeOK, ReportTypeOK, Nothing
  <2>4. WindowTypeOK
    BY DEF Init, WindowTypeOK, NewWindow
  <2> QED BY <2>1, <2>2, <2>3, <2>4 DEF TypeOK
<1>2. TypeOK /\ [Next]_vars => TypeOK'
  <2> SUFFICES ASSUME TypeOK, [Next]_vars PROVE TypeOK'
    OBVIOUS
  <2>0. TalkerTypeOK /\ WireTypeOK /\ CallbackTypeOK /\ ReportTypeOK /\ WindowTypeOK
    BY DEF TypeOK
  <2>1. CASE Publish
    <3>1. NewFrame \in Frame /\ NewFrame.seq = seq /\ NewFrame.nth = published
      BY <2>1, TypedData, ChunkSizeIsTyped DEF Publish, Fill, NewFrame, Frame
    <3>2. TalkerTypeOK'
      BY <2>0, <2>1, TypedData, BoundAssumption DEF Publish, Number, Fill, TalkerTypeOK
    <3>3. PICK k \in {0, 1} :
            /\ wire' \in Seq(Frame) /\ Len(wire') <= BufferSize
            /\ Len(wire') \in Nat \ {0} /\ wire'[Len(wire')] = NewFrame
            /\ \A i \in 1..Len(wire') - 1 : i + k \in 1..Len(wire) /\ wire'[i] = wire[i + k]
      BY <2>0, <2>1, <3>1, PushedFrames DEF Publish, WireTypeOK
    <3>4. WireTypeOK'
      <4>1. published' = published + 1 /\ published \in Nat /\ seq \in Nat
        BY <2>1, TypedData DEF Publish, Number
      <4>2. ASSUME NEW i \in 1..Len(wire')
            PROVE  wire'[i].seq <= published /\ wire'[i].nth <= published
        <5>1. CASE i = Len(wire')
          BY <2>0, <3>1, <3>3, <4>1, <5>1 DEF TalkerTypeOK
        <5>2. CASE i # Len(wire')
          <6>1. i \in 1..Len(wire') - 1
            BY <3>3, <5>2
          <6>2. i + k \in 1..Len(wire) /\ wire'[i] = wire[i + k]
            BY <3>3, <6>1
          <6> QED BY <4>1, <6>2, TypedData
        <5> QED BY <5>1, <5>2
      <4>3. \A i \in 1..Len(wire') : wire'[i].seq \in Nat /\ wire'[i].nth \in Nat
        <5>1. \A i \in 1..Len(wire') : wire'[i] \in Frame
          BY <3>3
        <5>2. \A f \in Frame : f.seq \in Nat /\ f.nth \in Nat
          BY DEF Frame
        <5> QED BY <5>1, <5>2
      <4> QED BY <3>3, <4>1, <4>2, <4>3 DEF WireTypeOK
    <3> QED
      BY <2>0, <2>1, <3>2, <3>4
      DEF Publish, CallbackTypeOK, ReportTypeOK, WindowTypeOK, TypeOK
  <2>2. CASE PublishFails
    <3>1. TalkerTypeOK'
      BY <2>0, <2>2, TypedData, BoundAssumption DEF PublishFails, Number, Fill, TalkerTypeOK
    <3>2. WireTypeOK'
      BY <2>0, <2>2, TypedData DEF PublishFails, Number, WireTypeOK
    <3> QED
      BY <2>0, <2>2, <3>1, <3>2
      DEF PublishFails, CallbackTypeOK, ReportTypeOK, WindowTypeOK, TypeOK
  <2>3. CASE Receive
    <3>1. /\ Head(wire) = wire[1] /\ 1 \in 1..Len(wire)
          /\ wire' \in Seq(Frame) /\ Len(wire') = Len(wire) - 1 /\ Len(wire) \in Nat
          /\ \A i \in 1..Len(wire') : i + 1 \in 1..Len(wire) /\ wire'[i] = wire[i + 1]
      BY <2>0, <2>3, PoppedFrames DEF Receive, WireTypeOK
    <3>2. WireTypeOK'
      BY <2>0, <2>3, <3>1, BoundAssumption DEF Receive, WireTypeOK
    <3>3. Head(wire).seq \in Nat /\ Head(wire).nth \in Nat
      BY <3>1, TypedData
    <3>4. Missed(Head(wire).seq) \in Nat
      BY <2>0, <3>3, MissedIsTyped
    <3>5. DOMAIN pending' = Counters /\ pending' \in [Counters -> Nat]
      BY <2>0, <2>3, <3>4 DEF Receive, CallbackTypeOK
    <3>6. CallbackTypeOK'
      BY <2>0, <2>3, <3>3, <3>5 DEF Receive, CallbackTypeOK
    <3>7. WindowTypeOK'
      BY <2>0, <2>3 DEF Receive, WindowTypeOK
    <3> QED
      BY <2>0, <2>3, <3>2, <3>6, <3>7 DEF Receive, TalkerTypeOK, ReportTypeOK, TypeOK
  <2>4. CASE Store
    <3>1. PICK c \in DOMAIN pending : /\ counters' = [counters EXCEPT ![c] = pending[c]]
                                      /\ pending' = Restrict(pending, DOMAIN pending \ {c})
      BY <2>4 DEF Store
    <3>2. DOMAIN pending' \subseteq Counters /\ pending' \in [DOMAIN pending' -> Nat]
      BY <2>0, <3>1, RestrictIsTyped DEF CallbackTypeOK
    <3>3. counters' \in [Counters -> Nat]
      BY <2>0, <3>1 DEF CallbackTypeOK
    <3> QED
      BY <2>0, <2>4, <3>2, <3>3
      DEF Store, TalkerTypeOK, WireTypeOK, CallbackTypeOK, ReportTypeOK, WindowTypeOK, TypeOK
  <2>5. CASE Log
    <3>1. PICK over \in BOOLEAN : window' = Throughput(over)
      BY <2>5 DEF Log
    <3>2. WindowTypeOK'
      BY <2>0, <3>1 DEF Throughput, WindowTypeOK
    <3> QED
      BY <2>0, <2>5, <3>2 DEF Log, TalkerTypeOK, WireTypeOK, CallbackTypeOK, ReportTypeOK, TypeOK
  <2>6. CASE Stop
    <3>1. ReportTypeOK'
      BY <2>0, <2>6 DEF Stop, ReportTypeOK
    <3> QED
      BY <2>0, <2>6, <3>1 DEF Stop, TalkerTypeOK, WireTypeOK, CallbackTypeOK, WindowTypeOK, TypeOK
  <2>7. CASE Summarize
    <3>1. PICK c \in Counters \ DOMAIN report :
            report' = [d \in DOMAIN report \union {c} |-> IF d = c THEN counters[c] ELSE report[d]]
      BY <2>7 DEF Summarize
    <3>2. DOMAIN report' \subseteq Counters /\ report' \in [DOMAIN report' -> Nat]
      BY <2>0, <3>1 DEF ReportTypeOK, CallbackTypeOK
    <3>3. phase' \in {"reporting", "down"} /\ channel' \in {"flat", "proto"}
      BY <2>0, <2>7 DEF Summarize, ReportTypeOK
    <3>4. ReportTypeOK'
      BY <3>2, <3>3 DEF ReportTypeOK
    <3> QED
      BY <2>0, <2>7, <3>4
      DEF Summarize, TalkerTypeOK, WireTypeOK, CallbackTypeOK, WindowTypeOK, TypeOK
  <2>8. CASE TalkerRestarts
    <3>1. TalkerTypeOK'
      BY <2>0, <2>8, BoundAssumption DEF TalkerRestarts, Restart, TalkerTypeOK
    <3> QED
      BY <2>0, <2>8, <3>1
      DEF TalkerRestarts, WireTypeOK, CallbackTypeOK, ReportTypeOK, WindowTypeOK, TypeOK
  <2>9. CASE ListenerRestarts
    <3>1. TalkerTypeOK'
      BY <2>0, <2>9, BoundAssumption DEF ListenerRestarts, Restart, TalkerTypeOK
    <3>2. WireTypeOK'
      BY <2>9, BoundAssumption DEF ListenerRestarts, WireTypeOK
    <3>3. CallbackTypeOK' /\ ReportTypeOK'
      BY <2>0, <2>9 DEF ListenerRestarts, CallbackTypeOK, ReportTypeOK, Nothing
    <3>4. WindowTypeOK'
      BY <2>9 DEF ListenerRestarts, WindowTypeOK, NewWindow
    <3> QED BY <3>1, <3>2, <3>3, <3>4 DEF TypeOK
  <2>10. CASE UNCHANGED vars
    BY <2>0, <2>10
    DEF vars, TalkerTypeOK, WireTypeOK, CallbackTypeOK, ReportTypeOK, WindowTypeOK, TypeOK
  <2> QED
    BY <2>1, <2>2, <2>3, <2>4, <2>5, <2>6, <2>7, <2>8, <2>9, <2>10 DEF Next
<1> QED BY <1>1, <1>2, PTL DEF Spec

-------------------------------------------------------------------------------
(* The inductive invariant.                                                 *)

\* What a counter is once the running callback has stored it.
Settled(c) == IF c \in DOMAIN pending THEN pending[c] ELSE counters[c]

\* A counter only grows, the callback counts one frame, and what was reported was
\* stored; on the proto channel nothing is counted from the moment spin() returned.
Counting ==
  /\ \A c \in DOMAIN pending : counters[c] <= pending[c]
  /\ "received" \in DOMAIN pending => pending["received"] = counters["received"] + 1
  /\ Settled("verifyFailures") <= Settled("received")
  /\ \A c \in DOMAIN report : report[c] <= counters[c]
  /\ channel = "proto" /\ phase # "spinning" =>
       DOMAIN pending = {} /\ \A c \in DOMAIN report : report[c] = counters[c]

\* Frame n of all, with number s, comes before frame m of all, with number t, and
\* the numbers advance at most as fast as the frames.
Before(s, n, t, m) == n < m /\ t + n <= s + m

\* The last frame, the frames on the wire and the next frame of the talker.
Order ==
  /\ \A i, j \in 1..Len(wire) :
       i < j => Before(wire[i].seq, wire[i].nth, wire[j].seq, wire[j].nth)
  /\ \A i \in 1..Len(wire) : Before(wire[i].seq, wire[i].nth, seq, published)
  /\ valid => Before(last, lastNth, seq, published)
  /\ valid => \A i \in 1..Len(wire) : Before(last, lastNth, wire[i].seq, wire[i].nth)

\* While nothing was restarted the number of a frame is its place among all.
Numbers ==
  restarts = 0 =>
    /\ seq = published /\ \A i \in 1..Len(wire) : wire[i].seq = wire[i].nth
    /\ valid => last = lastNth

Totals ==
  /\ ~valid => \A c \in Counters : Settled(c) = 0
  /\ valid => Settled("received") + Settled("dropped") <= lastNth + 1
  /\ restarts = 0 /\ valid =>
       first <= last /\ Settled("received") + Settled("dropped") + first = last + 1

\* The chunks before the last one of a profile are a multiple of the pattern.
Even(q) == (ChunkSize(q[1], q[2]) * (q[2] - 1)) % 256 = 0

Repeats == Even(profile)

\* A frame of a profile has a hash for every chunk.
FilledBy(f, q) ==
  f.chunkSize = ChunkSize(q[1], q[2]) /\ f.chunkCount = q[2] /\ f.hashes = q[2]

Profiled(f) == FilledBy(f, profile)

\* Whoever was restarted, every frame on the wire was filled by some talker.
Filled == \A i \in 1..Len(wire) : \E q \in Profiles : FilledBy(wire[i], q)

\* While nothing was restarted every frame is of the talker's profile, and the check
\* fails with each of them or with none.
Checks ==
  restarts = 0 =>
    /\ \A i \in 1..Len(wire) : Profiled(wire[i])
    /\ Settled("verifyFailures") = IF Repeats THEN 0 ELSE Settled("received")

\* A window holds nothing before it is open.
Windows == FramesInOneWindow /\ (~window.started => window.open = 0)

Inv == TypeOK /\ Counting /\ Order /\ Numbers /\ Totals /\ Filled /\ Checks /\ Windows

-------------------------------------------------------------------------------
\* The settled counters are natural numbers.
LEMMA SettledIsTyped ==
  ASSUME CallbackTypeOK
  PROVE  \A c \in Counters : Settled(c) \in Nat
BY DEF CallbackTypeOK, Settled

\* Storing a counter settles nothing anew.
LEMMA StoreSettles ==
  ASSUME CallbackTypeOK, Store
  PROVE  \A c \in Counters : Settled(c)' = Settled(c)
<1>1. PICK c \in DOMAIN pending : /\ counters' = [counters EXCEPT ![c] = pending[c]]
                                  /\ pending' = Restrict(pending, DOMAIN pending \ {c})
  BY DEF Store
<1>2. /\ DOMAIN pending' = DOMAIN pending \ {c} /\ \A d \in DOMAIN pending' : pending'[d] = pending[d]
      /\ c \in Counters
  BY <1>1, RestrictIsTyped DEF CallbackTypeOK
<1>3. \A d \in Counters : counters'[d] = IF d = c THEN pending[c] ELSE counters[d]
  BY <1>1 DEF CallbackTypeOK
<1> QED BY <1>2, <1>3 DEF Settled

\* What a new frame makes of the counters.
LEMMA ReceiveSettles ==
  ASSUME TypeOK, Receive
  PROVE  /\ 1 \in 1..Len(wire) /\ last' = wire[1].seq /\ lastNth' = wire[1].nth
         /\ Missed(wire[1].seq) \in Nat
         /\ \A c \in Counters : Settled(c) = counters[c]
         /\ Settled("received")' = counters["received"] + 1
         /\ Settled("dropped")' = counters["dropped"] + Missed(wire[1].seq)
         /\ Settled("verifyFailures")'
              = counters["verifyFailures"] + IF Verify(wire[1]) THEN 0 ELSE 1
         /\ DOMAIN pending = {} /\ DOMAIN pending' = Counters
<1>1. wire \in Seq(Frame) /\ wire # <<>> /\ CallbackTypeOK
  BY DEF Receive, TypeOK, WireTypeOK
<1>2. Head(wire) = wire[1] /\ 1 \in 1..Len(wire)
  BY <1>1, PoppedFrames
<1>3. last' = wire[1].seq /\ lastNth' = wire[1].nth
  BY <1>2 DEF Receive
<1>4. Missed(wire[1].seq) \in Nat
  BY <1>1, <1>2, TypedData, MissedIsTyped
<1>5. DOMAIN pending = {} /\ counters \in [Counters -> Nat]
  BY DEF Receive, Nothing, TypeOK, CallbackTypeOK
<1>6. \A c \in Counters : Settled(c) = counters[c]
  BY <1>5 DEF Settled
<1>7. pending' = [received |-> counters["received"] + 1,
                  dropped |-> counters["dropped"] + Missed(wire[1].seq),
                  verifyFailures |->
                    counters["verifyFailures"] + IF Verify(wire[1]) THEN 0 ELSE 1]
  BY <1>2 DEF Receive
<1>8. /\ DOMAIN pending' = Counters
      /\ pending'["received"] = counters["received"] + 1
      /\ pending'["dropped"] = counters["dropped"] + Missed(wire[1].seq)
      /\ pending'["verifyFailures"]
           = counters["verifyFailures"] + IF Verify(wire[1]) THEN 0 ELSE 1
  BY <1>5, <1>7 DEF Counters
<1>9. /\ Settled("received")' = pending'["received"]
      /\ Settled("dropped")' = pending'["dropped"]
      /\ Settled("verifyFailures")' = pending'["verifyFailures"]
  BY <1>8 DEF Settled, Counters
<1> QED BY <1>2, <1>3, <1>4, <1>5, <1>6, <1>8, <1>9

\* No step but those of the callback, and a new listener, changes a settled counter.
LEMMA SettledStays ==
  ASSUME UNCHANGED <<counters, pending>>
  PROVE  \A c : Settled(c)' = Settled(c)
BY DEF Settled

\* The counters grow, are stored before they are reported, and stop on the proto channel.
LEMMA CountingStep ==
  ASSUME TypeOK, Counting, [Next]_vars
  PROVE  Counting'
<1> USE DEF callbackVars, talkerVars, listenerVars
<1>0. CallbackTypeOK /\ ReportTypeOK
  BY DEF TypeOK
<1>1. CASE Receive
  <2>1. /\ \A c \in Counters : Settled(c) = counters[c] /\ counters[c] \in Nat
        /\ DOMAIN pending' = Counters /\ DOMAIN pending = {} /\ Missed(wire[1].seq) \in Nat
    BY <1>0, <1>1, ReceiveSettles DEF CallbackTypeOK
  <2>2. /\ Settled("received")' = counters["received"] + 1
        /\ Settled("dropped")' = counters["dropped"] + Missed(wire[1].seq)
        /\ Settled("verifyFailures")' <= counters["verifyFailures"] + 1
        /\ Settled("verifyFailures")' >= counters["verifyFailures"]
    BY <1>1, <2>1, ReceiveSettles DEF Counters
  <2>3. \A c \in Counters : Settled(c)' = pending'[c]
    BY <2>1 DEF Settled
  <2>9. \A c \in Counters : counters[c] \in Nat
    BY <2>1
  <2>4. counters["verifyFailures"] <= counters["received"]
    BY <2>1 DEF Counting, Counters
  <2>5. UNCHANGED <<counters, report, channel, phase>> /\ (channel = "proto" => phase = "spinning")
    BY <1>1 DEF Receive
  <2>6. \A c \in Counters : counters[c] <= pending'[c]
    BY <2>1, <2>2, <2>3 DEF Counters
  <2>7. pending'["received"] = counters["received"] + 1
    BY <2>2, <2>3 DEF Counters
  <2>10. /\ counters["received"] \in Nat /\ counters["verifyFailures"] \in Nat
         /\ Settled("verifyFailures")' \in Nat
    BY <1>1, <2>1, ReceiveSettles DEF Counters
  <2>8. Settled("verifyFailures")' <= Settled("received")'
    BY <2>2, <2>4, <2>9, <1>0, <2>10 DEF Counters
  <2> QED BY <2>1, <2>5, <2>6, <2>7, <2>8 DEF Counting
<1>2. CASE Store
  <2>1. PICK c \in DOMAIN pending : /\ counters' = [counters EXCEPT ![c] = pending[c]]
                                    /\ pending' = Restrict(pending, DOMAIN pending \ {c})
    BY <1>2 DEF Store
  <2>2. /\ DOMAIN pending' = DOMAIN pending \ {c} /\ \A d \in DOMAIN pending' : pending'[d] = pending[d]
        /\ c \in Counters /\ DOMAIN pending \subseteq Counters
    BY <1>0, <2>1, RestrictIsTyped DEF CallbackTypeOK
  <2>3. \A d \in Counters : counters'[d] = IF d = c THEN pending[c] ELSE counters[d]
    BY <1>0, <2>1 DEF CallbackTypeOK
  <2>4. Settled("verifyFailures")' <= Settled("received")'
    BY <1>0, <1>2, StoreSettles DEF Counting, Counters
  <2>5. \A d \in DOMAIN pending' : counters'[d] <= pending'[d]
    BY <2>2, <2>3 DEF Counting
  <2>6. "received" \in DOMAIN pending' => pending'["received"] = counters'["received"] + 1
    BY <2>2, <2>3 DEF Counting
  <2>7. \A d \in DOMAIN report : report[d] <= counters'[d]
    <3>1. \A d \in Counters : counters[d] \in Nat /\ counters'[d] >= counters[d]
      BY <1>0, <2>1, <2>3 DEF Counting, CallbackTypeOK
    <3>2. \A d \in DOMAIN report : report[d] \in Nat /\ d \in Counters
      BY <1>0 DEF ReportTypeOK
    <3>3. \A d \in Counters : counters'[d] \in Nat
      BY <1>0, <2>1, <2>3 DEF CallbackTypeOK
    <3> QED BY <3>1, <3>2, <3>3 DEF Counting
  <2>8. ~(channel = "proto" /\ phase # "spinning")
    BY <2>1 DEF Counting
  <2> QED
    BY <1>2, <2>4, <2>5, <2>6, <2>7, <2>8 DEF Store, Counting
<1>3. CASE Stop
  <2>1. \A c : Settled(c)' = Settled(c)
    BY <1>3, SettledStays DEF Stop
  <2>2. DOMAIN report = {} /\ (channel = "proto" => DOMAIN pending = {})
    BY <1>0, <1>3 DEF Stop, ReportTypeOK, Nothing
  <2>3. UNCHANGED <<counters, pending, report, channel>>
    BY <1>3 DEF Stop
  <2> QED BY <2>1, <2>2, <2>3 DEF Counting
<1>4. CASE Summarize
  <2>1. PICK c \in Counters \ DOMAIN report :
          report' = [d \in DOMAIN report \union {c} |-> IF d = c THEN counters[c] ELSE report[d]]
    BY <1>4 DEF Summarize
  <2>2. UNCHANGED <<counters, pending, channel>> /\ phase = "reporting"
    BY <1>4 DEF Summarize
  <2>3. \A d : Settled(d)' = Settled(d)
    BY <2>2, SettledStays
  <2>4. counters[c] <= counters[c]
    BY <1>0 DEF CallbackTypeOK
  <2>5. \A d \in DOMAIN report' : report'[d] <= counters[d]
    BY <2>1, <2>4 DEF Counting
  <2>6. channel = "proto" => DOMAIN pending = {} /\ \A d \in DOMAIN report' : report'[d] = counters[d]
    BY <2>1, <2>2 DEF Counting
  <2> QED BY <2>2, <2>3, <2>5, <2>6 DEF Counting
<1>5. CASE ListenerRestarts
  <2>1. /\ DOMAIN pending' = {} /\ DOMAIN report' = {} /\ phase' = "spinning"
        /\ \A c \in Counters : counters'[c] = 0
    BY <1>5 DEF ListenerRestarts, Nothing
  <2>2. \A c \in Counters : Settled(c)' = 0
    BY <2>1 DEF Settled
  <2> QED BY <2>1, <2>2 DEF Counting, Counters
<1>6. CASE Publish \/ PublishFails \/ Log \/ TalkerRestarts \/ UNCHANGED vars
  <2>1. UNCHANGED <<counters, pending, report, channel, phase>>
    BY <1>6 DEF Publish, PublishFails, Log, TalkerRestarts, vars
  <2>2. \A c : Settled(c)' = Settled(c)
    BY <2>1, SettledStays
  <2> QED BY <2>1, <2>2 DEF Counting
<1> QED BY <1>1, <1>2, <1>3, <1>4, <1>5, <1>6 DEF Next

\* The frames on the wire and those behind and before them stay in their order.
LEMMA OrderStep ==
  ASSUME TypeOK, Order, [Next]_vars
  PROVE  Order'
<1> USE DEF callbackVars, talkerVars, listenerVars
<1>0. /\ WireTypeOK /\ CallbackTypeOK /\ published \in Nat /\ seq \in Nat
      /\ last \in Nat /\ lastNth \in Nat
      /\ \A i \in 1..Len(wire) : wire[i].seq \in Nat /\ wire[i].nth \in Nat
  BY TypedData DEF TypeOK, CallbackTypeOK
<1>1. CASE Publish
  <2>1. NewFrame \in Frame /\ NewFrame.seq = seq /\ NewFrame.nth = published
    BY <1>1, TypedData, ChunkSizeIsTyped DEF TypeOK, TalkerTypeOK, Publish, Fill, NewFrame, Frame
  <2>2. PICK k \in {0, 1} :
          /\ Len(wire') \in Nat \ {0} /\ wire'[Len(wire')] = NewFrame
          /\ \A i \in 1..Len(wire') - 1 : i + k \in 1..Len(wire) /\ wire'[i] = wire[i + k]
    BY <1>0, <1>1, <2>1, PushedFrames DEF Publish, WireTypeOK
  <2>3. seq' = seq + 1 /\ published' = published + 1 /\ UNCHANGED <<last, lastNth, valid>>
    BY <1>1 DEF Publish, Number
  <2>4. \A i \in 1..Len(wire') - 1 :
          Before(wire'[i].seq, wire'[i].nth, seq, published)
    BY <2>2 DEF Order
  <2>5. ASSUME NEW i \in 1..Len(wire') PROVE Before(wire'[i].seq, wire'[i].nth, seq', published')
    <3>1. CASE i = Len(wire')
      BY <1>0, <2>1, <2>2, <2>3, <3>1 DEF Before
    <3>2. CASE i \in 1..Len(wire') - 1
      <4>1. wire'[i].seq \in Nat /\ wire'[i].nth \in Nat
        BY <1>0, <2>2, <3>2
      <4>2. Before(wire'[i].seq, wire'[i].nth, seq, published)
        BY <2>4, <3>2
      <4> DEFINE s == wire'[i].seq
                 n == wire'[i].nth
      <4>3. s \in Nat /\ n \in Nat /\ Before(s, n, seq, published)
        BY <4>1, <4>2
      <4> HIDE DEF s, n
      <4>4. Before(s, n, seq', published')
        BY <1>0, <2>3, <4>3 DEF Before
      <4> QED BY <4>4 DEF s, n
    <3> QED BY <2>2, <3>1, <3>2
  <2>6. ASSUME NEW i \in 1..Len(wire'), NEW j \in 1..Len(wire'), i < j
        PROVE  Before(wire'[i].seq, wire'[i].nth, wire'[j].seq, wire'[j].nth)
    <3>1. i \in 1..Len(wire') - 1
      BY <2>2, <2>6
    <3>2. CASE j = Len(wire')
      BY <2>1, <2>2, <2>4, <3>1, <3>2
    <3>3. CASE j \in 1..Len(wire') - 1
      <4>1. i + k \in 1..Len(wire) /\ j + k \in 1..Len(wire) /\ i + k < j + k
        BY <2>2, <2>6, <3>1, <3>3
      <4>2. wire'[i] = wire[i + k] /\ wire'[j] = wire[j + k]
        BY <2>2, <3>1, <3>3
      <4> QED BY <4>1, <4>2 DEF Order
    <3> QED BY <2>2, <3>2, <3>3
  <2>7. valid => Before(last, lastNth, seq', published')
    BY <1>0, <2>3 DEF Order, Before
  <2>8. ASSUME valid, NEW i \in 1..Len(wire')
        PROVE  Before(last, lastNth, wire'[i].seq, wire'[i].nth)
    <3>1. CASE i = Len(wire')
      BY <2>1, <2>2, <2>8, <3>1 DEF Order
    <3>2. CASE i \in 1..Len(wire') - 1
      BY <2>2, <2>8, <3>2 DEF Order
    <3> QED BY <2>2, <3>1, <3>2
  <2> QED BY <2>3, <2>5, <2>6, <2>7, <2>8 DEF Order
<1>2. CASE PublishFails \/ TalkerRestarts
  <2>1. /\ UNCHANGED <<wire, last, lastNth, valid>>
        /\ \/ seq' = seq + 1 /\ published' = published + 1
           \/ seq' = 0 /\ published' = published
    BY <1>2 DEF PublishFails, TalkerRestarts, Number
  <2>2. \A i \in 1..Len(wire) : Before(wire[i].seq, wire[i].nth, seq', published')
    BY <1>0, <2>1 DEF Order, Before
  <2>3. valid => Before(last, lastNth, seq', published')
    BY <1>0, <2>1 DEF Order, Before
  <2> QED BY <2>1, <2>2, <2>3 DEF Order
<1>3. CASE Receive
  <2>1. /\ 1 \in 1..Len(wire) /\ Len(wire') = Len(wire) - 1 /\ Len(wire) \in Nat
        /\ \A i \in 1..Len(wire') : i + 1 \in 1..Len(wire) /\ wire'[i] = wire[i + 1]
    BY <1>0, <1>3, PoppedFrames DEF Receive, WireTypeOK
  <2>2. last' = wire[1].seq /\ lastNth' = wire[1].nth /\ UNCHANGED <<seq, published>>
    BY <1>3, ReceiveSettles DEF Receive
  <2>3. \A i \in 1..Len(wire') : Before(wire[1].seq, wire[1].nth, wire'[i].seq, wire'[i].nth)
    <3>1. \A i \in 1..Len(wire') : 1 < i + 1
      OBVIOUS
    <3> QED BY <2>1, <3>1 DEF Order
  <2>4. ASSUME NEW i \in 1..Len(wire'), NEW j \in 1..Len(wire'), i < j
        PROVE  Before(wire'[i].seq, wire'[i].nth, wire'[j].seq, wire'[j].nth)
    <3>1. i + 1 < j + 1
      BY <2>1, <2>4
    <3> QED BY <2>1, <3>1 DEF Order
  <2>5. \A i \in 1..Len(wire') : Before(wire'[i].seq, wire'[i].nth, seq, published)
    BY <2>1 DEF Order
  <2>6. Before(wire[1].seq, wire[1].nth, seq, published)
    BY <2>1 DEF Order
  <2> QED BY <2>2, <2>3, <2>4, <2>5, <2>6 DEF Order
<1>4. CASE ListenerRestarts
  BY <1>4 DEF ListenerRestarts, Order
<1>5. CASE Store \/ Log \/ Stop \/ Summarize \/ UNCHANGED vars
  <2>1. UNCHANGED <<wire, last, lastNth, valid, seq, published>>
    BY <1>5 DEF Store, Log, Stop, Summarize, vars
  <2> QED BY <2>1 DEF Order
<1> QED BY <1>1, <1>2, <1>3, <1>4, <1>5 DEF Next

\* Until somebody restarts, the number of a frame is its place among all.
LEMMA NumbersStep ==
  ASSUME TypeOK, Numbers, [Next]_vars
  PROVE  Numbers'
<1> USE DEF callbackVars, talkerVars, listenerVars
<1>0. WireTypeOK /\ restarts \in Nat
  BY BoundAssumption DEF TypeOK, TalkerTypeOK
<1>1. CASE Publish
  <2>1. NewFrame \in Frame /\ NewFrame.seq = seq /\ NewFrame.nth = published
    BY <1>1, TypedData, ChunkSizeIsTyped DEF TypeOK, TalkerTypeOK, Publish, Fill, NewFrame, Frame
  <2>2. PICK k \in {0, 1} :
          /\ Len(wire') \in Nat \ {0} /\ wire'[Len(wire')] = NewFrame
          /\ \A i \in 1..Len(wire') - 1 : i + k \in 1..Len(wire) /\ wire'[i] = wire[i + k]
    BY <1>0, <1>1, <2>1, PushedFrames DEF Publish, WireTypeOK
  <2>3. /\ seq' = seq + 1 /\ published' = published + 1
        /\ UNCHANGED <<last, lastNth, valid, restarts>>
    BY <1>1 DEF Publish, Number
  <2>4. ASSUME restarts = 0, NEW i \in 1..Len(wire') PROVE wire'[i].seq = wire'[i].nth
    <3>1. CASE i = Len(wire')
      BY <2>1, <2>2, <2>4, <3>1 DEF Numbers
    <3>2. CASE i \in 1..Len(wire') - 1
      BY <2>2, <2>4, <3>2 DEF Numbers
    <3> QED BY <2>2, <3>1, <3>2
  <2> QED BY <2>3, <2>4 DEF Numbers
<1>2. CASE PublishFails
  BY <1>2 DEF PublishFails, Number, Numbers
<1>3. CASE Receive
  <2>1. /\ 1 \in 1..Len(wire)
        /\ \A i \in 1..Len(wire') : i + 1 \in 1..Len(wire) /\ wire'[i] = wire[i + 1]
    BY <1>0, <1>3, PoppedFrames DEF Receive, WireTypeOK
  <2>2. last' = wire[1].seq /\ lastNth' = wire[1].nth /\ UNCHANGED <<seq, published, restarts>>
    BY <1>3, ReceiveSettles DEF Receive
  <2> QED BY <2>1, <2>2 DEF Numbers
<1>4. CASE TalkerRestarts \/ ListenerRestarts
  BY <1>0, <1>4 DEF TalkerRestarts, ListenerRestarts, Restart, Numbers
<1>5. CASE Store \/ Log \/ Stop \/ Summarize \/ UNCHANGED vars
  <2>1. UNCHANGED <<wire, last, lastNth, valid, seq, published, restarts>>
    BY <1>5 DEF Store, Log, Stop, Summarize, vars
  <2> QED BY <2>1 DEF Numbers
<1> QED BY <1>1, <1>2, <1>3, <1>4, <1>5 DEF Next

\* A new frame adds to the counters what lies between it and the last one.
LEMMA TotalsStep ==
  ASSUME TypeOK, Order, Numbers, Totals, [Next]_vars
  PROVE  Totals'
<1> USE DEF callbackVars, talkerVars, listenerVars
<1>0. CallbackTypeOK /\ last \in Nat /\ lastNth \in Nat /\ first \in Nat /\ valid \in BOOLEAN
  BY DEF TypeOK, CallbackTypeOK
<1>1. CASE Receive
  <2> DEFINE s == wire[1].seq
             n == wire[1].nth
             sum == counters["received"] + counters["dropped"]
  <2>1. /\ 1 \in 1..Len(wire) /\ last' = s /\ lastNth' = n /\ Missed(s) \in Nat
        /\ counters["received"] \in Nat /\ counters["dropped"] \in Nat
        /\ Settled("received") = counters["received"] /\ Settled("dropped") = counters["dropped"]
        /\ Settled("received")' = counters["received"] + 1
        /\ Settled("dropped")' = counters["dropped"] + Missed(s)
    BY <1>0, <1>1, ReceiveSettles DEF Counters, CallbackTypeOK
  <2>2. s \in Nat /\ n \in Nat
    BY <2>1, TypedData
  <2>3. /\ valid' = TRUE /\ first' = (IF valid THEN first ELSE s) /\ UNCHANGED restarts
    <3>1. Head(wire) = wire[1]
      BY <1>1, PoppedFrames DEF Receive, TypeOK, WireTypeOK
    <3> QED BY <1>1, <3>1 DEF Receive
  <2>4. valid => lastNth < n /\ s + lastNth <= last + n
    BY <2>1 DEF Order, Before
  <2>5. Settled("received")' + Settled("dropped")' = sum + 1 + Missed(s)
    BY <2>1
  <2>6. CASE ~valid
    <3>1. Missed(s) = 0
      BY <2>6 DEF Missed
    <3>2. Settled("received") = 0 /\ Settled("dropped") = 0
      BY <2>6 DEF Totals, Counters
    <3>3. Settled("received")' + Settled("dropped")' = 1
      <4>1. counters["received"] = 0 /\ counters["dropped"] = 0
        BY <2>1, <3>2
      <4>2. Settled("received")' = 0 + 1 /\ Settled("dropped")' = 0 + 0
        BY <2>1, <3>1, <4>1
      <4> QED BY <4>2
    <3> HIDE DEF s, n
    <3> QED BY <2>1, <2>2, <2>3, <2>6, <3>3 DEF Totals
  <2>7. CASE valid
    <3>1. Missed(s) = IF s > last + 1 THEN s - last - 1 ELSE 0
      BY <2>7 DEF Missed
    <3>2. sum <= lastNth + 1 /\ sum \in Nat
      BY <2>1, <2>7 DEF Totals
    <3>3. sum + 1 + Missed(s) <= n + 1
      BY <1>0, <2>2, <2>4, <2>7, <3>1, <3>2
    <3>4. ASSUME restarts = 0 PROVE first <= s /\ sum + 1 + Missed(s) + first = s + 1
      <4>1. s = n /\ last = lastNth /\ first <= last /\ sum + first = last + 1
        BY <2>1, <2>7, <3>4 DEF Numbers, Totals
      <4> QED BY <1>0, <2>2, <2>4, <2>7, <3>1, <3>2, <4>1
    <3> QED BY <2>1, <2>3, <2>5, <2>7, <3>3, <3>4 DEF Totals
  <2> QED BY <1>0, <2>6, <2>7
<1>2. CASE Store
  <2>1. UNCHANGED <<last, lastNth, valid, first, restarts>>
    BY <1>2 DEF Store
  <2> QED BY <1>0, <1>2, <2>1, StoreSettles DEF Totals, Counters
<1>3. CASE ListenerRestarts
  <2>1. DOMAIN pending' = {} /\ ~valid' /\ \A c \in Counters : counters'[c] = 0
    BY <1>3 DEF ListenerRestarts, Nothing
  <2> QED BY <2>1 DEF Totals, Settled
<1>4. CASE TalkerRestarts
  <2>1. restarts' # 0
    BY <1>4, BoundAssumption DEF TalkerRestarts, Restart, TypeOK, TalkerTypeOK
  <2>2. UNCHANGED <<last, lastNth, valid, counters, pending>>
    BY <1>4 DEF TalkerRestarts
  <2> QED BY <2>1, <2>2, SettledStays DEF Totals
<1>5. CASE Publish \/ PublishFails \/ Log \/ Stop \/ Summarize \/ UNCHANGED vars
  <2>1. UNCHANGED <<last, lastNth, valid, first, counters, pending, restarts>>
    BY <1>5 DEF Publish, PublishFails, Log, Stop, Summarize, vars
  <2> QED BY <2>1, SettledStays DEF Totals
<1> QED BY <1>1, <1>2, <1>3, <1>4, <1>5 DEF Next

\* A talker fills every chunk of the frame it sends.
LEMMA FilledStep ==
  ASSUME TypeOK, Filled, [Next]_vars
  PROVE  Filled'
<1> USE DEF callbackVars, talkerVars, listenerVars
<1>0. WireTypeOK /\ profile \in Profiles
  BY DEF TypeOK, TalkerTypeOK
<1>1. CASE Publish
  <2>1. NewFrame \in Frame /\ FilledBy(NewFrame, profile)
    BY <1>1, TypedData, ChunkSizeIsTyped
    DEF TypeOK, TalkerTypeOK, Publish, Fill, NewFrame, Frame, FilledBy
  <2>2. PICK k \in {0, 1} :
          /\ Len(wire') \in Nat \ {0} /\ wire'[Len(wire')] = NewFrame
          /\ \A i \in 1..Len(wire') - 1 : i + k \in 1..Len(wire) /\ wire'[i] = wire[i + k]
    BY <1>0, <1>1, <2>1, PushedFrames DEF Publish, WireTypeOK
  <2>3. ASSUME NEW i \in 1..Len(wire') PROVE \E q \in Profiles : FilledBy(wire'[i], q)
    <3>1. CASE i = Len(wire')
      BY <1>0, <2>1, <2>2, <3>1
    <3>2. CASE i \in 1..Len(wire') - 1
      BY <2>2, <3>2 DEF Filled
    <3> QED BY <2>2, <3>1, <3>2
  <2> QED BY <2>3 DEF Filled, FilledBy
<1>2. CASE Receive
  <2>1. \A i \in 1..Len(wire') : i + 1 \in 1..Len(wire) /\ wire'[i] = wire[i + 1]
    BY <1>0, <1>2, PoppedFrames DEF Receive, WireTypeOK
  <2> QED BY <2>1 DEF Filled, FilledBy
<1>3. CASE ListenerRestarts
  BY <1>3 DEF ListenerRestarts, Filled
<1>4. CASE PublishFails \/ Store \/ Log \/ Stop \/ Summarize \/ TalkerRestarts \/ UNCHANGED vars
  <2>1. UNCHANGED wire
    BY <1>4 DEF PublishFails, Store, Log, Stop, Summarize, TalkerRestarts, vars
  <2> QED BY <2>1 DEF Filled, FilledBy
<1> QED BY <1>1, <1>2, <1>3, <1>4 DEF Next

\* Every frame is filled alike, and the check says of each what it says of the first.
LEMMA ChecksStep ==
  ASSUME TypeOK, Checks, [Next]_vars
  PROVE  Checks'
<1> USE DEF callbackVars, talkerVars, listenerVars
<1>0. /\ WireTypeOK /\ CallbackTypeOK /\ profile[1] \in Nat \ {0} /\ profile[2] \in Nat \ {0}
      /\ restarts \in Nat
  BY TypedData, BoundAssumption DEF TypeOK, TalkerTypeOK
<1>1. CASE Publish
  <2>1. NewFrame \in Frame /\ (Profiled(NewFrame) <=> TRUE)
    BY <1>0, <1>1, TypedData, ChunkSizeIsTyped
    DEF TypeOK, TalkerTypeOK, Publish, Fill, NewFrame, Frame, Profiled, FilledBy
  <2>2. PICK k \in {0, 1} :
          /\ Len(wire') \in Nat \ {0} /\ wire'[Len(wire')] = NewFrame
          /\ \A i \in 1..Len(wire') - 1 : i + k \in 1..Len(wire) /\ wire'[i] = wire[i + k]
    BY <1>0, <1>1, <2>1, PushedFrames DEF Publish, WireTypeOK
  <2>3. UNCHANGED <<profile, counters, pending, restarts>>
    BY <1>1 DEF Publish, Number
  <2>4. ASSUME restarts = 0, NEW i \in 1..Len(wire') PROVE Profiled(wire'[i])
    <3>1. CASE i = Len(wire')
      BY <2>1, <2>2, <3>1
    <3>2. CASE i \in 1..Len(wire') - 1
      BY <2>2, <2>4, <3>2 DEF Checks
    <3> QED BY <2>2, <3>1, <3>2
  <2>5. \A f : Profiled(f)' <=> Profiled(f')
    BY <2>3 DEF Profiled, FilledBy
  <2> QED BY <2>3, <2>4, SettledStays DEF Checks, Repeats, Even, Profiled, FilledBy
<1>2. CASE Receive
  <2>1. /\ 1 \in 1..Len(wire)
        /\ \A i \in 1..Len(wire') : i + 1 \in 1..Len(wire) /\ wire'[i] = wire[i + 1]
    BY <1>0, <1>2, PoppedFrames DEF Receive, WireTypeOK
  <2>2. UNCHANGED <<profile, restarts>>
    BY <1>2 DEF Receive
  <2>3. ASSUME restarts = 0 PROVE Verify(wire[1]) <=> Repeats
    <3>1. Profiled(wire[1])
      BY <2>1, <2>3 DEF Checks
    <3>2. wire[1].chunkSize \in Nat \ {0} /\ wire[1].chunkCount \in Nat \ {0}
      BY <1>0, <3>1, ChunkSizeIsTyped DEF Profiled, FilledBy
    <3> QED BY <3>1, <3>2, SpotCheck DEF Profiled, FilledBy, Repeats, Even
  <2>4. /\ Settled("received") = counters["received"]
        /\ Settled("verifyFailures") = counters["verifyFailures"]
        /\ Settled("received")' = counters["received"] + 1
        /\ Settled("verifyFailures")' = counters["verifyFailures"] + IF Verify(wire[1]) THEN 0 ELSE 1
        /\ counters["received"] \in Nat /\ counters["verifyFailures"] \in Nat
    BY <1>0, <1>2, ReceiveSettles DEF Counters, CallbackTypeOK
  <2>5. ASSUME restarts = 0
        PROVE  Settled("verifyFailures")' = IF Repeats THEN 0 ELSE Settled("received")'
    BY <2>3, <2>4, <2>5 DEF Checks
  <2>6. Repeats' <=> Repeats
    BY <2>2 DEF Repeats, Even
  <2>7. ASSUME restarts = 0 PROVE \A i \in 1..Len(wire') : Profiled(wire[i + 1])
    BY <2>1, <2>7 DEF Checks
  <2> QED BY <2>1, <2>2, <2>5, <2>6, <2>7 DEF Checks, Profiled, FilledBy
<1>3. CASE Store
  <2>1. UNCHANGED <<profile, wire, restarts>>
    BY <1>3 DEF Store, talkerVars
  <2> QED BY <1>0, <1>3, <2>1, StoreSettles DEF Checks, Counters, Repeats, Even, Profiled, FilledBy
<1>4. CASE TalkerRestarts \/ ListenerRestarts
  BY <1>0, <1>4 DEF TalkerRestarts, ListenerRestarts, Restart, Checks
<1>5. CASE PublishFails \/ Log \/ Stop \/ Summarize \/ UNCHANGED vars
  <2>1. UNCHANGED <<profile, wire, counters, pending, restarts>>
    BY <1>5 DEF PublishFails, Number, Log, Stop, Summarize, vars
  <2> QED BY <2>1, SettledStays DEF Checks, Repeats, Even, Profiled, FilledBy
<1> QED BY <1>1, <1>2, <1>3, <1>4, <1>5 DEF Next

\* A closed window hands its frames over, and the next one opens empty.
LEMMA WindowsStep ==
  ASSUME TypeOK, Windows, [Next]_vars
  PROVE  Windows'
<1> USE DEF callbackVars, talkerVars, listenerVars
<1>0. WindowTypeOK
  BY DEF TypeOK
<1>1. CASE Receive
  <2>1. /\ window'.accounted = window.accounted /\ window'.open = window.open
        /\ window'.closed = window.closed /\ window'.started = window.started
    BY <1>0, <1>1 DEF Receive, WindowTypeOK
  <2> QED BY <2>1 DEF Windows, FramesInOneWindow
<1>2. CASE Log
  <2>1. PICK over \in BOOLEAN : window' = Throughput(over)
    BY <1>2 DEF Log
  <2> QED BY <1>0, <2>1 DEF Throughput, Windows, FramesInOneWindow, WindowTypeOK
<1>3. CASE ListenerRestarts
  BY <1>3 DEF ListenerRestarts, NewWindow, Windows, FramesInOneWindow
<1>4. CASE Publish \/ PublishFails \/ Store \/ Stop \/ Summarize \/ TalkerRestarts \/ UNCHANGED vars
  <2>1. UNCHANGED window
    BY <1>4 DEF Publish, PublishFails, Store, Stop, Summarize, TalkerRestarts, vars
  <2> QED BY <2>1 DEF Windows, FramesInOneWindow
<1> QED BY <1>1, <1>2, <1>3, <1>4 DEF Next

-------------------------------------------------------------------------------
\* The invariant holds at first and every step keeps it.
LEMMA Invariant == Spec => []Inv
<1>1. Init => Counting /\ Order /\ Numbers /\ Totals /\ Filled /\ Checks /\ Windows
  <2> SUFFICES ASSUME Init PROVE Counting /\ Order /\ Numbers /\ Totals /\ Filled /\ Checks /\ Windows
    OBVIOUS
  <2>1. /\ DOMAIN pending = {} /\ DOMAIN report = {} /\ \A c \in Counters : counters[c] = 0
        /\ phase = "spinning" /\ valid = FALSE /\ wire = <<>> /\ seq = 0 /\ published = 0
    BY DEF Init, Nothing
  <2>2. \A c \in Counters : Settled(c) = 0
    BY <2>1 DEF Settled
  <2>3. Counting
    BY <2>1, <2>2 DEF Counting, Counters
  <2>4. Order /\ Numbers /\ Totals
    BY <2>1, <2>2 DEF Order, Numbers, Totals
  <2>5. Windows
    BY DEF Init, NewWindow, Windows, FramesInOneWindow
  <2>6. Filled /\ Checks
    BY <2>1, <2>2 DEF Filled, Checks, Counters
  <2> QED BY <2>3, <2>4, <2>5, <2>6
<1>2. TypeOK /\ (Counting /\ Order /\ Numbers /\ Totals /\ Filled /\ Checks /\ Windows) /\ [Next]_vars
        => (Counting /\ Order /\ Numbers /\ Totals /\ Filled /\ Checks /\ Windows)'
  BY CountingStep, OrderStep, NumbersStep, TotalsStep, FilledStep, ChecksStep, WindowsStep
<1> QED BY <1>1, <1>2, TypeCorrect, PTL DEF Spec, Inv

\* The listener's counters tell the truth about the frames between its first and its
\* last one, for all buffers, profiles and numbers of frames.
THEOREM DropsAreExactHolds == Spec => []DropsAreExact
<1>1. Inv => DropsAreExact
  <2> SUFFICES ASSUME Inv, restarts = 0, pending = Nothing
               PROVE  counters.received + counters.dropped = Span
    BY DEF DropsAreExact
  <2>1. /\ Settled("received") = counters.received /\ Settled("dropped") = counters.dropped
        /\ counters.received \in Nat /\ counters.dropped \in Nat
        /\ first \in Nat /\ last \in Nat /\ valid \in BOOLEAN
    BY DEF Settled, Nothing, Inv, TypeOK, CallbackTypeOK, Counters
  <2>2. CASE valid
    <3>1. counters.received + counters.dropped + first = last + 1
      BY <2>1, <2>2 DEF Inv, Totals
    <3>2. Span = last - first + 1
      BY <2>2 DEF Span
    <3> QED BY <2>1, <3>1, <3>2
  <2>3. CASE ~valid
    BY <2>1, <2>3 DEF Inv, Totals, Counters, Span
  <2> QED BY <2>1, <2>2, <2>3
<1> QED BY <1>1, Invariant, PTL

\* A frame counted as received or dropped was published, whoever restarted.
THEOREM NoPhantomDropsHolds == Spec => []NoPhantomDrops
<1>1. Inv => NoPhantomDrops
  <2> SUFFICES ASSUME Inv PROVE NoPhantomDrops
    OBVIOUS
  <2>0. CallbackTypeOK /\ published \in Nat
    BY TypedData DEF Inv, TypeOK
  <2>1. /\ Settled("received") \in Nat /\ Settled("dropped") \in Nat
        /\ counters["received"] \in Nat /\ counters["dropped"] \in Nat
    BY <2>0, SettledIsTyped DEF Counters, CallbackTypeOK
  <2>2. counters["received"] <= Settled("received") /\ counters["dropped"] <= Settled("dropped")
    BY <2>1 DEF Settled, Inv, Counting
  <2>3. Settled("received") + Settled("dropped") <= published
    <3>1. CASE valid
      BY <2>0, <2>1, <3>1 DEF Inv, Totals, Order, Before, CallbackTypeOK
    <3>2. CASE ~valid
      BY <2>0, <2>1, <3>2 DEF Inv, Totals, Counters
    <3> QED BY <3>1, <3>2
  <2> QED BY <2>0, <2>1, <2>2, <2>3 DEF NoPhantomDrops
<1> QED BY <1>1, Invariant, PTL

\* The summary, read while the poll thread may be counting, never exceeds the run.
THEOREM SummaryIsOfItsRunHolds == Spec => []SummaryIsOfItsRun
<1>1. Inv => SummaryIsOfItsRun
  <2> SUFFICES ASSUME Inv, restarts = 0, DOMAIN report = Counters
               PROVE  /\ report.received + report.dropped <= Span
                      /\ report.verifyFailures <= counters.received + 1
                      /\ channel = "proto" => report.received + report.dropped = Span
    BY DEF SummaryIsOfItsRun
  <2>0. CallbackTypeOK /\ ReportTypeOK
    BY DEF Inv, TypeOK
  <2>1. \A c \in Counters : Settled(c) \in Nat /\ counters[c] \in Nat /\ report[c] \in Nat
    BY <2>0, SettledIsTyped DEF CallbackTypeOK, ReportTypeOK
  <2>2. \A c \in Counters : report[c] <= counters[c] /\ counters[c] <= Settled(c)
    BY <2>1 DEF Settled, Inv, Counting
  <2>3. Settled("received") + Settled("dropped") = Span
    <3>1. CASE valid
      BY <2>0, <2>1, <3>1 DEF Inv, Totals, Span, Counters, CallbackTypeOK
    <3>2. CASE ~valid
      BY <2>1, <3>2 DEF Inv, Totals, Span, Counters
    <3> QED BY <3>1, <3>2
  <2>4. report["received"] + report["dropped"] <= Span
    BY <2>1, <2>2, <2>3 DEF Counters
  <2>5. report["verifyFailures"] <= counters["received"] + 1
    <3>1. Settled("verifyFailures") <= Settled("received")
      BY DEF Inv, Counting
    <3>2. Settled("received") <= counters["received"] + 1
      BY <2>1 DEF Settled, Inv, Counting, Counters
    <3> QED BY <2>1, <2>2, <3>1, <3>2 DEF Counters
  <2>6. channel = "proto" => report["received"] + report["dropped"] = Span
    <3> SUFFICES ASSUME channel = "proto" PROVE report["received"] + report["dropped"] = Span
      OBVIOUS
    <3>1. phase # "spinning"
      BY <2>0 DEF ReportTypeOK, Nothing, Counters
    <3>2. \A c \in Counters : report[c] = counters[c] /\ Settled(c) = counters[c]
      BY <3>1 DEF Inv, Counting, Settled
    <3> QED BY <2>3, <3>2 DEF Counters
  <2> QED BY <2>4, <2>5, <2>6
<1> QED BY <1>1, Invariant, PTL

\* Where the profiles of all talkers start their last chunk at a multiple of 256 bytes,
\* the listener's spot check fails with no frame, whoever was restarted.
THEOREM IntactFramesPassHolds ==
  ASSUME \A q \in Profiles : (ChunkSize(q[1], q[2]) * (q[2] - 1)) % 256 = 0
  PROVE  Spec => []IntactFramesPass
<1> DEFINE NoneFailed == Settled("verifyFailures") = 0
<1>1. Init => NoneFailed
  BY DEF Init, Nothing, Settled, Counters
<1>2. Inv /\ NoneFailed /\ [Next]_vars => NoneFailed'
  <2> SUFFICES ASSUME Inv, NoneFailed, [Next]_vars PROVE NoneFailed'
    OBVIOUS
  <2> USE DEF callbackVars, talkerVars, listenerVars
  <2>0. TypeOK /\ Filled /\ CallbackTypeOK
    BY DEF Inv, TypeOK
  <2>1. CASE Receive
    <3>1. /\ 1 \in 1..Len(wire) /\ Settled("verifyFailures") = counters["verifyFailures"]
          /\ Settled("verifyFailures")'
               = counters["verifyFailures"] + IF Verify(wire[1]) THEN 0 ELSE 1
      BY <2>0, <2>1, ReceiveSettles DEF Counters
    <3>2. PICK q \in Profiles : FilledBy(wire[1], q)
      BY <2>0, <3>1 DEF Filled
    <3>3. q[1] \in Nat \ {0} /\ q[2] \in Nat \ {0}
      BY ProfileAssumption
    <3>4. wire[1].chunkSize \in Nat \ {0} /\ wire[1].chunkCount \in Nat \ {0}
      BY <3>2, <3>3, ChunkSizeIsTyped DEF FilledBy
    <3>5. Verify(wire[1])
      BY <3>2, <3>4, SpotCheck DEF FilledBy
    <3> QED BY <3>1, <3>5
  <2>2. CASE Store
    BY <2>0, <2>2, StoreSettles DEF Counters
  <2>3. CASE ListenerRestarts
    BY <2>3 DEF ListenerRestarts, Nothing, Settled, Counters
  <2>4. CASE Publish \/ PublishFails \/ Log \/ Stop \/ Summarize \/ TalkerRestarts \/ UNCHANGED vars
    <3>1. UNCHANGED <<counters, pending>>
      BY <2>4 DEF Publish, PublishFails, Log, Stop, Summarize, TalkerRestarts, vars
    <3> QED BY <3>1, SettledStays
  <2> QED BY <2>1, <2>2, <2>3, <2>4 DEF Next
<1>3. Inv /\ NoneFailed => IntactFramesPass
  <2> SUFFICES ASSUME Inv, NoneFailed PROVE counters["verifyFailures"] = 0
    BY DEF IntactFramesPass
  <2>1. counters["verifyFailures"] \in Nat
    BY DEF Inv, TypeOK, CallbackTypeOK, Counters
  <2>2. counters["verifyFailures"] <= 0
    BY <2>1 DEF Inv, Counting, Settled
  <2> QED BY <2>1, <2>2
<1> HIDE DEF NoneFailed
<1> QED BY <1>1, <1>2, <1>3, Invariant, PTL DEF Spec

\* Once the callback of its last frame has returned, the listener has refused every
\* frame it got from a talker of another profile.
UnevenFramesFail ==
  restarts = 0 /\ pending = Nothing /\ ~Repeats => counters.verifyFailures = counters.received

\* A talker of any other profile fails the spot check with every frame: its comment
\* does not say that the payload size and the chunk count must fit one another.
THEOREM UnevenFramesFailAlways == Spec => []UnevenFramesFail
<1>1. Inv => UnevenFramesFail
  <2> SUFFICES ASSUME Inv, restarts = 0, pending = Nothing, ~Repeats
               PROVE  counters.verifyFailures = counters.received
    BY DEF UnevenFramesFail
  <2>1. /\ Settled("verifyFailures") = counters.verifyFailures
        /\ Settled("received") = counters.received
    BY DEF Settled, Nothing
  <2> QED BY <2>1 DEF Inv, Checks
<1> QED BY <1>1, Invariant, PTL

\* The throughput counts a frame in exactly one window.
THEOREM FramesInOneWindowHolds == Spec => []FramesInOneWindow
<1>1. Inv => FramesInOneWindow
  BY DEF Inv, Windows
<1> QED BY <1>1, Invariant, PTL
===============================================================================
