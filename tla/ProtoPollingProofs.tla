-------------------------- MODULE ProtoPollingProofs --------------------------
(* Theorems about ProtoPolling, for all policies, depths and numbers of samples. *)
EXTENDS ProtoPolling, TLAPS

(* The inductive invariant.                                                 *)

\* Samples wait in the order in which they were sent, and are newer than whatever the
\* user or the running call has.
Queued ==
  /\ \A i, j \in 1..Len(history) : i < j => history[i].num < history[j].num
  /\ \A i \in 1..Len(history) : history[i].num > data.num
  /\ polling => \A i \in 1..Len(history) : history[i].num > newData.num

\* A call in progress has in new_data the last sample it took, and the newest sample
\* of its beginning is still to come or taken.
Calling ==
  polling =>
    /\ newData.whole /\ Len(batch) <= newData.num
    /\ batch = <<>> => newData.num = 0
    /\ batch # <<>> => newData.num = batch[Len(batch)] /\ newData.num > data.num
    /\ policy = "All" /\ batch # <<>> => timestamp = newData.num
    /\ IF history = <<>> THEN newData.num >= before
                         ELSE history[Len(history)].num >= before

\* What the user was handed was parsed, and carries its own timestamp.
Handed ==
  /\ policy # "Latest" => data.whole
  /\ policy = "Newest" => timestamp = data.num
  /\ policy = "All" /\ native /\ ~polling => timestamp = data.num

Inv == TypeOK /\ Queued /\ Calling /\ Handed

-------------------------------------------------------------------------------
\* A history has numbered samples.
LEMMA TypedHistory ==
  ASSUME HistoryTypeOK
  PROVE  /\ sent \in Nat /\ Len(history) \in Nat
         /\ \A i \in 1..Len(history) :
              history[i] \in Sample /\ history[i].num \in Nat /\ history[i].num \in 1..sent
<1>1. \A i \in 1..Len(history) : history[i] \in Sample
  BY DEF HistoryTypeOK
<1> QED BY <1>1, BoundAssumption DEF HistoryTypeOK, Sample

\* What an append to a history leaves of it.
LEMMA PushedSamples ==
  ASSUME NEW q \in Seq(Sample), Len(q) <= Depth, NEW f \in Sample
  PROVE  LET r == Append(IF Len(q) = Depth THEN Tail(q) ELSE q, f)
         IN /\ r \in Seq(Sample) /\ Len(r) <= Depth /\ Len(r) \in Nat \ {0}
            /\ r[Len(r)] = f
            /\ \E k \in {0, 1} : \A i \in 1..Len(r) - 1 : i + k \in 1..Len(q) /\ r[i] = q[i + k]
<1> DEFINE r == Append(IF Len(q) = Depth THEN Tail(q) ELSE q, f)
<1>1. Depth \in Nat \ {0} /\ Len(q) \in Nat
  BY DepthAssumption
<1>2. CASE Len(q) = Depth
  <2>1. /\ Tail(q) \in Seq(Sample) /\ Len(Tail(q)) = Len(q) - 1
        /\ \A i \in 1..Len(q) - 1 : Tail(q)[i] = q[i + 1]
    BY <1>1, <1>2
  <2>2. /\ r \in Seq(Sample) /\ Len(r) = Len(q) /\ r[Len(r)] = f
        /\ \A i \in 1..Len(q) - 1 : r[i] = Tail(q)[i]
    BY <1>1, <1>2, <2>1
  <2>3. \A i \in 1..Len(r) - 1 : i + 1 \in 1..Len(q) /\ r[i] = q[i + 1]
    <3> HIDE DEF r
    <3> QED BY <1>1, <2>1, <2>2
  <2> QED BY <1>1, <1>2, <2>2, <2>3
<1>3. CASE Len(q) # Depth
  <2>1. /\ r \in Seq(Sample) /\ Len(r) = Len(q) + 1 /\ r[Len(r)] = f
        /\ \A i \in 1..Len(q) : r[i] = q[i]
    BY <1>1, <1>3
  <2>2. \A i \in 1..Len(r) - 1 : i + 0 \in 1..Len(q) /\ r[i] = q[i + 0]
    BY <1>1, <2>1
  <2> QED BY <1>1, <1>3, <2>1, <2>2
<1> QED BY <1>2, <1>3

\* The head of a history and what is behind it.
LEMMA PoppedSamples ==
  ASSUME NEW q \in Seq(Sample), q # <<>>
  PROVE  /\ Head(q) = q[1] /\ 1 \in 1..Len(q) /\ Len(q) \in Nat
         /\ Tail(q) \in Seq(Sample) /\ Len(Tail(q)) = Len(q) - 1
         /\ \A i \in 1..Len(Tail(q)) : i + 1 \in 1..Len(q) /\ Tail(q)[i] = q[i + 1]
<1>1. Len(q) \in Nat \ {0}
  OBVIOUS
<1>2. /\ Head(q) = q[1] /\ Tail(q) \in Seq(Sample) /\ Len(Tail(q)) = Len(q) - 1
      /\ \A i \in 1..Len(q) - 1 : Tail(q)[i] = q[i + 1]
  OBVIOUS
<1> QED BY <1>1, <1>2

\* Every take consumes the oldest sample: the rest is newer.
LEMMA Consumed ==
  ASSUME HistoryTypeOK, Queued, history # <<>>, history' = Tail(history), sent' = sent
  PROVE  /\ Head(history).num \in Nat /\ Head(history).num \in 1..sent
         /\ Head(history).num > data.num /\ (polling => Head(history).num > newData.num)
         /\ HistoryTypeOK'
         /\ \A i \in 1..Len(history') : history'[i].num > Head(history).num
         /\ \A i, j \in 1..Len(history') : i < j => history'[i].num < history'[j].num
         /\ history' = <<>> => Head(history) = history[Len(history)]
         /\ history' # <<>> => history'[Len(history')] = history[Len(history)]
<1>1. /\ Head(history) = history[1] /\ 1 \in 1..Len(history) /\ Len(history) \in Nat
      /\ history' \in Seq(Sample) /\ Len(history') = Len(history) - 1
      /\ \A i \in 1..Len(history') : i + 1 \in 1..Len(history) /\ history'[i] = history[i + 1]
  BY PoppedSamples DEF HistoryTypeOK
<1>2. Len(history') <= Depth
  BY <1>1, DepthAssumption DEF HistoryTypeOK
<1>3. HistoryTypeOK'
  BY <1>1, <1>2 DEF HistoryTypeOK
<1>4. \A i \in 1..Len(history') : 1 < i + 1
  OBVIOUS
<1>5. \A i \in 1..Len(history') : history'[i].num > history[1].num
  BY <1>1, <1>4, TypedHistory DEF Queued
<1>6. ASSUME NEW i \in 1..Len(history'), NEW j \in 1..Len(history'), i < j
      PROVE  history'[i].num < history'[j].num
  <2>1. i + 1 < j + 1
    BY <1>1, <1>6
  <2> QED BY <1>1, <2>1 DEF Queued
<1>7. history' = <<>> => Len(history) = 1
  <2>1. history' = <<>> => Len(history') = 0
    OBVIOUS
  <2> QED BY <1>1, <2>1
<1>8. history' # <<>> => Len(history') \in 1..Len(history')
  BY <1>1
<1>9. history' # <<>> => history'[Len(history')] = history[Len(history)]
  BY <1>1, <1>8
<1> QED BY <1>1, <1>3, <1>5, <1>6, <1>7, <1>9, TypedHistory DEF Queued

-------------------------------------------------------------------------------
\* A sample arrives behind all others.
LEMMA ArriveKeeps ==
  ASSUME Inv, NEW body \in Bodies, Arrive(body)
  PROVE  Inv'
<1> DEFINE new == [num |-> sent + 1, body |-> body]
<1>0. /\ HistoryTypeOK /\ CallTypeOK /\ UserTypeOK
      /\ UNCHANGED <<subscriber, localVars, userVars>> /\ sent' = sent + 1
  BY DEF Inv, TypeOK, Arrive
<1> USE DEF subscriber, localVars, userVars
<1>1. sent \in Nat /\ MaxSamples \in Nat /\ sent' \in 0..MaxSamples
  BY <1>0, BoundAssumption DEF Arrive, HistoryTypeOK
<1>2. new \in Sample
  BY <1>1 DEF Sample
<1>3. PICK k \in {0, 1} :
        /\ history' \in Seq(Sample) /\ Len(history') <= Depth /\ Len(history') \in Nat \ {0}
        /\ history'[Len(history')] = new
        /\ \A i \in 1..Len(history') - 1 : i + k \in 1..Len(history) /\ history'[i] = history[i + k]
  BY <1>0, <1>2, PushedSamples DEF Arrive, HistoryTypeOK
<1>4. ASSUME NEW i \in 1..Len(history') - 1
      PROVE  /\ history'[i].num \in 1..sent /\ history'[i].num > data.num
             /\ polling => history'[i].num > newData.num
  BY <1>0, <1>3, TypedHistory DEF Inv, Queued
<1>5. ASSUME NEW i \in 1..Len(history')
      PROVE  /\ history'[i].num \in 1..sent + 1 /\ history'[i].num > data.num
             /\ polling => history'[i].num > newData.num
  <2>1. CASE i = Len(history')
    <3>1. data.num \in Nat /\ data.num <= sent /\ newData.num \in Nat /\ newData.num <= sent
      BY <1>0 DEF CallTypeOK, UserTypeOK, Message
    <3> QED BY <1>1, <1>3, <2>1, <3>1
  <2>2. CASE i \in 1..Len(history') - 1
    BY <1>1, <1>4, <2>2
  <2> QED BY <1>3, <2>1, <2>2
<1>6. HistoryTypeOK'
  BY <1>0, <1>1, <1>3, <1>5 DEF HistoryTypeOK
<1>7. CallTypeOK' /\ UserTypeOK'
  BY <1>0, <1>1 DEF CallTypeOK, UserTypeOK, Message
<1>8. Queued'
  <2>1. ASSUME NEW i \in 1..Len(history'), NEW j \in 1..Len(history'), i < j
        PROVE  history'[i].num < history'[j].num
    <3>1. i \in 1..Len(history') - 1
      BY <1>3, <2>1
    <3>2. CASE j = Len(history')
      BY <1>1, <1>3, <1>4, <3>1, <3>2
    <3>3. CASE j \in 1..Len(history') - 1
      <4>1. i + k \in 1..Len(history) /\ j + k \in 1..Len(history) /\ i + k < j + k
        BY <1>3, <2>1, <3>1, <3>3
      <4> QED BY <1>3, <3>1, <3>3, <4>1 DEF Inv, Queued
    <3> QED BY <1>3, <3>2, <3>3
  <2> QED BY <1>0, <1>5, <2>1 DEF Queued
<1>9. Calling'
  <2>1. history' # <<>> /\ history'[Len(history')].num >= before
    BY <1>0, <1>1, <1>3 DEF CallTypeOK
  <2> QED BY <1>0, <2>1 DEF Inv, Calling
<1> QED BY <1>0, <1>6, <1>7, <1>8, <1>9 DEF Inv, TypeOK, Handed

\* A call begins with nothing in hand.
LEMMA BeginKeeps ==
  ASSUME Inv, Begin
  PROVE  Inv'
<1> USE DEF subscriber, localVars, userVars
<1>0. /\ HistoryTypeOK /\ CallTypeOK /\ UserTypeOK
      /\ UNCHANGED <<policy, native, sent, history, data, timestamp>>
      /\ polling' = TRUE /\ newData' = Blank /\ info' = 0 /\ batch' = <<>>
  BY DEF Inv, TypeOK, Begin
<1>1. history # <<>> => Len(history) \in 1..Len(history)
  BY <1>0 DEF HistoryTypeOK
<1>2. before' = IF history = <<>> THEN 0 ELSE history[Len(history)].num
  BY DEF Begin, Last
<1>3. before' \in 0..sent /\ sent \in Nat
  BY <1>0, <1>1, <1>2, TypedHistory
<1>4. CallTypeOK'
  BY <1>0, <1>3 DEF CallTypeOK, Blank, Message
<1>5. HistoryTypeOK' /\ UserTypeOK'
  BY <1>0 DEF HistoryTypeOK, UserTypeOK
<1>6. \A i \in 1..Len(history) : history[i].num > 0
  BY <1>0, TypedHistory
<1>7. Queued'
  BY <1>0, <1>6 DEF Inv, Queued, Blank
<1>8. Calling'
  <2>1. IF history = <<>> THEN 0 >= before' ELSE history[Len(history)].num >= before'
    BY <1>0, <1>1, <1>2, TypedHistory
  <2> QED BY <1>0, <2>1 DEF Calling, Blank
<1> QED BY <1>0, <1>4, <1>5, <1>7, <1>8 DEF Inv, TypeOK, Handed

\* A sample is taken: the call goes on with it, or returns it.
LEMMA TakeParsedKeeps ==
  ASSUME Inv, TakeParsed
  PROVE  Inv'
<1> USE DEF subscriber
<1> DEFINE num == Head(history).num
<1>0. /\ HistoryTypeOK /\ CallTypeOK /\ UserTypeOK /\ Queued /\ polling
      /\ history # <<>> /\ history' = Tail(history)
      /\ UNCHANGED <<policy, native, sent, before>>
      /\ newData' = [num |-> num, whole |-> TRUE] /\ info' = num /\ batch' = Append(batch, num)
      /\ polling' = (policy # "Newest")
      /\ data' = (IF policy # "Newest" THEN data ELSE [num |-> num, whole |-> TRUE])
      /\ timestamp' = (IF policy = "Latest" THEN timestamp ELSE num)
  BY DEF Inv, TypeOK, TakeParsed, GoesOn
<1>1. /\ num \in Nat /\ num \in 1..sent /\ num > data.num /\ num > newData.num
      /\ HistoryTypeOK' /\ sent \in Nat
      /\ \A i \in 1..Len(history') : history'[i].num > num
      /\ \A i, j \in 1..Len(history') : i < j => history'[i].num < history'[j].num
      /\ history' = <<>> => num = history[Len(history)].num
      /\ history' # <<>> => history'[Len(history')].num = history[Len(history)].num
  BY <1>0, Consumed, TypedHistory
<1>2. newData.num \in Nat /\ data.num \in Nat /\ before \in Nat /\ batch \in Seq(Nat)
  BY <1>0, <1>1 DEF CallTypeOK, UserTypeOK, Message
<1> HIDE DEF num
<1>3. /\ batch' \in Seq(Nat) /\ Len(batch') = Len(batch) + 1 /\ Len(batch) \in Nat
      /\ batch' # <<>> /\ batch'[Len(batch')] = num
  BY <1>0, <1>1, <1>2
<1>4. Len(batch') <= num
  BY <1>0, <1>1, <1>2, <1>3 DEF Inv, Calling
<1>5. CallTypeOK'
  BY <1>0, <1>1, <1>3, <1>4 DEF CallTypeOK, Message
<1>6. UserTypeOK'
  BY <1>0, <1>1 DEF UserTypeOK, Message
<1>7. data'.num <= num /\ newData'.num = num /\ data'.num \in Nat
  BY <1>0, <1>1, <1>2
<1>8. Queued'
  <2>1. \A i \in 1..Len(history') : history'[i].num \in Nat
    BY <1>1, <1>0, BoundAssumption DEF HistoryTypeOK
  <2> QED BY <1>1, <1>7, <2>1 DEF Queued
<1>9. Calling'
  <2>1. history[Len(history)].num >= before
    BY <1>0 DEF Inv, Calling
  <2>2. IF history' = <<>> THEN num >= before ELSE history'[Len(history')].num >= before
    BY <1>1, <2>1
  <2> QED BY <1>0, <1>1, <1>3, <1>4, <2>2 DEF Calling
<1>10. Handed'
  BY <1>0 DEF Inv, Handed
<1> QED BY <1>1, <1>5, <1>6, <1>8, <1>9, <1>10 DEF Inv, TypeOK

\* A call ends without another sample: Latest keeps the message it is left with, All
\* returns what it has collected, Newest nothing.
LEMMA FinishKeeps ==
  ASSUME Inv, polling, NEW message, NEW stamp, Finish(message, stamp),
         UNCHANGED <<policy, native, sent, before, batch>>,
         HistoryTypeOK', CallTypeOK',
         message \in Message, stamp \in 0..sent,
         message.num >= newData.num, message.num <= sent,
         \A i, j \in 1..Len(history') : i < j => history'[i].num < history'[j].num,
         \A i \in 1..Len(history') : history'[i].num > message.num /\ history'[i].num > data.num
  PROVE  Inv'
<1>0. /\ HistoryTypeOK /\ CallTypeOK /\ UserTypeOK /\ polling' = FALSE
      /\ policy \in {"Latest", "Newest", "All"}
  BY PolicyAssumption DEF Inv, TypeOK, UserTypeOK, Finish
<1>1. /\ newData.num \in Nat /\ data.num \in Nat /\ sent \in Nat /\ message.num \in Nat
      /\ batch \in Seq(Nat) /\ timestamp \in 0..sent
      /\ \A i \in 1..Len(history') : history'[i].num \in Nat
  BY <1>0, TypedHistory, BoundAssumption DEF CallTypeOK, UserTypeOK, Message, HistoryTypeOK
<1>2. /\ batch # <<>> => newData.num = batch[Len(batch)] /\ newData.num > data.num
      /\ policy = "All" /\ batch # <<>> => timestamp = newData.num
  BY DEF Inv, Calling
<1>3. \/ data' = data /\ timestamp' = timestamp /\ policy = "Latest" /\ batch = <<>>
      \/ data' = message /\ timestamp' = stamp /\ policy = "Latest"
      \/ /\ data' = [num |-> newData.num, whole |-> TRUE] /\ timestamp' = newData.num
         /\ policy = "All"
      \/ data' = Blank /\ timestamp' = 0 /\ policy # "Latest"
  BY <1>0, <1>2 DEF Finish, KeepLatest, KeepNone, Last, userVars
<1>4. UserTypeOK'
  <2>1. newData.num <= sent /\ [num |-> newData.num, whole |-> TRUE] \in Message /\ Blank \in Message
    BY <1>0, <1>1 DEF CallTypeOK, Message, Blank
  <2>2. data \in Message /\ data.num <= sent /\ 0 <= sent
    BY <1>0, <1>1 DEF UserTypeOK
  <2>3. data' \in Message
    BY <1>3, <2>1, <2>2
  <2>4. data'.num <= sent
    BY <1>1, <1>3, <2>1, <2>2 DEF Blank
  <2>5. timestamp' \in 0..sent
    BY <1>1, <1>3, <2>1
  <2> QED BY <1>0, <2>3, <2>4, <2>5 DEF UserTypeOK
<1>5. \A i \in 1..Len(history') : history'[i].num > data'.num
  <2>1. data'.num \in Nat /\ (data'.num <= message.num \/ data' = data)
    BY <1>1, <1>3 DEF Blank
  <2> QED BY <1>1, <2>1
<1>6. Handed'
  BY <1>0, <1>3 DEF Handed, Inv, Blank
<1> QED BY <1>0, <1>4, <1>5, <1>6 DEF Inv, TypeOK, Queued, Calling

\* A malformed sample on Track A is consumed, and ends the call.
LEMMA TakeMalformedKeeps ==
  ASSUME Inv, TakeMalformed
  PROVE  Inv'
<1> USE DEF subscriber
<1>0. /\ HistoryTypeOK /\ CallTypeOK /\ Queued /\ polling /\ polling' = FALSE
      /\ history # <<>> /\ history' = Tail(history)
      /\ UNCHANGED <<policy, native, sent, before, batch>>
      /\ newData' = [num |-> Head(history).num, whole |-> FALSE] /\ info' = Head(history).num
      /\ Finish(newData', info')
  BY DEF Inv, TypeOK, TakeMalformed, Finish
<1>1. /\ Head(history).num \in Nat /\ Head(history).num \in 1..sent
      /\ Head(history).num > data.num /\ Head(history).num > newData.num /\ HistoryTypeOK'
      /\ \A i \in 1..Len(history') : history'[i].num > Head(history).num
      /\ \A i, j \in 1..Len(history') : i < j => history'[i].num < history'[j].num
      /\ sent \in Nat
  BY <1>0, Consumed, TypedHistory
<1>2. newData' \in Message /\ newData'.num = Head(history).num /\ info' \in 0..sent
  BY <1>0, <1>1 DEF Message
<1>3. CallTypeOK'
  <2>1. newData'.num <= sent'
    BY <1>0, <1>1, <1>2
  <2> QED BY <1>0, <1>2, <2>1 DEF CallTypeOK
<1>4. data.num \in Nat /\ newData.num \in Nat /\ \A i \in 1..Len(history') : history'[i].num \in Nat
  BY <1>0, <1>1, BoundAssumption DEF Inv, TypeOK, UserTypeOK, CallTypeOK, HistoryTypeOK, Message
<1>5. /\ newData'.num >= newData.num /\ newData'.num <= sent
      /\ \A i \in 1..Len(history') : history'[i].num > newData'.num /\ history'[i].num > data.num
  BY <1>1, <1>2, <1>4
<1> QED BY <1>0, <1>1, <1>2, <1>3, <1>5, FinishKeeps

\* No sample is left: the call ends.
LEMMA TakeNothingKeeps ==
  ASSUME Inv, TakeNothing
  PROVE  Inv'
<1> USE DEF subscriber
<1>0. /\ HistoryTypeOK /\ CallTypeOK /\ polling /\ polling' = FALSE
      /\ history = <<>> /\ UNCHANGED <<policy, native, sent, history, before, newData, batch>>
      /\ info' = 0 /\ Finish(newData', info')
  BY DEF Inv, TypeOK, TakeNothing, Finish
<1>1. /\ newData' \in Message /\ newData'.num = newData.num /\ newData.num \in Nat
      /\ newData'.num <= sent /\ sent \in Nat
  BY <1>0, TypedHistory DEF CallTypeOK, Message
<1>2. CallTypeOK' /\ HistoryTypeOK'
  <2>1. info' \in 0..sent'
    BY <1>0, <1>1
  <2>2. CallTypeOK'
    BY <1>0, <2>1 DEF CallTypeOK
  <2>3. HistoryTypeOK'
    BY <1>0 DEF HistoryTypeOK
  <2> QED BY <2>2, <2>3
<1>3. /\ \A i, j \in 1..Len(history') : i < j => history'[i].num < history'[j].num
      /\ \A i \in 1..Len(history') : history'[i].num > newData'.num /\ history'[i].num > data.num
  BY <1>0
<1> QED BY <1>0, <1>1, <1>2, <1>3, FinishKeeps

\* An exception ends the call and takes its locals with it.
LEMMA TakeThrowsKeeps ==
  ASSUME Inv, TakeThrows
  PROVE  Inv'
<1> USE DEF subscriber, userVars
<1>0. /\ HistoryTypeOK /\ CallTypeOK /\ UserTypeOK /\ Queued /\ ~native /\ polling' = FALSE
      /\ history # <<>> /\ history' = Tail(history)
      /\ UNCHANGED <<policy, native, sent, before, newData, info, batch, data, timestamp>>
  BY DEF Inv, TypeOK, TakeThrows
<1>1. /\ Head(history).num \in Nat /\ Head(history).num > data.num /\ HistoryTypeOK'
      /\ \A i \in 1..Len(history') : history'[i].num > Head(history).num
      /\ \A i, j \in 1..Len(history') : i < j => history'[i].num < history'[j].num
  BY <1>0, Consumed
<1>2. CallTypeOK' /\ UserTypeOK'
  BY <1>0 DEF CallTypeOK, UserTypeOK
<1>3. data.num \in Nat /\ \A i \in 1..Len(history') : history'[i].num \in Nat
  BY <1>0, <1>1, BoundAssumption DEF UserTypeOK, HistoryTypeOK, Message
<1>4. Queued'
  BY <1>0, <1>1, <1>3 DEF Queued
<1> QED BY <1>0, <1>1, <1>2, <1>4 DEF Inv, TypeOK, Calling, Handed

\* The invariant holds at first and every step keeps it.
LEMMA Invariant == Spec => []Inv
<1>1. Init => Inv
  <2> SUFFICES ASSUME Init PROVE Inv
    OBVIOUS
  <2>1. HistoryTypeOK
    BY BoundAssumption, DepthAssumption DEF Init, HistoryTypeOK
  <2>2. Blank \in Message /\ Blank.num = 0
    BY DEF Blank, Message
  <2>3. CallTypeOK
    <3>1. <<>> \in Seq(Nat) /\ Len(<<>>) = 0
      OBVIOUS
    <3>2. /\ sent = 0 /\ polling = FALSE /\ before = 0 /\ newData = Blank /\ info = 0
          /\ batch = <<>>
      BY DEF Init
    <3>3. batch \in Seq(Nat) /\ Len(batch) <= sent
      BY <3>1, <3>2
    <3>4. polling \in BOOLEAN /\ before \in 0..sent /\ info \in 0..sent
      <4>1. 0 \in 0..0
        OBVIOUS
      <4> QED BY <3>2, <4>1, Zenon
    <3>5. newData \in Message /\ newData.num <= sent
      BY <2>2, <3>2
    <3> QED BY <3>3, <3>4, <3>5 DEF CallTypeOK
  <2>4. UserTypeOK
    BY <2>2 DEF Init, UserTypeOK
  <2> QED BY <2>1, <2>3, <2>4 DEF Init, Inv, TypeOK, Queued, Calling, Handed, Blank
<1>2. Inv /\ [Next]_vars => Inv'
  <2> SUFFICES ASSUME Inv, [Next]_vars PROVE Inv'
    OBVIOUS
  <2>1. CASE UNCHANGED vars
    BY <2>1 DEF vars, subscriber, localVars, userVars, Inv, TypeOK, HistoryTypeOK, CallTypeOK,
                UserTypeOK, Queued, Calling, Handed
  <2> QED
    BY <2>1, ArriveKeeps, BeginKeeps, TakeParsedKeeps, TakeMalformedKeeps, TakeThrowsKeeps,
       TakeNothingKeeps DEF Next
<1> QED BY <1>1, <1>2, PTL DEF Spec

-------------------------------------------------------------------------------
\* The history keeps its depth, and a call never takes more than was sent.
THEOREM TypeCorrect == Spec => []TypeOK
<1>1. Inv => TypeOK
  BY DEF Inv
<1> QED BY <1>1, Invariant, PTL

\* Between calls the timestamp is that of the message that was returned.
THEOREM StampMatchesHolds == Spec => []StampMatches
<1>1. Inv => StampMatches
  BY DEF Inv, Handed, StampMatches
<1> QED BY <1>1, Invariant, PTL

\* Latest drains to the newest sample of its beginning, whatever arrives meanwhile.
THEOREM DrainsToNewestHolds == Spec => DrainsToNewest
<1> DEFINE Drained == policy = "Latest" /\ polling /\ ~polling'
                        /\ (history = <<>> \/ Head(history).body = "valid")
                        => data'.num >= before
<1>1. Inv /\ [Next]_vars => [Drained]_vars
  <2> SUFFICES ASSUME Inv, Next, policy = "Latest", polling, ~polling',
                      history = <<>> \/ Head(history).body = "valid"
               PROVE  data'.num >= before
    BY DEF Drained
  <2>1. TakeNothing
    <3>1. ~(\E body \in Bodies : Arrive(body)) /\ ~Begin
      BY DEF Arrive, Begin, localVars
    <3>2. ~TakeParsed
      BY DEF TakeParsed, GoesOn
    <3>3. ~TakeMalformed /\ ~TakeThrows
      BY DEF TakeMalformed, TakeThrows
    <3> QED BY <3>1, <3>2, <3>3 DEF Next
  <2>2. /\ history = <<>> /\ newData' = newData /\ newData.num >= before
        /\ batch = <<>> => newData.num = 0
    BY <2>1 DEF TakeNothing, Inv, Calling
  <2>3. newData.num \in Nat /\ data.num \in Nat /\ before \in Nat
    BY TypedHistory DEF Inv, TypeOK, CallTypeOK, UserTypeOK, Message
  <2>4. IF batch = <<>> THEN data' = data ELSE data' = newData
    BY <2>1, <2>2 DEF TakeNothing, Finish, KeepLatest, userVars
  <2> QED BY <2>2, <2>3, <2>4
<1>2. Spec => [][Drained]_vars
  BY <1>1, Invariant, PTL DEF Spec
<1> QED BY <1>2 DEF DrainsToNewest

\* Latest never goes back to an older message, whatever fails or throws.
THEOREM NeverOlderHolds == Spec => NeverOlder
<1> DEFINE Newer == policy = "Latest" => data'.num >= data.num
<1>1. Inv /\ [Next]_vars => [Newer]_vars
  <2> SUFFICES ASSUME Inv, Next, policy = "Latest" PROVE data'.num >= data.num
    BY DEF Newer
  <2>0. data.num \in Nat
    BY DEF Inv, TypeOK, UserTypeOK, Message
  <2>1. CASE (\E body \in Bodies : Arrive(body)) \/ Begin \/ TakeParsed \/ TakeThrows
    <3>1. data' = data
      BY <2>1 DEF Arrive, Begin, TakeParsed, GoesOn, TakeThrows, userVars
    <3> QED BY <2>0, <3>1
  <2>2. CASE TakeMalformed
    <3>1. data' = data \/ data'.num = Head(history).num
      BY <2>2 DEF TakeMalformed, Finish, KeepLatest, userVars
    <3>2. Head(history).num > data.num /\ Head(history).num \in Nat
      BY <2>2, Consumed DEF TakeMalformed, Inv, TypeOK
    <3> QED BY <2>0, <3>1, <3>2
  <2>3. CASE TakeNothing
    <3>1. data' = data \/ (batch # <<>> /\ data' = newData)
      BY <2>3 DEF TakeNothing, Finish, KeepLatest, userVars
    <3>2. batch # <<>> => newData.num > data.num
      BY <2>3 DEF TakeNothing, Inv, Calling
    <3>3. newData.num \in Nat
      BY DEF Inv, TypeOK, CallTypeOK, Message
    <3> QED BY <2>0, <3>1, <3>2, <3>3
  <2> QED BY <2>1, <2>2, <2>3 DEF Next
<1>2. Spec => [][Newer]_vars
  BY <1>1, Invariant, PTL DEF Spec
<1> QED BY <1>2 DEF NeverOlder

-------------------------------------------------------------------------------
(* How Latest comes to return a message that was not parsed.                *)

\* The user's message is overwritten with one that was not parsed only by a call of
\* Latest on the native track that took a sample and then met a malformed one.
SpoiledByTail ==
  [][data.whole /\ ~data'.whole =>
       /\ policy = "Latest" /\ native
       /\ polling /\ batch # <<>> /\ Head(history).body = "malformed"]_vars

\* No other policy, track, empty queue or exception spoils it, whatever arrives between
\* the takes of a call.
THEOREM SpoiledByTailHolds == Spec => SpoiledByTail
<1>1. Inv /\ [Next]_vars
        => [data.whole /\ ~data'.whole =>
              /\ policy = "Latest" /\ native
              /\ polling /\ batch # <<>> /\ Head(history).body = "malformed"]_vars
  <2> SUFFICES ASSUME Inv, Next, data.whole, ~data'.whole
               PROVE  /\ policy = "Latest" /\ native
                      /\ polling /\ batch # <<>> /\ Head(history).body = "malformed"
    BY DEF vars, userVars
  <2> USE DEF userVars, localVars
  <2>1. Blank.whole /\ (polling => newData.whole)
    BY DEF Inv, Calling, Blank
  <2>2. CASE \E body \in Bodies : Arrive(body)
    BY <2>2 DEF Arrive
  <2>3. CASE Begin \/ TakeThrows
    BY <2>3 DEF Begin, TakeThrows
  <2>4. CASE TakeParsed
    BY <2>4 DEF TakeParsed
  <2>5. CASE TakeNothing
    BY <2>1, <2>5 DEF TakeNothing, Finish, KeepLatest, KeepNone
  <2>6. CASE TakeMalformed
    BY <2>1, <2>6 DEF TakeMalformed, Finish, KeepLatest, KeepNone
  <2> QED BY <2>2, <2>3, <2>4, <2>5, <2>6 DEF Next
<1> QED BY <1>1, Invariant, PTL DEF Spec, SpoiledByTail

\* So every message the user gets was parsed where no subscriber is of that policy on
\* that track, or nobody publishes what does not parse.
THEOREM ReturnsParsedElsewhere ==
  ASSUME "Latest" \notin Policies \/ TRUE \notin Tracks \/ "malformed" \notin Bodies
  PROVE  Spec => []ReturnsParsed
<1>1. Init => ReturnsParsed
  BY DEF Init, ReturnsParsed, Blank
<1>2. Inv /\ ReturnsParsed /\ [Next]_vars
        /\ [data.whole /\ ~data'.whole =>
              /\ policy = "Latest" /\ native
              /\ polling /\ batch # <<>> /\ Head(history).body = "malformed"]_vars
        => ReturnsParsed'
  <2> SUFFICES ASSUME Inv, ReturnsParsed, [Next]_vars,
                      [data.whole /\ ~data'.whole =>
                         /\ policy = "Latest" /\ native
                         /\ polling /\ batch # <<>> /\ Head(history).body = "malformed"]_vars,
                      ~data'.whole
               PROVE  FALSE
    BY DEF ReturnsParsed
  <2>1. data.whole /\ data' # data
    BY DEF ReturnsParsed
  <2>2. policy = "Latest" /\ native /\ Head(history).body = "malformed" /\ ~UNCHANGED vars
    BY <2>1 DEF vars, userVars
  <2>3. policy \in Policies /\ native \in Tracks /\ native \in BOOLEAN
    BY TrackAssumption DEF Inv, TypeOK, UserTypeOK
  <2>4. history # <<>>
    BY <2>1, <2>2
    DEF Next, Arrive, Begin, TakeThrows, TakeParsed, TakeNothing, TakeMalformed, userVars,
        Finish, KeepLatest, ReturnsParsed, Inv, Calling
  <2>5. Head(history) \in Sample
    BY <2>4, PoppedSamples, TypedHistory DEF Inv, TypeOK, HistoryTypeOK
  <2>6. "malformed" \in Bodies
    BY <2>2, <2>5 DEF Sample
  <2> QED BY <2>2, <2>3, <2>6
<1> QED BY <1>1, <1>2, Invariant, SpoiledByTailHolds, PTL DEF Spec, SpoiledByTail
===============================================================================
