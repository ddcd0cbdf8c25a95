----------------------------- MODULE ProtoPolling -----------------------------
(***************************************************************************)
(* ProtoPollingSubscriber and its three policies (Latest, Newest, All) over *)
(* ProtoSubscription::take (proto_polling_subscriber.hpp,                  *)
(* proto_subscription.hpp).                                                *)
(*                                                                         *)
(* One thread calls take_data(); publishers fill the subscription's        *)
(* history between two takes of the same call.  The history is the         *)
(* middleware's (keep last), and so are the deserialization and the message *)
(* info of the fallback track: they are modelled from how take uses them.  *)
(***************************************************************************)
EXTENDS Naturals, SequencesExt

CONSTANTS Policies,    \* the PollingPolicy classes a subscriber may be made of
          Tracks,      \* TRUE for Track A: the middleware speaks Protobuf
          Depth,       \* history depth of the QoS, 1 by default
          Bodies,      \* what a sample can be to ParseFromArray
          MaxSamples   \* bound on the samples published

ASSUME PolicyAssumption == Policies \subseteq {"Latest", "Newest", "All"}
ASSUME TrackAssumption == Tracks \subseteq BOOLEAN
ASSUME DepthAssumption == Depth \in Nat \ {0}
\* "malformed": bytes of another type or encoding, such as the CDR a publisher
\* falls back to when its type has no Protobuf type support.
ASSUME BodyAssumption == Bodies \subseteq {"valid", "malformed"}
ASSUME BoundAssumption == MaxSamples \in Nat

VARIABLES
  policy,     \* the template argument of the subscriber
  native,     \* is_protobuf_native_ of its ProtoSubscription
  sent,       \* samples published; the n-th has number and source timestamp n
  history,    \* what the middleware holds for the subscription, oldest first
  polling,    \* a take_data() is under way
  before,     \* the newest sample in the history when it began, or 0
  newData,    \* local new_data: whose content it has, and whether it was parsed
  info,       \* local message_info: the source timestamp it carries
  batch,      \* numbers of the samples for which take() returned true
  data,       \* what the user holds: the last message take_data() returned
  timestamp   \* timestamp_, 0 for nullopt

localVars == <<polling, before, newData, info, batch>>
userVars == <<data, timestamp>>
subscriber == <<policy, native>>
vars == <<subscriber, sent, history, localVars, userVars>>

\* A message object: a default-constructed one is whole.
Blank == [num |-> 0, whole |-> TRUE]

Init ==
  /\ policy \in Policies /\ native \in Tracks
  /\ sent = 0 /\ history = <<>>
  /\ polling = FALSE /\ before = 0 /\ newData = Blank /\ info = 0 /\ batch = <<>>
  /\ data = Blank /\ timestamp = 0

-------------------------------------------------------------------------------
\* Slip: a history one sample too deep.
BugArrive(body) ==
  /\ sent < MaxSamples
  /\ sent' = sent + 1
  /\ LET kept == IF Len(history) > Depth THEN Tail(history) ELSE history
     IN history' = Append(kept, [num |-> sent + 1, body |-> body])
  /\ UNCHANGED <<subscriber, localVars, userVars>>

\* A sample arrives; a full history drops its oldest.
Arrive(body) ==
  /\ sent < MaxSamples
  /\ sent' = sent + 1
  /\ LET kept == IF Len(history) = Depth THEN Tail(history) ELSE history
     IN history' = Append(kept, [num |-> sent + 1, body |-> body])
  /\ UNCHANGED <<subscriber, localVars, userVars>>

\* take_data() up to its first take(): fresh locals.
Begin ==
  /\ ~polling /\ polling' = TRUE
  /\ before' = IF history = <<>> THEN 0 ELSE Last(history).num
  /\ newData' = Blank /\ info' = 0 /\ batch' = <<>>
  /\ UNCHANGED <<subscriber, sent, history, userVars>>

-------------------------------------------------------------------------------
(* The end of take_data(), with the values its locals have then.           *)

\* Slip: the cached message goes when a call finds nothing.
BugKeepLatest(message, stamp) ==
  /\ data' = IF batch = <<>> THEN Blank ELSE message
  /\ timestamp' = IF batch = <<>> THEN timestamp ELSE stamp

\* Latest: if (got_any), the message and its timestamp are cached.
KeepLatest(message, stamp) ==
  IF batch = <<>> THEN UNCHANGED userVars
                  ELSE data' = message /\ timestamp' = stamp

\* Slip: the timestamp of an earlier call stays when nothing was taken.
BugKeepNone == data' = Blank /\ UNCHANGED timestamp

\* Newest and All cache nothing: no sample, no timestamp.
KeepNone == data' = Blank /\ timestamp' = 0

\* take() has returned false, with these values in new_data and message_info.  A
\* batch of All ends with the last datum it pushed, a message of its own.
Finish(message, stamp) ==
  /\ polling' = FALSE
  /\ CASE policy = "Latest" -> KeepLatest(message, stamp)
       [] policy = "All" /\ batch # <<>> ->
            data' = [num |-> Last(batch), whole |-> TRUE] /\ UNCHANGED timestamp
       [] OTHER -> KeepNone

-------------------------------------------------------------------------------
\* Slip: one take() per call whatever the policy.
BugGoesOn == FALSE

\* The loops of Latest and All go on after a successful take().
GoesOn == policy # "Newest"

\* take() returns true.  Newest returns the sample; All stamps each one at once.
TakeParsed ==
  /\ polling /\ history # <<>> /\ Head(history).body = "valid"
  /\ history' = Tail(history)
  /\ LET num == Head(history).num
         message == [num |-> num, whole |-> TRUE]
     IN /\ newData' = message /\ info' = num /\ batch' = Append(batch, num)
        /\ polling' = GoesOn
        /\ data' = IF GoesOn THEN data ELSE message
        /\ timestamp' = IF policy = "Latest" /\ GoesOn THEN timestamp ELSE num
  /\ UNCHANGED <<subscriber, sent, before>>

\* Track A: take() has consumed the sample, cleared new_data and left in it what
\* could be parsed; it returns false.
TakeMalformed ==
  /\ polling /\ native /\ history # <<>> /\ Head(history).body = "malformed"
  /\ history' = Tail(history)
  /\ newData' = [num |-> Head(history).num, whole |-> FALSE]
  /\ info' = Head(history).num
  /\ Finish(newData', info')
  /\ UNCHANGED <<subscriber, sent, before, batch>>

\* Track B: the middleware cannot deserialize, rclcpp throws and the locals go.
TakeThrows ==
  /\ polling /\ ~native /\ history # <<>> /\ Head(history).body = "malformed"
  /\ history' = Tail(history)
  /\ polling' = FALSE
  /\ UNCHANGED <<subscriber, sent, before, newData, info, batch, userVars>>

\* Nothing to take: rcl has reset message_info before it looked for a sample.
TakeNothing ==
  /\ polling /\ history = <<>>
  /\ info' = 0
  /\ Finish(newData, info')
  /\ UNCHANGED <<subscriber, sent, history, before, newData, batch>>

Next ==
  \/ \E body \in Bodies : Arrive(body)
  \/ Begin \/ TakeParsed \/ TakeMalformed \/ TakeThrows \/ TakeNothing

Spec == Init /\ [][Next]_vars

-------------------------------------------------------------------------------
Sample == [num : Nat, body : Bodies]
Message == [num : Nat, whole : BOOLEAN]

HistoryTypeOK ==
  /\ sent \in 0..MaxSamples
  /\ history \in Seq(Sample) /\ Len(history) <= Depth
  /\ \A i \in 1..Len(history) : history[i].num \in 1..sent

CallTypeOK ==
  /\ polling \in BOOLEAN /\ before \in 0..sent /\ info \in 0..sent
  /\ newData \in Message /\ newData.num <= sent
  /\ batch \in Seq(Nat) /\ Len(batch) <= sent

UserTypeOK ==
  /\ policy \in Policies /\ native \in Tracks
  /\ data \in Message /\ data.num <= sent /\ timestamp \in 0..sent

\* The history never outgrows its depth and a call never takes more than was sent.
TypeOK == HistoryTypeOK /\ CallTypeOK /\ UserTypeOK

\* Latest "consumes every queued sample and keeps only the newest": whatever
\* arrives while it drains, a call that no malformed sample ends returns a sample
\* no older than the newest one that was queued when it began.
DrainsToNewest ==
  [][policy = "Latest" /\ polling /\ ~polling'
       /\ (history = <<>> \/ Head(history).body = "valid")
       => data'.num >= before]_vars

\* The message Latest caches is never lost nor replaced by an older one, through
\* failed parses and exceptions too.
NeverOlder == [][policy = "Latest" => data'.num >= data.num]_vars

\* take() returns "true if a message was successfully taken and parsed", and only
\* such messages reach the user of take_data().
ReturnsParsed == data.whole

\* Between two calls last_taken_data_timestamp() is the timestamp of the message
\* the last call returned, and nothing when it returned none.  Latest is left out
\* (its message_info is that of the failing take), and so is All on the fallback
\* track, where an exception leaves the timestamp of a batch nobody got.
StampMatches ==
  ~polling /\ (policy = "Newest" \/ (policy = "All" /\ native)) => timestamp = data.num
===============================================================================
