----------------------------- MODULE ProtoRouting -----------------------------
(***************************************************************************)
(* The proto channel inside one process: which way a Protobuf message      *)
(* takes from a ProtoPublisher to a ProtoSubscription                      *)
(* (proto_publisher.hpp, enterprise_node.hpp).                             *)
(*                                                                         *)
(*  - Track A: the message's bytes, serialized here, as a SerializedMessage *)
(*    of the middleware, parsed by the subscription's callback; only when  *)
(*    the middleware speaks Protobuf;                                      *)
(*  - Track B: the typed publish and callback of rclcpp, with its          *)
(*    TypeAdapter, through the middleware or within the process.           *)
(*                                                                         *)
(* rclcpp delivers within the process between endpoints that both have     *)
(* that enabled, beside the middleware; its part is modelled from how the  *)
(* code uses it.  publish(unique_ptr) looks at the number of such          *)
(* subscriptions first and acts on it later.  Every message type has a     *)
(* TypeAdapter (a static_assert of create_proto_subscription).             *)
(***************************************************************************)
EXTENDS Naturals, Sequences

CONSTANTS Publishers, Subscriptions,
          Pollers,   \* subscriptions that may be those of a ProtoPollingSubscriber
          Depth,     \* the depth of the QoS, keep-last
          MaxCalls,  \* bound on the publish calls of one publisher
          NoMessage

ASSUME PollersAssumption == Pollers \subseteq Subscriptions
ASSUME DepthAssumption == Depth \in Nat \ {0}
ASSUME BoundAssumption == MaxCalls \in Nat
ASSUME NoMessageAssumption == NoMessage \notin Publishers \X Nat

VARIABLES
  native,   \* rmw_get_serialization_format() is "protobuf"
  polled,   \* subscriptions of a ProtoPollingSubscriber: no executor serves their group
  pubIntra, \* publishers for which rclcpp has intra-process delivery enabled
  track,    \* track[s]: "A" or "B"; "none" before the subscription, "gone" after it
  subIntra, \* subscriptions for which rclcpp has intra-process delivery enabled
  inbox,    \* inbox[s]: rclcpp's intra-process buffer
  wire,     \* wire[s]: the middleware's queue
  pc,       \* pc[p]: "idle", or what publish(unique_ptr) has decided on
  calls,    \* calls[p]: publish calls so far; the n-th carries number n
  seen,     \* seen[s][p]: number of the last message of p the callback of s got
  got,      \* got[s][p]: how many messages of p the callback of s got
  due       \* (history) due[s]: the newest message a publish sent while s was there

endVars == <<native, polled, pubIntra, track, subIntra>>
msgVars == <<inbox, wire, due>>
vars == <<endVars, msgVars, pc, calls, seen, got>>

Settings == {"Enable", "Disable", "NodeDefault"}
Present == {s \in Subscriptions : track[s] \in {"A", "B"}}
InProcess == Present \intersect subIntra

Init ==
  /\ native \in BOOLEAN /\ pubIntra \in SUBSET Publishers /\ polled \in SUBSET Pollers
  /\ track = [s \in Subscriptions |-> "none"] /\ subIntra = {}
  /\ inbox = [s \in Subscriptions |-> <<>>]
  /\ wire = [s \in Subscriptions |-> <<>>]
  /\ pc = [p \in Publishers |-> "idle"]
  /\ calls = [p \in Publishers |-> 0]
  /\ seen = [s \in Subscriptions |-> [p \in Publishers |-> 0]]
  /\ got = [s \in Subscriptions |-> [p \in Publishers |-> 0]]
  /\ due = [s \in Subscriptions |-> NoMessage]

-------------------------------------------------------------------------------
(* create_proto_subscription                                               *)

\* rclcpp's own reading of the option.
Resolved(setting, default) == setting = "Enable" \/ (setting = "NodeDefault" /\ default)

\* Slip: a node's default is forgotten.
BugUsesIntra(setting, default) == setting = "Enable"

UsesIntra(setting, default) == setting = "Enable" \/ (setting = "NodeDefault" /\ default)

\* Slip: the format of the middleware is not looked at.
BugTrack(intra) == IF intra THEN "B" ELSE "A"

Track(intra) == IF native /\ ~intra THEN "A" ELSE "B"

\* setting is the subscription's option, default that of its node; the constructor
\* of ProtoPollingSubscriber leaves the option as it is.
Create(s, setting, default) ==
  /\ track[s] = "none" /\ (s \in polled => setting = "NodeDefault")
  /\ track' = [track EXCEPT ![s] = Track(UsesIntra(setting, default))]
  /\ subIntra' = IF Resolved(setting, default) THEN subIntra \union {s} ELSE subIntra
  /\ UNCHANGED <<native, polled, pubIntra, msgVars, pc, calls, seen, got>>

Drop(s) ==
  /\ s \in Present
  /\ track' = [track EXCEPT ![s] = "gone"]
  /\ inbox' = [inbox EXCEPT ![s] = <<>>] /\ wire' = [wire EXCEPT ![s] = <<>>]
  /\ due' = [due EXCEPT ![s] = NoMessage]
  /\ UNCHANGED <<native, polled, pubIntra, subIntra, pc, calls, seen, got>>

-------------------------------------------------------------------------------
(* rclcpp's publishers                                                     *)

Push(q, message) == Append(IF Len(q) = Depth THEN Tail(q) ELSE q, message)

PushAll(queues, to, message) ==
  [s \in Subscriptions |-> IF s \in to THEN Push(queues[s], message) ELSE queues[s]]

\* The copy of a message that came within the process: rclcpp drops it.
Copy(s, message) == s \in subIntra /\ message[1] \in pubIntra

\* What comes within the process stays in a polled subscription's buffer, and its
\* copy may take the place of a message in the queue: nothing is due after it.
Sent(p, n) ==
  due' = [s \in Subscriptions |->
            IF s \notin Present \/ (s \in polled /\ Copy(s, <<p, n>>)) THEN NoMessage
            ELSE <<p, n>>]

\* publish of a message: within the process, and through the middleware when it
\* has more subscriptions than those.
SendTyped(p, n) ==
  /\ Sent(p, n)
  /\ IF p \in pubIntra
     THEN /\ inbox' = PushAll(inbox, InProcess, <<p, n>>)
          /\ wire' = IF Present = InProcess THEN wire ELSE PushAll(wire, Present, <<p, n>>)
     ELSE wire' = PushAll(wire, Present, <<p, n>>) /\ UNCHANGED inbox

\* publish of a SerializedMessage: when intra-process delivery is enabled, which has no
\* place for bytes, an exception, and the message reaches nobody.
SendBytes(p, n) ==
  IF p \in pubIntra
  THEN UNCHANGED msgVars
  ELSE /\ Sent(p, n)
       /\ wire' = PushAll(wire, Present, <<p, n>>) /\ UNCHANGED inbox

-------------------------------------------------------------------------------
(* ProtoPublisher                                                          *)

CanPublish(p) == calls[p] < MaxCalls /\ pc[p] = "idle"

\* SerializeToArray fails: the message is logged and dropped.
Unserializable == UNCHANGED msgVars

\* Slip: Track A runs on into Track B.
BugPublishConst(p) ==
  /\ CanPublish(p) /\ calls' = [calls EXCEPT ![p] = @ + 1]
  /\ LET n == calls[p] + 1
     IN IF native /\ p \notin pubIntra
        THEN /\ Sent(p, n) /\ UNCHANGED inbox
             /\ wire' = PushAll(PushAll(wire, Present, <<p, n>>), Present, <<p, n>>)
        ELSE SendTyped(p, n)
  /\ UNCHANGED <<endVars, pc, seen, got>>

\* publish(const ProtoMsgT &)
PublishConst(p) ==
  /\ CanPublish(p) /\ calls' = [calls EXCEPT ![p] = @ + 1]
  /\ LET n == calls[p] + 1
     IN IF native
        THEN SendBytes(p, n) \/ Unserializable
        ELSE SendTyped(p, n)
  /\ UNCHANGED <<endVars, pc, seen, got>>

\* publish(std::unique_ptr<ProtoMsgT>) first asks for the number of subscriptions
\* in the process; rclcpp answers 0 for a publisher without such delivery.
Count(p) ==
  /\ CanPublish(p) /\ calls' = [calls EXCEPT ![p] = @ + 1]
  /\ LET counted == IF p \in pubIntra THEN InProcess ELSE {}
     IN pc' = [pc EXCEPT ![p] = IF ~native \/ counted # {} THEN "typed" ELSE "bytes"]
  /\ UNCHANGED <<endVars, msgVars, seen, got>>

\* ... and then publishes in the way that number told it.
PublishUnique(p) ==
  /\ \/ pc[p] = "typed" /\ SendTyped(p, calls[p])
     \/ pc[p] = "bytes" /\ (SendBytes(p, calls[p]) \/ Unserializable)
  /\ pc' = [pc EXCEPT ![p] = "idle"]
  /\ UNCHANGED <<endVars, calls, seen, got>>

-------------------------------------------------------------------------------
(* Reception, in whatever order the executor serves buffers and queues.    *)

\* Bytes that are no Protobuf, from a process without its type support; bounded to
\* the room the queue has, so that due stays what this process sent last.
Foreign(s) ==
  /\ s \in Present /\ Len(wire[s]) < Depth
  /\ wire' = [wire EXCEPT ![s] = Append(@, NoMessage)]
  /\ UNCHANGED <<endVars, inbox, due, pc, calls, seen, got>>

Callback(s, message) ==
  /\ seen' = [seen EXCEPT ![s][message[1]] = message[2]]
  /\ got' = [got EXCEPT ![s][message[1]] = @ + 1]

\* rclcpp cannot give a message of the process to a callback that takes bytes.
TakeIntra(s) ==
  /\ s \notin polled /\ inbox[s] # <<>>
  /\ inbox' = [inbox EXCEPT ![s] = Tail(@)]
  /\ IF track[s] = "B" THEN Callback(s, Head(inbox[s])) ELSE UNCHANGED <<seen, got>>
  /\ UNCHANGED <<endVars, wire, due, pc, calls>>

\* Track A's callback parses the bytes and only logs when it cannot; on Track B
\* rclcpp does.
TakeWire(s) ==
  /\ s \notin polled /\ wire[s] # <<>>
  /\ wire' = [wire EXCEPT ![s] = Tail(@)]
  /\ IF Head(wire[s]) = NoMessage \/ Copy(s, Head(wire[s]))
     THEN UNCHANGED <<seen, got>>
     ELSE Callback(s, Head(wire[s]))
  /\ UNCHANGED <<endVars, inbox, due, pc, calls>>

\* take() of the polling loop: false on bytes that are no Protobuf and on a copy,
\* which ends the loop (ProtoPolling) and leaves the rest to the next one.
TakePolled(s) ==
  /\ s \in polled /\ wire[s] # <<>>
  /\ wire' = [wire EXCEPT ![s] = Tail(@)]
  /\ IF Head(wire[s]) = NoMessage \/ Copy(s, Head(wire[s]))
     THEN UNCHANGED <<seen, got>>
     ELSE Callback(s, Head(wire[s]))
  /\ UNCHANGED <<endVars, inbox, due, pc, calls>>

Next ==
  \/ \E s \in Subscriptions :
       \/ \E setting \in Settings, default \in BOOLEAN : Create(s, setting, default)
       \/ Drop(s) \/ Foreign(s) \/ TakeIntra(s) \/ TakeWire(s) \/ TakePolled(s)
  \/ \E p \in Publishers : PublishConst(p) \/ Count(p) \/ PublishUnique(p)

Spec == Init /\ [][Next]_vars

-------------------------------------------------------------------------------
Message == Publishers \X (1..MaxCalls)

EndsTypeOK ==
  /\ native \in BOOLEAN /\ polled \subseteq Pollers
  /\ pubIntra \subseteq Publishers
  /\ track \in [Subscriptions -> {"none", "A", "B", "gone"}]
  /\ subIntra \subseteq {s \in Subscriptions : track[s] # "none"}
  /\ \A s \in Subscriptions : track[s] = "A" => native /\ s \notin subIntra

CallsTypeOK ==
  /\ pc \in [Publishers -> {"idle", "typed", "bytes"}]
  /\ calls \in [Publishers -> 0..MaxCalls]
  /\ \A p \in Publishers : pc[p] # "idle" => calls[p] > 0
  /\ seen \in [Subscriptions -> [Publishers -> 0..MaxCalls]]
  /\ got \in [Subscriptions -> [Publishers -> Nat]]

QueueTypeOK ==
  /\ inbox \in [Subscriptions -> Seq(pubIntra \X (1..MaxCalls))]
  /\ wire \in [Subscriptions -> Seq(Message \union {NoMessage})]
  /\ due \in [Subscriptions -> Message \union {NoMessage}]
  /\ \A s \in Subscriptions :
       /\ Len(inbox[s]) <= Depth /\ Len(wire[s]) <= Depth
       /\ s \notin Present => inbox[s] = <<>> /\ wire[s] = <<>> /\ due[s] = NoMessage
       /\ inbox[s] # <<>> => s \in subIntra

\* Nothing waits for a subscription that is not there, nothing in a buffer of the
\* process is from a publisher without that delivery, no queue exceeds its depth,
\* and only a Protobuf middleware carries bytes to a callback that parses them.
TypeOK == EndsTypeOK /\ CallsTypeOK /\ QueueTypeOK

\* The newest message sent while a subscription is there reaches its callback,
\* whichever of the ways it takes and however many subscriptions came or went
\* between the count of publish(unique_ptr) and its publish: no combination of
\* tracks and intra-process settings leaves a subscription out, but a polled one of
\* what comes within the process.
NewestReaches ==
  \A s \in Present : due[s] # NoMessage =>
    \/ seen[s][due[s][1]] >= due[s][2]
    \/ \E i \in DOMAIN inbox[s] : inbox[s][i] = due[s] /\ track[s] = "B" /\ s \notin polled
    \/ \E i \in DOMAIN wire[s] : wire[s][i] = due[s] /\ ~Copy(s, due[s])

-------------------------------------------------------------------------------
\* The proto channel keeps the promise of the flat one: in order, at most once,
\* also for a subscription that a message reaches by two ways.
LW == INSTANCE LatestWins
ImplementsLatestWins == LW!Spec
===============================================================================
