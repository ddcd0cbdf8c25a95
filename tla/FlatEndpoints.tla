----------------------------- MODULE FlatEndpoints ----------------------------
(***************************************************************************)
(* The endpoints of the bypass channel: which service a topic name leads to, *)
(* which of its entities an endpoint got from iceoryx2, and what is_valid() *)
(* then says of it (flat_backend.cpp, flat_publisher.hpp,                  *)
(* flat_subscription.hpp, enterprise_node.hpp).                            *)
(*                                                                         *)
(* Every creation in iceoryx2 may fail on its own, and no failure throws.  *)
(* The endpoints of one EnterpriseNode are modelled; construction is one   *)
(* step here, and FlatChannel has what happens in the middle of it.        *)
(***************************************************************************)
EXTENDS Naturals, Sequences, SequencesExt

CONSTANTS Characters, Slash, Underscore,  \* '/' and '_' are two of them
          Topics,             \* names given to create_flat_*: sequences of characters
          Publishers, Subscriptions,
          PushSubscriptions,  \* those in CallbackPush mode
          QueueDepth, MaxCalls,
          NoTopic             \* the endpoint has not been created

ASSUME PushAssumption == PushSubscriptions \subseteq Subscriptions
ASSUME TopicAssumption == Topics \subseteq Seq(Characters)
ASSUME NoTopicAssumption == NoTopic \notin Topics
ASSUME SizeAssumption == QueueDepth \in Nat \ {0} /\ MaxCalls \in Nat
ASSUME KindAssumption == Publishers \intersect Subscriptions = {}

VARIABLES
  node,       \* node_ of the backend: "none" before the first flat endpoint
  waitSet,    \* waitset_ has a value
  topic,      \* topic[e]: the name endpoint e was created with, or NoTopic
  publisher,  \* publishers whose publisher_ has a value
  notifier,   \* ... whose notifier_ has
  subscriber, \* subscriptions whose subscriber_ has a value
  listener,   \* ... whose listener_ has
  attached,   \* ... whose listener is in the WaitSet and the map
  queue,      \* queue[s]: the publishers of the samples waiting, oldest first
  event,      \* event[s]: the listener of s has an event pending
  calls,      \* calls[p]: calls of publish()
  fails       \* fails[p]: publish_fail_count()

endpointVars == <<node, waitSet, topic, publisher, notifier, subscriber, listener, attached>>
vars == <<endpointVars, queue, event, calls, fails>>

-------------------------------------------------------------------------------
(* Names: both endpoints drop one leading slash and turn the others into   *)
(* underscores; FlatSubscription puts the slash there first.               *)

Normalize(t) == IF t = <<>> \/ t[1] # Slash THEN <<Slash>> \o t ELSE t

Bare(t) == IF t # <<>> /\ t[1] = Slash THEN Tail(t) ELSE t

CleanTopic(t) ==
  [i \in 1..Len(Bare(t)) |-> IF Bare(t)[i] = Slash THEN Underscore ELSE Bare(t)[i]]

\* Slip: the backend relies on the wrapper to have put the slash there.
BugPublisherService(t) == [i \in 1..Len(t) |-> IF t[i] = Slash THEN Underscore ELSE t[i]]

\* FlatPublisher hands the name on as it is; its own copy gets the slash.
PublisherService(t) == CleanTopic(t)

SubscriberService(t) == CleanTopic(Normalize(t))

Meet(p, s) ==
  /\ topic[p] # NoTopic /\ topic[s] # NoTopic
  /\ PublisherService(topic[p]) = SubscriberService(topic[s])

-------------------------------------------------------------------------------
Init ==
  /\ node = "none" /\ waitSet = FALSE
  /\ topic = [e \in Publishers \union Subscriptions |-> NoTopic]
  /\ publisher = {} /\ notifier = {} /\ subscriber = {} /\ listener = {} /\ attached = {}
  /\ queue = [s \in Subscriptions |-> <<>>]
  /\ event = [s \in Subscriptions |-> FALSE]
  /\ calls = [p \in Publishers |-> 0]
  /\ fails = [p \in Publishers |-> 0]

\* The backend is made with the first flat endpoint and kept, whatever it got.
EnsureBackend ==
  IF node = "none" THEN node' \in {"up", "failed"} /\ waitSet' \in BOOLEAN
                   ELSE UNCHANGED <<node, waitSet>>

\* Slip: the check that there is a node is gone.
BugMay(set, e) == {set, set \union {e}}

\* What a creation leaves of the set of those who have the entity.
May(set, e) == IF node' = "up" THEN {set, set \union {e}} ELSE {set}

CreatePublisher(p, t) ==
  /\ topic[p] = NoTopic
  /\ topic' = [topic EXCEPT ![p] = t]
  /\ EnsureBackend
  /\ publisher' \in May(publisher, p) /\ notifier' \in May(notifier, p)
  /\ UNCHANGED <<subscriber, listener, attached, queue, event, calls, fails>>

\* With activate(): the listener is attached if there is a WaitSet that takes it.
CreateSubscription(s, t) ==
  /\ topic[s] = NoTopic
  /\ topic' = [topic EXCEPT ![s] = t]
  /\ EnsureBackend
  /\ subscriber' \in May(subscriber, s) /\ listener' \in May(listener, s)
  /\ attached' \in IF waitSet' /\ s \in listener' THEN {attached, attached \union {s}}
                                                 ELSE {attached}
  /\ UNCHANGED <<publisher, notifier, queue, event, calls, fails>>

-------------------------------------------------------------------------------
CanPublish(p) == topic[p] # NoTopic /\ calls[p] < MaxCalls

\* No publisher_: publish() throws, and counts nothing.
PublishThrows(p) ==
  /\ CanPublish(p) /\ p \notin publisher
  /\ calls' = [calls EXCEPT ![p] = @ + 1]
  /\ UNCHANGED <<endpointVars, queue, event, fails>>

PublishFails(p) ==
  /\ CanPublish(p) /\ p \in publisher
  /\ calls' = [calls EXCEPT ![p] = @ + 1]
  /\ fails' = [fails EXCEPT ![p] = @ + 1]
  /\ UNCHANGED <<endpointVars, queue, event>>

\* Sent, and notified if there is a notifier_.
Publish(p) ==
  /\ CanPublish(p) /\ p \in publisher
  /\ calls' = [calls EXCEPT ![p] = @ + 1]
  /\ queue' = [s \in Subscriptions |->
                 IF s \in subscriber /\ Meet(p, s)
                 THEN Append(IF Len(queue[s]) = QueueDepth THEN Tail(queue[s]) ELSE queue[s], p)
                 ELSE queue[s]]
  /\ event' = [s \in Subscriptions |->
                 event[s] \/ (p \in notifier /\ s \in listener /\ Meet(p, s))]
  /\ UNCHANGED <<endpointVars, fails>>

\* The poll thread's dispatch of an attached subscription.
Dispatch(s) ==
  /\ s \in attached /\ event[s]
  /\ event' = [event EXCEPT ![s] = FALSE]
  /\ IF s \in PushSubscriptions
     THEN queue' = [queue EXCEPT ![s] = <<>>] ELSE UNCHANGED queue
  /\ UNCHANGED <<endpointVars, calls, fails>>

\* take() of the user of a WaitSetPull subscription.
Take(s) ==
  /\ s \in Subscriptions \ PushSubscriptions /\ queue[s] # <<>>
  /\ queue' = [queue EXCEPT ![s] = Tail(@)]
  /\ UNCHANGED <<endpointVars, event, calls, fails>>

Next ==
  \/ \E p \in Publishers : \/ \E t \in Topics : CreatePublisher(p, t)
                           \/ PublishThrows(p) \/ PublishFails(p) \/ Publish(p)
  \/ \E s \in Subscriptions : \/ \E t \in Topics : CreateSubscription(s, t)
                              \/ Dispatch(s) \/ Take(s)

Spec == Init /\ [][Next]_vars

-------------------------------------------------------------------------------
\* is_valid() of the two endpoints.
ValidPublisher(p) == p \in publisher /\ p \in notifier
ValidSubscription(s) == s \in subscriber /\ s \in listener

SameTopic(p, s) ==
  /\ topic[p] # NoTopic /\ topic[s] # NoTopic
  /\ Normalize(topic[p]) = Normalize(topic[s])

\* Endpoints have entities only of a node that exists, a subscription is attached
\* by its listener, and a queue holds samples of its own service.
TypeOK ==
  /\ node \in {"none", "up", "failed"} /\ waitSet \in BOOLEAN
  /\ topic \in [Publishers \union Subscriptions -> Topics \union {NoTopic}]
  /\ publisher \union notifier \subseteq {p \in Publishers : topic[p] # NoTopic}
  /\ subscriber \union listener \subseteq {s \in Subscriptions : topic[s] # NoTopic}
  /\ attached \subseteq listener
  /\ node # "up" => publisher \union notifier \union subscriber \union listener = {}
  /\ queue \in [Subscriptions -> Seq(Publishers)]
  /\ \A s \in Subscriptions :
       /\ Len(queue[s]) <= QueueDepth
       /\ \A i \in 1..Len(queue[s]) : Meet(queue[s][i], s) /\ s \in subscriber
  /\ event \in [Subscriptions -> BOOLEAN]
  /\ calls \in [Publishers -> 0..MaxCalls] /\ fails \in [Publishers -> 0..MaxCalls]
  /\ \A p \in Publishers : fails[p] <= calls[p]

\* A publish of a valid publisher that does not fail reaches every valid
\* subscription of its topic, queued and announced, whether either of them wrote
\* the topic with its leading slash.
ValidEndpointsMeet ==
  [][\A p \in Publishers, s \in Subscriptions :
       calls'[p] # calls[p] /\ fails'[p] = fails[p] /\ SameTopic(p, s)
         /\ ValidPublisher(p) /\ ValidSubscription(s)
       => event'[s] /\ queue'[s] # <<>> /\ Last(queue'[s]) = p]_vars
===============================================================================
