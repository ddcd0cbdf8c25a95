--------------------------- MODULE LatestWinsProofs ----------------------------
(***************************************************************************)
(* What LatestWins promises, for every number of publishers and            *)
(* subscriptions and without a bound on the calls.  The detailed modules   *)
(* are proved to implement it, so this holds of each of them.              *)
(***************************************************************************)
EXTENDS LatestWins, TLAPS

TypeOK ==
  /\ calls \in [Publishers -> Nat]
  /\ seen \in [Subscriptions -> [Publishers -> Nat]]
  /\ got \in [Subscriptions -> [Publishers -> Nat]]

\* At most once: a subscription was handed no more samples of a publisher than
\* there are numbers up to the newest it got, and none that was not sent.
AtMostOnce ==
  \A s \in Subscriptions, p \in Publishers :
    got[s][p] <= seen[s][p] /\ seen[s][p] <= calls[p]

\* By how many publish calls of p subscription s is behind.
Behind(s, p) == calls[p] - seen[s][p]

\* A delivery hands over a newer sample and catches up; without one a subscription
\* stays where it was.  What was passed over never comes back.
NeverBack ==
  [][\A s \in Subscriptions, p \in Publishers :
       IF got'[s][p] = got[s][p]
       THEN seen'[s][p] = seen[s][p] /\ Behind(s, p)' >= Behind(s, p)
       ELSE /\ seen[s][p] < seen'[s][p] /\ got'[s][p] = got[s][p] + 1
            /\ Behind(s, p)' < Behind(s, p)]_vars

\* Numbers stay natural, and the three counts of a connection stay in order.
LEMMA Inductive == TypeOK /\ AtMostOnce /\ [Next]_vars => TypeOK' /\ AtMostOnce'
<1> SUFFICES ASSUME TypeOK, AtMostOnce, [Next]_vars PROVE TypeOK' /\ AtMostOnce'
  OBVIOUS
<1> USE DEF TypeOK, AtMostOnce
<1>1. ASSUME NEW p \in Publishers, Publish(p) PROVE TypeOK' /\ AtMostOnce'
  BY <1>1 DEF Publish
<1>2. ASSUME NEW s \in Subscriptions, NEW p \in Publishers, Deliver(s, p)
      PROVE  TypeOK' /\ AtMostOnce'
  <2>1. PICK n \in (seen[s][p] + 1)..calls[p] : seen' = [seen EXCEPT ![s][p] = n]
    BY <1>2 DEF Deliver
  <2>2. /\ got' = [got EXCEPT ![s][p] = got[s][p] + 1] /\ calls' = calls
        /\ n \in Nat /\ seen[s][p] < n /\ n <= calls[p]
    BY <1>2, <2>1 DEF Deliver
  <2> QED BY <2>1, <2>2
<1>3. CASE UNCHANGED vars
  BY <1>3 DEF vars
<1> QED BY <1>1, <1>2, <1>3 DEF Next

\* At most once, and only what was sent: it follows from the promise that each
\* sample is newer than the one before.
THEOREM AtMostOnceHolds == Spec => [](TypeOK /\ AtMostOnce)
<1>1. Init => TypeOK /\ AtMostOnce
  BY DEF Init, TypeOK, AtMostOnce
<1> QED BY <1>1, Inductive, PTL DEF Spec

\* No delivery takes a subscription back to a sample that was passed over.
THEOREM NeverBackHolds == Spec => NeverBack
<1> DEFINE Ahead ==
      \A s \in Subscriptions, p \in Publishers :
        IF got'[s][p] = got[s][p]
        THEN seen'[s][p] = seen[s][p] /\ Behind(s, p)' >= Behind(s, p)
        ELSE /\ seen[s][p] < seen'[s][p] /\ got'[s][p] = got[s][p] + 1
             /\ Behind(s, p)' < Behind(s, p)
<1>1. TypeOK /\ AtMostOnce /\ [Next]_vars => [Ahead]_vars
  <2> SUFFICES ASSUME TypeOK, AtMostOnce, Next PROVE Ahead
    OBVIOUS
  <2> USE DEF TypeOK, AtMostOnce, Behind
  <2>1. ASSUME NEW p \in Publishers, Publish(p) PROVE Ahead
    BY <2>1 DEF Publish
  <2>2. ASSUME NEW s \in Subscriptions, NEW p \in Publishers, Deliver(s, p) PROVE Ahead
    <3>1. PICK n \in (seen[s][p] + 1)..calls[p] : seen' = [seen EXCEPT ![s][p] = n]
      BY <2>2 DEF Deliver
    <3>2. /\ got' = [got EXCEPT ![s][p] = got[s][p] + 1] /\ calls' = calls
          /\ n \in Nat /\ seen[s][p] < n /\ n <= calls[p]
      BY <2>2, <3>1 DEF Deliver
    <3> QED BY <3>1, <3>2
  <2> QED BY <2>1, <2>2 DEF Next
<1>2. Spec => [](TypeOK /\ AtMostOnce)
  BY AtMostOnceHolds
<1> HIDE DEF Ahead
<1>3. Spec => [][Ahead]_vars
  BY <1>1, <1>2, PTL DEF Spec
<1> QED BY <1>3 DEF NeverBack, Ahead
===============================================================================
