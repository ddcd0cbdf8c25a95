------------------------------ MODULE LatestWins ------------------------------
(***************************************************************************)
(* What the bypass ("flat") channel promises its users.  enterprise_node   *)
(* calls it "best-effort / latest-wins" when it warns about QoS: a sample  *)
(* may be dropped, but the samples one subscription gets from one          *)
(* publisher are ones that publisher sent, each at most once, in the order *)
(* of the publish calls.  Nothing is promised between publishers.          *)
(* ProtoRouting shows that the proto channel keeps the same promise.       *)
(***************************************************************************)
EXTENDS Naturals

CONSTANTS Publishers, Subscriptions

VARIABLES calls,  \* calls[p]: publish calls of p so far; call n is sample n
          seen,   \* seen[s][p]: the last sample of p handed to s, 0 for none
          got     \* got[s][p]: how many samples of p were handed to s

vars == <<calls, seen, got>>

Init == /\ calls = [p \in Publishers |-> 0]
        /\ seen = [s \in Subscriptions |-> [p \in Publishers |-> 0]]
        /\ got = [s \in Subscriptions |-> [p \in Publishers |-> 0]]

\* Whatever becomes of the sample, the caller is not told.
Publish(p) == /\ calls' = [calls EXCEPT ![p] = @ + 1]
              /\ UNCHANGED <<seen, got>>

\* A newer sample than every earlier one; those between are lost.
Deliver(s, p) == /\ \E n \in (seen[s][p] + 1)..calls[p] :
                        seen' = [seen EXCEPT ![s][p] = n]
                 /\ got' = [got EXCEPT ![s][p] = @ + 1]
                 /\ UNCHANGED calls

Next == \/ \E p \in Publishers : Publish(p)
        \/ \E s \in Subscriptions, p \in Publishers : Deliver(s, p)

Spec == Init /\ [][Next]_vars
===============================================================================
