--------------------------- MODULE TrustDelivery ---------------------------
(***************************************************************************)
(* What the trust-bundle handler promises, without its Secrets, Jobs and   *)
(* caches.  Orc8r serves a succession of root CAs, numbered in the order   *)
(* in which they are generated.  A CA is delivered to the AGW's volume     *)
(* some time after it is served, and the AGW's workloads are rolled for a  *)
(* CA only once it has been delivered.  Neither ever goes back to an older *)
(* CA, and the rollout always catches up in the end.                       *)
(***************************************************************************)
EXTENDS Integers

VARIABLES
    served,     \* the newest CA Orc8r has served, 0 before the first one
    delivered,  \* the newest CA delivered to the volume
    announced   \* the CA the workloads are rolled for

dvars == <<served, delivered, announced>>

Init == served \in Nat /\ delivered = 0 /\ announced = 0

Regenerate ==
    /\ served' = served + 1
    /\ UNCHANGED <<delivered, announced>>

Deliver ==
    /\ delivered' \in (delivered + 1)..served
    /\ UNCHANGED <<served, announced>>

Announce ==
    /\ announced' \in (announced + 1)..delivered
    /\ UNCHANGED <<served, delivered>>

Next == Regenerate \/ Deliver \/ Announce

(* Once Orc8r stops generating CAs the workloads are rolled for the last one. *)
CatchesUp == []<>(announced = served)

Safety == Init /\ [][Next]_dvars

Spec == Safety /\ CatchesUp
=============================================================================
