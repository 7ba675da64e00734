---------------------------- MODULE AckedDelivery ----------------------------
(*****************************************************************************)
(* What include/ipc_reliable.h promises the user of one connection: messages *)
(* get consecutive numbers, reach the receiver in order and at most once     *)
(* (they may be lost), and only a message that was received is reported as   *)
(* acknowledged.                                                             *)
(*****************************************************************************)
EXTENDS Naturals, Sequences

VARIABLES
    issued,      \* messages that have been given a number, 1 .. issued
    delivered,   \* the numbers the receiver has seen, in order
    confirmed    \* the numbers whose send reported an acknowledgement

avars == <<issued, delivered, confirmed>>

Init == issued = 0 /\ delivered = <<>> /\ confirmed = {}

Issue ==
    /\ issued' = issued + 1
    /\ UNCHANGED <<delivered, confirmed>>

Deliver ==
    \E s \in 1 .. issued :
        /\ \A i \in DOMAIN delivered : delivered[i] < s
        /\ delivered' = Append(delivered, s)
        /\ UNCHANGED <<issued, confirmed>>

Confirm ==
    \E i \in DOMAIN delivered :
        /\ confirmed' = confirmed \cup {delivered[i]}
        /\ UNCHANGED <<issued, delivered>>

Next == Issue \/ Deliver \/ Confirm

Spec == Init /\ [][Next]_avars
=============================================================================
