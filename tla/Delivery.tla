------------------------------ MODULE Delivery ------------------------------
(***************************************************************************)
(* What every uploader of this repository promises, whatever its source,   *)
(* its protocol and its faults: an item is offered by the source, then     *)
(* stored at the receiving side, and only then, in a later step, confirmed *)
(* to the source.  What is stored stays stored.  A confirmation may be     *)
(* taken back, which leads to another upload, never given too early.       *)
(***************************************************************************)
CONSTANT Items

VARIABLES offered, stored, confirmed

deliveryVars == <<offered, stored, confirmed>>

Init == offered = {} /\ stored = {} /\ confirmed = {}

Offer(i) == offered' = offered \cup {i} /\ UNCHANGED <<stored, confirmed>>

Store(some) ==
    /\ some \subseteq offered
    /\ stored' = stored \cup some
    /\ UNCHANGED <<offered, confirmed>>

Confirm(some) ==
    /\ some \subseteq stored
    /\ confirmed' = confirmed \cup some
    /\ UNCHANGED <<offered, stored>>

Withdraw(some) == confirmed' = confirmed \ some /\ UNCHANGED <<offered, stored>>

Next ==
    \/ \E i \in Items : Offer(i)
    \/ \E some \in SUBSET Items : Store(some) \/ Confirm(some) \/ Withdraw(some)

Spec == Init /\ [][Next]_deliveryVars
=============================================================================
