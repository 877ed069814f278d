---------------------------- MODULE MCLocalSync -----------------------------
(* Instances of LocalSync for TLC: two jobs of the daemon and a sync-now   *)
(* process; readings of one second, a negative one, and the row of a tool  *)
(* that writes tons and a time with Z.                                     *)
EXTENDS LocalSync

CONSTANTS j1, j2, m1

TwoJobs == {j1, j2}
OneManual == {m1}

At(ms, us) == [s |-> 1, ms |-> ms, us |-> us]

Readings ==
    [r \in 1 .. 4 |->
        CASE r = 1 -> [weight |-> "positive", unit |-> "Kilogram", at |-> At(0, 0)]
          [] r = 2 -> [weight |-> "zero", unit |-> "Pound", at |-> At(5, 0)]
          [] r = 3 -> [weight |-> "positive", unit |-> "Kilogram", at |-> At(5, 7)]
          [] r = 4 -> [weight |-> "negative", unit |-> "Pound", at |-> At(0, 0)]]

Tons ==
    [r \in {5} |-> [id |-> "uuid", original_unit |-> "ton", measured_at |-> Text(At(0, 0), Zulu)]]
=============================================================================
