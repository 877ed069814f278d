-------------------------- MODULE MCRetryTransient --------------------------
(* Instances of RetryTransient for TLC: every configuration of small       *)
(* values, with a Duration narrow enough for the doubling to overflow.     *)
EXTENDS RetryTransient

SmallDelays == 0 .. 5
SmallCaps == 0 .. 7
SmallBudgets == {0, 1, 4, 7}
=============================================================================
