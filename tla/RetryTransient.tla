--------------------------- MODULE RetryTransient ---------------------------
(***************************************************************************)
(* retry_transient (sync/retry.rs): the exponential back-off both Rust     *)
(* engines wrap around an upload.  Time is in milliseconds since the first *)
(* attempt; a Duration never exceeds DurationMax.                          *)
(***************************************************************************)
EXTENDS Integers

CONSTANTS
    InitialDelays,  \* values of sync.retry_initial_delay_ms
    MaxDelays,      \* values of sync.retry_max_delay_ms
    Budgets,        \* values of sync.retry_max_elapsed_seconds
    DurationMax,    \* the largest Duration
    MaxOp,          \* how long one attempt may take (api.timeout)
    MaxLate         \* how late a sleeping task may wake up

ASSUME ConfigAssumption ==
    /\ InitialDelays \subseteq 0 .. DurationMax
    /\ MaxDelays \subseteq 0 .. DurationMax
    /\ Budgets \subseteq 0 .. DurationMax
ASSUME BoundsAssumption ==
    DurationMax \in Nat \ {0} /\ MaxOp \in Nat /\ MaxLate \in Nat

MIN_RETRY_DELAY == 1

Smaller(a, b) == IF a < b THEN a ELSE b
Larger(a, b) == IF a > b THEN a ELSE b

VARIABLES
    initial,    \* initial_delay
    cap,        \* max_delay, raised to the first delay
    budget,     \* max_elapsed
    delay,
    sleep_for,  \* the sleep under way
    elapsed,    \* started_at.elapsed()
    pc

config == <<initial, cap, budget>>
vars == <<config, delay, sleep_for, elapsed, pc>>

Durations == 0 .. DurationMax
Ended == {"ok", "permanent", "exhausted"}

TypeOK ==
    /\ initial \in Durations /\ cap \in Durations /\ budget \in Durations
    /\ delay \in Durations
    /\ sleep_for \in Durations
    /\ elapsed \in Nat
    /\ pc \in {"attempt", "sleep"} \cup Ended

(* Fault variant: the delay is used as configured.                         *)
FirstDelayUnclamped(d) == d

FirstDelay(d) == Larger(d, MIN_RETRY_DELAY)

Init ==
    /\ initial \in InitialDelays /\ budget \in Budgets
    /\ delay = FirstDelay(initial)
    /\ \E m \in MaxDelays : cap = Larger(m, FirstDelay(initial))
    /\ sleep_for = 0 /\ elapsed = 0
    /\ pc = "attempt"

(* operation() returns after `took`, with Ok or with a permanent error.    *)
Finish(took) ==
    /\ pc = "attempt"
    /\ elapsed' = elapsed + took
    /\ pc' \in {"ok", "permanent"}
    /\ UNCHANGED <<config, delay, sleep_for>>

(* Fault variant: the sleep is not cut to what is left of the budget.      *)
TransientWholeDelay(took) ==
    /\ pc = "attempt"
    /\ elapsed' = elapsed + took
    /\ \/ /\ elapsed' >= budget
          /\ pc' = "exhausted" /\ UNCHANGED sleep_for
       \/ /\ elapsed' < budget
          /\ sleep_for' = delay
          /\ pc' = "sleep"
    /\ UNCHANGED <<config, delay>>

(* Fault variant: the budget is not checked, and the subtraction wraps.    *)
TransientUnchecked(took) ==
    /\ pc = "attempt"
    /\ elapsed' = elapsed + took
    /\ sleep_for' = Smaller(delay, budget - elapsed')
    /\ pc' = "sleep"
    /\ UNCHANGED <<config, delay>>

(* A transient error: give up, or sleep for what the budget still allows.  *)
Transient(took) ==
    /\ pc = "attempt"
    /\ elapsed' = elapsed + took
    /\ \/ /\ elapsed' >= budget
          /\ pc' = "exhausted" /\ UNCHANGED sleep_for
       \/ /\ elapsed' < budget
          /\ sleep_for' = Smaller(delay, budget - elapsed')
          /\ pc' = "sleep"
    /\ UNCHANGED <<config, delay>>

(* delay.checked_mul(2).unwrap_or(max_delay).min(max_delay)                *)
Doubled(d) == Smaller(IF 2 * d <= DurationMax THEN 2 * d ELSE cap, cap)

(* Fault variant: the clock is started anew for each attempt.              *)
WakeRestartsClock(late) ==
    /\ pc = "sleep"
    /\ elapsed' = 0
    /\ delay' = Doubled(delay)
    /\ pc' = "attempt"
    /\ UNCHANGED <<config, sleep_for>>

Wake(late) ==
    /\ pc = "sleep"
    /\ elapsed' = elapsed + sleep_for + late
    /\ delay' = Doubled(delay)
    /\ pc' = "attempt"
    /\ UNCHANGED <<config, sleep_for>>

Stop ==
    /\ pc \in Ended
    /\ UNCHANGED vars

Step == (\E took \in 0 .. MaxOp : Finish(took) \/ Transient(took))
        \/ \E late \in 0 .. MaxLate : Wake(late)

Next == Step \/ Stop

Spec == Init /\ [][Next]_vars

(* An attempt has a timeout and a timer fires: the loop keeps going.       *)
FairSpec == Spec /\ WF_vars(Step)

-----------------------------------------------------------------------------
(* No attempt starts after the budget, but for the lateness of one timer,  *)
(* so that the call as a whole exceeds it by at most one attempt           *)
(* (retry_transient: max_elapsed).                                         *)
BudgetHeld ==
    /\ pc = "attempt" => elapsed <= budget + MaxLate
    /\ elapsed <= budget + MaxLate + MaxOp

(* Every sleep is positive, no longer than the current delay, and the      *)
(* delay stays between its first value and the cap: also for a delay of 0, *)
(* a cap below it, or one close to the end of the budget.                  *)
BackoffBounded ==
    /\ delay >= FirstDelay(initial) /\ delay <= cap
    /\ delay >= MIN_RETRY_DELAY
    /\ pc = "sleep" => sleep_for \in 1 .. delay

(* The back-off never shrinks, whatever the doubling overflows.            *)
BackoffGrows == [][delay' >= delay]_vars

(* The call ends, even if every attempt fails at once: each round costs    *)
(* at least MIN_RETRY_DELAY of the budget.                                 *)
Terminates == <>(pc \in Ended)
=============================================================================
