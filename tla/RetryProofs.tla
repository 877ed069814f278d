---------------------------- MODULE RetryProofs -----------------------------
(***************************************************************************)
(* The bounds of retry_transient, for every configuration.  The inductive  *)
(* invariant adds to the two properties that the cap is at least the first *)
(* delay, and that a sleep ends within the budget.                         *)
(***************************************************************************)
EXTENDS RetryTransient, TLAPS

IInv ==
    /\ TypeOK
    /\ BackoffBounded
    /\ pc = "attempt" => elapsed <= budget + MaxLate
    /\ pc = "sleep" => elapsed + sleep_for <= budget
    /\ elapsed <= budget + MaxLate + MaxOp

(* Doubling a delay that is within its bounds keeps it there and does not  *)
(* shrink it (checked_mul, unwrap_or, min).                                *)
LEMMA DoubledBounds ==
    ASSUME cap \in Durations, NEW d \in Durations, d <= cap
    PROVE  Doubled(d) \in Durations /\ Doubled(d) >= d /\ Doubled(d) <= cap
BY BoundsAssumption DEF Doubled, Smaller, Durations

(* The clamped delays and the cap form a legal first state.                *)
LEMMA InitIInv == Init => IInv
<1> SUFFICES ASSUME Init PROVE IInv
    OBVIOUS
<1>1. PICK m \in MaxDelays : cap = Larger(m, FirstDelay(initial))
    BY DEF Init
<1>2. TypeOK /\ delay = FirstDelay(initial) /\ delay <= cap
    BY <1>1, ConfigAssumption, BoundsAssumption
    DEF Init, TypeOK, Durations, FirstDelay, Larger, MIN_RETRY_DELAY, Ended
<1> QED
    BY <1>2, ConfigAssumption, BoundsAssumption
    DEF Init, IInv, TypeOK, BackoffBounded, Durations, FirstDelay, Larger, MIN_RETRY_DELAY

(* Each step of the loop keeps the invariant.                              *)
LEMMA StepIInv == IInv /\ [Next]_vars => IInv'
<1> SUFFICES ASSUME IInv, [Next]_vars PROVE IInv'
    OBVIOUS
<1> USE BoundsAssumption
<1>1. ASSUME NEW took \in 0 .. MaxOp, Finish(took) PROVE IInv'
    BY <1>1 DEF Finish, IInv, TypeOK, BackoffBounded, config, Ended, Durations, FirstDelay, Larger
<1>2. ASSUME NEW took \in 0 .. MaxOp, Transient(took) PROVE IInv'
  <2>1. CASE elapsed' >= budget
    BY <1>2, <2>1 DEF Transient, IInv, TypeOK, BackoffBounded, config, Ended, Durations,
                      FirstDelay, Larger
  <2>2. CASE elapsed' < budget
    <3>1. sleep_for' \in 1 .. delay /\ elapsed' + sleep_for' <= budget /\ elapsed' \in Nat
        BY <1>2, <2>2 DEF Transient, IInv, TypeOK, BackoffBounded, Smaller, Durations,
                          MIN_RETRY_DELAY
    <3>2. UNCHANGED <<initial, cap, budget, delay>> /\ pc' = "sleep"
        BY <1>2, <2>2 DEF Transient, config, IInv, TypeOK, Durations
    <3>3. TypeOK'
        BY <3>1, <3>2 DEF IInv, TypeOK, Durations
    <3>4. BackoffBounded'
        BY <3>1, <3>2 DEF IInv, BackoffBounded, FirstDelay, Larger
    <3>5. budget \in Nat /\ delay \in Nat
        BY DEF IInv, TypeOK, Durations
    <3>6. elapsed' + sleep_for' <= budget'
        BY <3>1, <3>2
    <3>7. elapsed' <= budget + MaxLate + MaxOp
        BY <2>2, <3>1, <3>5
    <3> QED
        BY <3>2, <3>3, <3>4, <3>6, <3>7 DEF IInv
  <2> QED
    BY <2>1, <2>2, <1>2 DEF Transient, IInv, TypeOK, Durations
<1>3. ASSUME NEW late \in 0 .. MaxLate, Wake(late) PROVE IInv'
  <2>1. /\ Doubled(delay) \in Durations
        /\ Doubled(delay) >= delay /\ Doubled(delay) <= cap
    BY DoubledBounds DEF IInv, TypeOK, BackoffBounded
  <2> QED
    BY <1>3, <2>1 DEF Wake, IInv, TypeOK, BackoffBounded, config, Durations, FirstDelay,
                      Larger, MIN_RETRY_DELAY
<1>4. CASE Stop
    BY <1>4 DEF Stop, vars, config, IInv, TypeOK, BackoffBounded, FirstDelay, Larger
<1>5. CASE UNCHANGED vars
    BY <1>5 DEF vars, config, IInv, TypeOK, BackoffBounded, FirstDelay, Larger
<1> QED
    BY <1>1, <1>2, <1>3, <1>4, <1>5 DEF Next, Step

(* The inductive invariant of the retry loop.                              *)
THEOREM Invariance == Spec => []IInv
BY InitIInv, StepIInv, PTL DEF Spec

(* retry_transient never computes a duration outside its type.             *)
THEOREM TypeCorrect == Spec => []TypeOK
<1>1. IInv => TypeOK
    BY DEF IInv
<1> QED
    BY <1>1, Invariance, PTL

(* Whatever the configuration, no attempt of retry_transient starts later  *)
(* than the budget plus one timer's lateness, and the call exceeds the     *)
(* budget by at most one attempt more.                                     *)
THEOREM BudgetSafety == Spec => []BudgetHeld
<1>1. IInv => BudgetHeld
    BY DEF IInv, BudgetHeld
<1> QED
    BY <1>1, Invariance, PTL

(* Whatever the configuration, sleeps are positive and delays stay between *)
(* the first delay and the cap.                                            *)
THEOREM BackoffSafety == Spec => []BackoffBounded
<1>1. IInv => BackoffBounded
    BY DEF IInv
<1> QED
    BY <1>1, Invariance, PTL

(* Whatever the configuration, and also when doubling overflows, the delay *)
(* never shrinks.                                                          *)
THEOREM BackoffMonotone == Spec => BackoffGrows
<1>1. IInv /\ [Next]_vars => [delay' >= delay]_vars
  <2> SUFFICES ASSUME IInv, [Next]_vars PROVE delay' >= delay
    OBVIOUS
  <2>1. Doubled(delay) >= delay
    BY DoubledBounds DEF IInv, TypeOK, BackoffBounded
  <2> QED
    BY <2>1 DEF Next, Step, Finish, Transient, Wake, Stop, vars, IInv, TypeOK, Durations
<1> QED
    BY <1>1, Invariance, PTL DEF Spec, BackoffGrows

(* What is left of the call: an attempt may be followed by a sleep, and a  *)
(* sleep by an attempt with less of the budget.                            *)
Remaining ==
    IF pc \in Ended THEN 0
    ELSE 2 * (budget + MaxLate - elapsed) + (IF pc = "attempt" THEN 2 ELSE 1)

(* Whatever the configuration and the answers, every step of the loop      *)
(* leaves less to do, down to nothing: the clamp to MIN_RETRY_DELAY makes  *)
(* even a sleep of a configured 0 ms count.  With the scheduling FairSpec  *)
(* assumes this is why the call ends.                                      *)
THEOREM Progress == Spec => [][Remaining' \in 0 .. Remaining - 1]_vars
<1> DEFINE Less == Remaining' \in 0 .. Remaining - 1
<1>1. ASSUME IInv, [Next]_vars PROVE [Less]_vars
  <2> USE BoundsAssumption
  <2>1. /\ budget \in Nat /\ elapsed \in Nat /\ sleep_for \in Nat /\ delay \in Nat
        /\ pc = "attempt" => elapsed <= budget + MaxLate
        /\ pc = "sleep" => sleep_for >= 1 /\ elapsed + sleep_for <= budget
    BY <1>1 DEF IInv, TypeOK, Durations, BackoffBounded
  <2>2. ASSUME NEW took \in 0 .. MaxOp, Finish(took) PROVE Less
    BY <2>1, <2>2 DEF Finish, Remaining, Ended, config
  <2>3. ASSUME NEW took \in 0 .. MaxOp, Transient(took) PROVE Less
    <3>1. CASE elapsed' >= budget /\ pc' = "exhausted"
      BY <2>1, <2>3, <3>1 DEF Transient, Remaining, Ended, config
    <3>2. CASE elapsed' < budget /\ pc' = "sleep"
      BY <2>1, <2>3, <3>2 DEF Transient, Remaining, Ended, config
    <3> QED
      BY <2>3, <3>1, <3>2 DEF Transient
  <2>4. ASSUME NEW late \in 0 .. MaxLate, Wake(late) PROVE Less
    BY <2>1, <2>4 DEF Wake, Remaining, Ended, config
  <2>5. CASE Stop \/ UNCHANGED vars
    BY <2>5 DEF Stop
  <2> HIDE DEF Less
  <2> QED
    BY <1>1, <2>2, <2>3, <2>4, <2>5 DEF Next, Step
<1> QED
  BY <1>1, Invariance, PTL DEF Spec
=============================================================================
