---------------------------- MODULE MCReceiver ----------------------------
(* Receiver for TLC: handlers are interchangeable.                         *)
EXTENDS Receiver, TLC

CONSTANTS h1, h2, n1

TwoHandlers == {h1, h2}
RecordTimes == {None, 3}
Symmetry == Permutations(TwoHandlers)
=============================================================================
