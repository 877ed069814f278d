---------------------------- MODULE MCReplicator ----------------------------
(* Instances of Replicator for TLC.                                        *)
EXTENDS Replicator

UnitSize == [k \in Keys |-> 1]

(* Key 2 was first uploaded while C did not store raw records.             *)
FirstUnreadable == {<<2, 1>>}
=============================================================================
