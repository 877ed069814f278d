------------------------------ MODULE CacheRow ------------------------------
(***************************************************************************)
(* A row of weighing_records, from a reading to the text in the table and  *)
(* back: WeighingRecord::new, insert_record and TryFrom (db/models.rs,     *)
(* db/mod.rs).  Times are stored as text, and sorted as such.              *)
(*                                                                         *)
(* Text is a sequence of numbers that compares like the characters: the    *)
(* date and time to the second, groups of three digits, the offset.        *)
(***************************************************************************)
EXTENDS Integers, Sequences

(* Seconds, and the milliseconds and microseconds below 1000.              *)
Instant == [s : Nat, ms : Nat, us : Nat]

Earlier(a, b) ==
    \/ a.s < b.s
    \/ a.s = b.s /\ a.ms < b.ms
    \/ a.s = b.s /\ a.ms = b.ms /\ a.us < b.us

(* '+' comes before '.' and all digits, 'Z' after them.                    *)
Plus == -1
Zulu == 1000

Text(t, offset) ==
    CASE t.us # 0             -> <<t.s, t.ms, t.us, offset>>
      [] t.us = 0 /\ t.ms # 0 -> <<t.s, t.ms, offset>>
      [] OTHER                -> <<t.s, offset>>

(* Fault variant: UTC is written as Z.                                     *)
to_rfc3339_zulu(t) == Text(t, Zulu)

(* chrono writes as many groups of the fraction as are not zero.           *)
to_rfc3339(t) == Text(t, Plus)

TextBefore(a, b) ==
    \E i \in DOMAIN a \cap DOMAIN b :
        a[i] < b[i] /\ \A j \in 1 .. i - 1 : a[j] = b[j]

-----------------------------------------------------------------------------
(* new_kg and new_lb make a record of every reading that is a number and   *)
(* not negative.                                                           *)
new(reading) == reading.weight \notin {"negative", "not finite"}

as_str(unit) == IF unit = "Kilogram" THEN "kilogram" ELSE "pound"

Row(reading) ==
    [id |-> "uuid", original_unit |-> as_str(reading.unit),
     measured_at |-> to_rfc3339(reading.at)]

(* TryFrom: the id, the unit, the status and the times must parse, of      *)
(* which the CHECK of the table ensures the status.                        *)
Readable(row) ==
    /\ row.id = "uuid"
    /\ row.original_unit \in {"kilogram", "kg", "pound", "lb", "lbs"}
    /\ Len(row.measured_at) > 1
=============================================================================
