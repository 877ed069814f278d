-------------------------- MODULE MCSqlServerSync ---------------------------
(* Instances of SqlServerSync for TLC: weights around zero and a whole     *)
(* unit, among them what a sign or a zero after the point can get lost in. *)
EXTENDS SqlServerSync

Columns(weight, time) == [netWeight |-> weight, secondTime |-> time]
At(second, ms) == Cell("datetime", [second |-> second, ms |-> ms])

(* -0.05, 1.05, -12 and NULL.  The first is corrected to 5 once; the last  *)
(* row comes with a date, which does not convert, and is repaired.         *)
Contents ==
    [s1 |-> <<Columns(Numeric(-5, 2), At(1, 0)), Columns(Numeric(500, 2), At(2, 0))>>,
     s2 |-> <<Columns(Numeric(105, 2), NULL)>>,
     s3 |-> <<Columns(Numeric(-12, 0), At(1, 500))>>,
     s4 |-> <<Columns(NULL, Cell("date", 1)), Columns(NULL, NULL)>>]

(* A row that is corrected: 5 becomes 6, and then a date without a time.   *)
Corrected ==
    [s1 |-> <<Columns(Numeric(5, 0), NULL), Columns(Numeric(6, 0), NULL)>>,
     s2 |-> <<Columns(Numeric(5, 0), NULL), Columns(Numeric(6, 0), Cell("date", 1))>>]
=============================================================================
