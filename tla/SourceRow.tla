----------------------------- MODULE SourceRow ------------------------------
(***************************************************************************)
(* What SqlServerSource makes of one row of tbl_weightInfo: row_to_record  *)
(* and column_value_to_json (source/sqlserver.rs).                         *)
(*                                                                         *)
(* A cell is a column type and a value.  Decimals, the type of all weights *)
(* and amounts, arrive as an integer and a scale and leave as text.        *)
(***************************************************************************)
EXTENDS Integers

CONSTANT Scales  \* scales of decimal columns

ASSUME ScalesAssumption == Scales \subseteq Nat /\ \A s \in Scales : 10 ^ s \in Nat \ {0}

Cell(type, value) == [type |-> type, value |-> value]
NULL == Cell("null", "")
Numeric(raw, scale) == Cell("numeric", [raw |-> raw, scale |-> scale])

Json(type, value) == [type |-> type, value |-> value]

(* Decimal text: a sign, the integer part, and a fraction of so many       *)
(* digits, leading zeros included.                                         *)
Decimal(negative, integer, fraction, digits) ==
    [negative |-> negative, integer |-> integer, fraction |-> fraction, digits |-> digits]

Abs(n) == IF n < 0 THEN -n ELSE n

(* Fault variant: the quotient is written with its own sign, which a zero  *)
(* does not have.                                                          *)
FormatQuotient(raw, scale) ==
    LET factor == 10 ^ scale IN
    Decimal(raw < 0 /\ Abs(raw) >= factor, Abs(raw) \div factor, Abs(raw) % factor, scale)

(* A scale of 0 is written without a point: no digits.                     *)
format_numeric(raw, scale) ==
    LET factor == 10 ^ scale IN
    Decimal(raw < 0, Abs(raw) \div factor, Abs(raw) % factor, scale)

(* What tiberius does not convert to a NaiveDateTime, and JSON cannot say. *)
Inconvertible(cell) ==
    \/ cell.type \in {"date", "time", "datetimeoffset"}
    \/ cell.type = "float" /\ cell.value = "not finite"

(* Times lose their fraction of a second, binary columns all but their     *)
(* length; other values are carried over.                                  *)
column_value_to_json(cell) ==
    CASE cell.type = "null"     -> Json("null", "")
      [] cell.type = "numeric"  -> Json("string", format_numeric(cell.value.raw, cell.value.scale))
      [] cell.type = "datetime" -> Json("string", cell.value.second)
      [] cell.type = "binary"   -> Json("string", cell.value.length)
      [] cell.type \in {"text", "guid", "xml"} -> Json("string", cell.value)
      [] cell.type = "bit"      -> Json("bool", cell.value)
      [] OTHER                  -> Json("number", cell.value)

(* The columns of the SELECT: the key, and some that stand for all others. *)
WEIGHT_INFO_COLUMNS == {"serialNo", "netWeight", "secondTime"}

(* A row without serialNo, or with an empty one, is an error, and so is a  *)
(* single value that cannot be converted.                                  *)
Refused(row) ==
    \/ row["serialNo"] \in {NULL, Cell("text", "")}
    \/ \E c \in WEIGHT_INFO_COLUMNS : Inconvertible(row[c])

row_to_record(row) ==
    [serial_no |-> row["serialNo"].value,
     data |-> [c \in WEIGHT_INFO_COLUMNS |-> column_value_to_json(row[c])]]

-----------------------------------------------------------------------------
(* The number a decimal text stands for is raw / 10^scale.                 *)
Denotes(text, raw, scale) ==
    LET units == text.integer * 10 ^ text.digits + text.fraction IN
    (IF text.negative THEN -units ELSE units) * 10 ^ scale = raw * 10 ^ text.digits
=============================================================================
