-------------------------- MODULE SqlServerProofs ---------------------------
(***************************************************************************)
(* Proofs about SqlServerSync and SourceRow, for every table, batch and    *)
(* chunk size, every decimal, and every mix of faults.                     *)
(***************************************************************************)
EXTENDS SqlServerSync, TLAPS

(* What a cycle holds stems from the table: a record of the batch is one   *)
(* of a version its row has had, and so is what the cloud keeps.  What is  *)
(* left to mark has been stored.                                           *)
Stems(x, r) == \E v \in (1 .. ver[r]) \ RefusedVersions[r] : x = Record(r, v)

BatchStems == \A x \in batch : \E r \in Rows \ Blank : Stems(x, r)
CloudStems == \A r \in Rows : cloud[r] # NoRecord => r \notin Blank /\ Stems(cloud[r], r)
TodoStored == \A r \in todo : cloud[r] # NoRecord

IInv == TypeOK /\ BatchStems /\ CloudStems /\ TodoStored /\ MarkedDelivered

-----------------------------------------------------------------------------
(* Division with remainder, for the factor of a decimal.                   *)
LEMMA DivMod ==
    ASSUME NEW n \in Nat, NEW f \in Nat \ {0}
    PROVE  (n \div f) * f + (n % f) = n /\ n \div f \in Nat /\ n % f \in 0 .. f - 1
BY SMT

(* The text of a decimal stands for the very number, for every integer and *)
(* every scale (format_numeric).                                           *)
THEOREM FormatExact ==
    ASSUME NEW raw \in Int, NEW scale \in Scales
    PROVE  Denotes(format_numeric(raw, scale), raw, scale)
<1> DEFINE f == 10 ^ scale
           t == format_numeric(raw, scale)
           units == t.integer * f + t.fraction
<1>1. f \in Nat \ {0}
  BY ScalesAssumption
<1>2. Abs(raw) \in Nat
  BY DEF Abs
<1>3. /\ t.digits = scale /\ t.integer = Abs(raw) \div f /\ t.fraction = Abs(raw) % f
  BY DEF format_numeric, Decimal
<1>n. (raw < 0 => t.negative = TRUE) /\ (~(raw < 0) => t.negative = FALSE)
  <2>1. t.negative = (raw < 0)
    BY DEF format_numeric, Decimal
  <2> HIDE DEF t
  <2>2. (raw < 0) \in BOOLEAN
    OBVIOUS
  <2> QED
    BY <2>1, <2>2, Zenon
<1> HIDE DEF f
<1>4. units = Abs(raw)
  BY <1>1, <1>2, <1>3, DivMod
<1>5. (IF t.negative THEN -units ELSE units) = raw
  <2> HIDE DEF units, t
  <2>1. CASE raw < 0
    BY <1>n, <1>4, <2>1 DEF Abs
  <2>2. CASE ~(raw < 0)
    BY <1>n, <1>4, <2>2 DEF Abs
  <2> QED
    BY <2>1, <2>2
<1> QED
  BY <1>3, <1>5 DEF Denotes, f

(* An answer never makes the engine accept a record the cloud has not kept *)
(* (CloudAck).                                                             *)
LEMMA AcceptedKept ==
    ASSUME NEW sent, NEW kept \in SUBSET sent, NEW reply \in Replies(sent, kept)
    PROVE  Accepted(sent, reply) \subseteq kept
BY DEF Replies, Accepted

(* To mark no row leaves the marks alone.                                  *)
LEMMA NothingMarked == TypeOK => flag = [r \in Rows |-> flag[r] \/ r \in {}]
<1> SUFFICES ASSUME TypeOK PROVE flag = [r \in Rows |-> flag[r] \/ r \in {}]
  OBVIOUS
<1>1. flag = [r \in Rows |-> flag[r]] /\ \A r \in Rows : flag[r] \in BOOLEAN
  BY DEF TypeOK
<1>2. \A r \in Rows : (flag[r] \/ r \in {}) = flag[r]
  BY <1>1, Zenon
<1>3. [r \in Rows |-> flag[r] \/ r \in {}] = [r \in Rows |-> flag[r]]
  BY <1>2, Zenon
<1> QED
  BY <1>1, <1>3, Zenon

(* A record carries the serial number of its row.                          *)
LEMMA SerialOfRecord ==
    ASSUME NEW r \in Rows \ Blank, NEW v
    PROVE  Record(r, v).serial_no = r
BY DEF Record, row_to_record, Row, Cell, WEIGHT_INFO_COLUMNS

(* Versions a row has had are versions of its content.                     *)
LEMMA StemsRecords ==
    ASSUME TypeOK, NEW r \in Rows \ Blank, NEW x, Stems(x, r)
    PROVE  x \in Records /\ x.serial_no = r
<1>1. PICK v \in (1 .. ver[r]) \ RefusedVersions[r] : x = Record(r, v)
  BY DEF Stems
<1>2. ver[r] \in Nat /\ ver[r] <= Len(Content[r]) /\ Len(Content[r]) \in Nat
  BY ContentAssumption DEF TypeOK
<1>3. v \in Versions(r)
  BY <1>2 DEF Versions
<1> QED
  BY <1>1, <1>3, SerialOfRecord DEF Records

(* What the cloud holds after it stored some records of a batch.           *)
LEMMA CloudStored ==
    ASSUME TypeOK, BatchStems, CloudStems,
           NEW kept \in SUBSET SerialsOf(batch), CloudStores(kept)
    PROVE  /\ SerialsOf(batch) \subseteq Rows
           /\ cloud' \in [Rows -> Records \cup {NoRecord}]
           /\ \A r \in Rows : cloud'[r] # NoRecord => r \notin Blank /\ Stems(cloud'[r], r)
           /\ \A r \in Rows : cloud[r] # NoRecord \/ r \in kept => cloud'[r] # NoRecord
           /\ \A r \in Rows : cloud'[r] # NoRecord => cloud[r] # NoRecord \/ ver[r] > 0
<1>1. \A x \in batch : x.serial_no \in Rows \ Blank /\ Stems(x, x.serial_no) /\ x \in Records
  BY StemsRecords DEF BatchStems
<1>2. SerialsOf(batch) \subseteq Rows
  BY <1>1 DEF SerialsOf
<1>3. ASSUME NEW r \in Rows
      PROVE  \/ /\ r \in kept
                /\ cloud'[r] \in batch /\ cloud'[r].serial_no = r
             \/ r \notin kept /\ cloud'[r] = cloud[r]
  <2>1. CASE r \in kept
    <3>1. \E x \in batch : x.serial_no = r
      BY <2>1 DEF SerialsOf
    <3> QED
      BY <2>1, <3>1 DEF CloudStores
  <2>2. CASE r \notin kept
    BY <2>2 DEF CloudStores
  <2> QED
    BY <2>1, <2>2
<1>4. \A r \in Rows : cloud[r] \in Records \cup {NoRecord}
  BY DEF TypeOK
<1>5. cloud' \in [Rows -> Records \cup {NoRecord}]
  <2>1. \A r \in Rows : cloud'[r] \in Records \cup {NoRecord}
    BY <1>1, <1>3, <1>4
  <2>2. cloud' = [r \in Rows |-> cloud'[r]]
    BY DEF CloudStores
  <2> QED
    BY <2>1, <2>2
<1>6. \A r \in Rows : Stems(cloud'[r], r) => ver[r] > 0
  BY DEF Stems, TypeOK
<1>7. \A r \in Rows : cloud'[r] # NoRecord => r \notin Blank /\ Stems(cloud'[r], r)
  BY <1>1, <1>3 DEF CloudStems
<1>8. \A r \in Rows : cloud[r] # NoRecord \/ r \in kept => cloud'[r] # NoRecord
  BY <1>1, <1>3, NoRecordAssumption
<1> QED
  BY <1>2, <1>5, <1>6, <1>7, <1>8

-----------------------------------------------------------------------------
(* The initial state satisfies the invariant.                              *)
LEMMA InitIInv == Init => IInv
<1> SUFFICES ASSUME Init PROVE IInv
  OBVIOUS
<1>1. TypeOK
  BY ContentAssumption, BoundsAssumption DEF Init, TypeOK
<1> QED
  BY <1>1 DEF Init, IInv, BatchStems, CloudStems, TodoStored, MarkedDelivered

(* Each step keeps the variables in their types, and what is at the cloud, *)
(* in the batch and marked stays so connected.                             *)
LEMMA StepIInv == IInv /\ [Next]_vars => IInv'
<1> SUFFICES ASSUME IInv, [Next]_vars PROVE IInv'
  OBVIOUS
<1> USE BoundsAssumption
<1>t. TypeOK /\ BatchStems /\ CloudStems /\ TodoStored /\ MarkedDelivered
  BY DEF IInv
<1>f. Fault => faults' \in 0 .. MaxFaults
  BY <1>t DEF Fault, TypeOK
<1>g. \A x, r : ver' = ver => (Stems(x, r)' <=> Stems(x, r))
  BY DEF Stems
<1>1. ASSUME NEW r \in Rows, AppWrite(r) PROVE IInv'
  <2>1. /\ ver' \in [Rows -> Nat]
        /\ \A s \in Rows : ver'[s] <= Len(Content[s]) /\ ver[s] <= ver'[s]
    BY <1>1, <1>t, ContentAssumption DEF AppWrite, TypeOK
  <2>2. \A x : \A s \in Rows : Stems(x, s) => Stems(x, s)'
    BY <1>t, <2>1 DEF Stems, TypeOK
  <2>3. TypeOK'
    BY <1>1, <1>t, <2>1 DEF AppWrite, TypeOK
  <2>4. BatchStems' /\ CloudStems'
    BY <1>1, <1>t, <2>2 DEF AppWrite, BatchStems, CloudStems
  <2>5. TodoStored' /\ MarkedDelivered'
    BY <1>1, <1>t DEF AppWrite, TodoStored, MarkedDelivered, TypeOK
  <2> QED
    BY <2>3, <2>4, <2>5 DEF IInv
<1>2. ASSUME NEW r \in Rows, AppDelete(r) PROVE IInv'
  <2>1. TypeOK'
    BY <1>2, <1>t DEF AppDelete, TypeOK
  <2> QED
    BY <1>2, <1>t, <1>g, <2>1
    DEF AppDelete, IInv, BatchStems, CloudStems, TodoStored, MarkedDelivered
<1>3. CASE fetch_pending
  <2>1. \A r \in Top : r \in Rows \ Blank /\ Stems(Record(r, ver[r]), r)
    <3> SUFFICES ASSUME NEW r \in Top PROVE r \in Rows \ Blank /\ Stems(Record(r, ver[r]), r)
      OBVIOUS
    <3>1. r \in Rows /\ ver[r] > 0 /\ ver[r] \in Nat
      BY <1>t DEF Top, Pending, TypeOK
    <3>2. ~Refused(Row(r, ver[r]))
      <4>1. ver[r] \in Versions(r)
        BY <1>t, <3>1, ContentAssumption DEF TypeOK, Versions
      <4> QED
        BY <1>3, <3>1, <4>1 DEF fetch_pending, Unreadable, RefusedVersions
    <3>3. r \notin Blank
      BY <3>2 DEF Refused, Row, WEIGHT_INFO_COLUMNS
    <3>4. ver[r] \notin RefusedVersions[r]
      BY <1>3, <3>1 DEF fetch_pending, Unreadable
    <3> QED
      BY <3>1, <3>3, <3>4 DEF Stems
  <2>2. BatchStems'
    BY <1>3, <2>1, <1>g DEF fetch_pending, BatchStems, srcVars
  <2>3. batch' \subseteq Records
    BY <1>3, <1>t, <2>1, StemsRecords DEF fetch_pending
  <2>4. TypeOK'
    BY <1>3, <1>t, <2>3 DEF fetch_pending, TypeOK, srcVars
  <2> QED
    BY <1>3, <1>t, <1>g, <2>2, <2>4
    DEF fetch_pending, IInv, CloudStems, TodoStored, MarkedDelivered, srcVars
<1>4. CASE FetchNothing \/ UNCHANGED vars
  BY <1>4, <1>t, <1>g DEF FetchNothing, vars, srcVars, IInv, TypeOK, BatchStems, CloudStems,
     TodoStored, MarkedDelivered
<1>5. CASE ConnectFails
  BY <1>5, <1>t, <1>f, <1>g DEF ConnectFails, srcVars, IInv, TypeOK, BatchStems, CloudStems,
     TodoStored, MarkedDelivered
<1>6. CASE UploadAnswered
  <2>0. PICK kept \in SUBSET SerialsOf(batch) :
          /\ UNCHANGED faults \/ Fault
          /\ CloudStores(kept)
          /\ \E reply \in Replies(SerialsOf(batch), kept) :
              \/ EndCycle
              \/ /\ todo' = Accepted(SerialsOf(batch), reply)
                 /\ pc' = "mark" /\ UNCHANGED batch
    BY <1>6 DEF UploadAnswered
  <2>1. PICK reply \in Replies(SerialsOf(batch), kept) :
          \/ EndCycle
          \/ /\ todo' = Accepted(SerialsOf(batch), reply)
             /\ pc' = "mark" /\ UNCHANGED batch
    BY <2>0
  <2>2. UNCHANGED srcVars
    BY <1>6 DEF UploadAnswered
  <2>3. Accepted(SerialsOf(batch), reply) \subseteq kept
    BY AcceptedKept
  <2>4. todo' \subseteq kept /\ batch' \subseteq batch /\ pc' \in {"idle", "mark"}
    BY <2>1, <2>3 DEF EndCycle
  <2>5. /\ SerialsOf(batch) \subseteq Rows
        /\ cloud' \in [Rows -> Records \cup {NoRecord}]
        /\ \A r \in Rows : cloud'[r] # NoRecord => r \notin Blank /\ Stems(cloud'[r], r)
        /\ \A r \in Rows : cloud[r] # NoRecord \/ r \in kept => cloud'[r] # NoRecord
    BY <1>t, <2>0, CloudStored
  <2>6. TypeOK'
    BY <1>t, <1>f, <2>0, <2>2, <2>4, <2>5 DEF TypeOK, srcVars
  <2>7. BatchStems' /\ CloudStems'
    BY <1>t, <1>g, <2>2, <2>4, <2>5 DEF BatchStems, CloudStems, srcVars
  <2>8. TodoStored' /\ MarkedDelivered'
    BY <1>t, <2>2, <2>4, <2>5 DEF TodoStored, MarkedDelivered, srcVars
  <2> QED
    BY <2>6, <2>7, <2>8 DEF IInv
<1>7. CASE UploadFails
  <2>1. PICK kept \in SUBSET SerialsOf(batch) : CloudStores(kept)
    BY <1>7 DEF UploadFails
  <2>2. /\ UNCHANGED srcVars /\ Fault /\ pc' \in {"idle", pc}
        /\ batch' \subseteq batch /\ todo' \subseteq todo
    BY <1>7 DEF UploadFails, EndCycle
  <2>3. /\ cloud' \in [Rows -> Records \cup {NoRecord}]
        /\ \A r \in Rows : cloud'[r] # NoRecord => r \notin Blank /\ Stems(cloud'[r], r)
        /\ \A r \in Rows : cloud[r] # NoRecord => cloud'[r] # NoRecord
    BY <1>t, <2>1, CloudStored
  <2>4. TypeOK'
    BY <1>t, <1>f, <2>2, <2>3 DEF TypeOK, srcVars
  <2>5. BatchStems' /\ CloudStems'
    BY <1>t, <1>g, <2>2, <2>3 DEF BatchStems, CloudStems, srcVars
  <2>6. TodoStored' /\ MarkedDelivered'
    BY <1>t, <2>2, <2>3 DEF TodoStored, MarkedDelivered, srcVars, TypeOK
  <2> QED
    BY <2>4, <2>5, <2>6 DEF IInv
<1>8. CASE mark_uploaded \/ MarkFails \/ Hang
  <2>1. PICK c \in SUBSET todo : flag' = [r \in Rows |-> flag[r] \/ r \in c]
    <3>1. CASE flag' = flag
      <4>1. flag' = [r \in Rows |-> flag[r] \/ r \in {}]
        BY <1>t, <3>1, NothingMarked, Zenon
      <4>2. {} \in SUBSET todo
        OBVIOUS
      <4> QED
        BY <4>1, <4>2, Zenon
    <3> QED
      BY <1>8, <3>1 DEF mark_uploaded, MarkFails, Hang, Chunks
  <2>2. /\ UNCHANGED <<ver, del, stamp, clock, cloud>> /\ (UNCHANGED faults \/ Fault)
        /\ pc' \in {"idle", "hung", pc} /\ batch' \subseteq batch /\ todo' \subseteq todo
    BY <1>8 DEF mark_uploaded, MarkFails, Hang, EndCycle
  <2>3. TypeOK'
    BY <1>t, <1>f, <2>1, <2>2 DEF TypeOK
  <2>4. BatchStems' /\ CloudStems'
    BY <1>t, <1>g, <2>2 DEF BatchStems, CloudStems
  <2>5. TodoStored' /\ MarkedDelivered'
    BY <1>t, <2>1, <2>2 DEF TodoStored, MarkedDelivered
  <2> QED
    BY <2>3, <2>4, <2>5 DEF IInv
<1>9. CASE Crash \/ HangEnds
  BY <1>9, <1>t, <1>f, <1>g DEF Crash, HangEnds, EndCycle, srcVars, IInv, TypeOK, BatchStems,
     CloudStems, TodoStored, MarkedDelivered
<1> QED
  BY <1>1, <1>2, <1>3, <1>4, <1>5, <1>6, <1>7, <1>8, <1>9 DEF Next, DaemonStep

(* The inductive invariant of the SQL Server engine.                       *)
THEOREM Invariance == Spec => []IInv
BY InitIInv, StepIInv, PTL DEF Spec

(* Every variable keeps its type.                                          *)
THEOREM TypeCorrect == Spec => []TypeOK
<1>1. IInv => TypeOK
  BY DEF IInv
<1> QED
  BY <1>1, Invariance, PTL

(* isUploadCloud is set only for rows the cloud has stored (sync_once,     *)
(* mark_uploaded).                                                         *)
THEOREM MarkedSafety == Spec => []MarkedDelivered
<1>1. IInv => MarkedDelivered
  BY DEF IInv
<1> QED
  BY <1>1, Invariance, PTL

(* Every decimal at the cloud is the number of some version of its row     *)
(* (column_value_to_json).                                                 *)
THEOREM DecimalSafety == Spec => []DecimalsExact
<1>1. IInv => DecimalsExact
  <2> SUFFICES ASSUME IInv, NEW r \in Rows, cloud[r] # NoRecord
               PROVE  \E v \in 1 .. ver[r] : \A c \in WEIGHT_INFO_COLUMNS :
                        LET cell == Row(r, v)[c] IN
                        cell.type = "numeric" =>
                          Denotes(cloud[r].data[c].value, cell.value.raw, cell.value.scale)
    BY DEF DecimalsExact
  <2>1. PICK v \in 1 .. ver[r] : r \notin Blank /\ cloud[r] = Record(r, v)
    BY DEF IInv, CloudStems, Stems
  <2>2. ver[r] \in Nat /\ ver[r] <= Len(Content[r]) /\ Len(Content[r]) \in Nat
    BY ContentAssumption DEF IInv, TypeOK
  <2>3. v \in 1 .. Len(Content[r])
    BY <2>2
  <2>4. ASSUME NEW c \in WEIGHT_INFO_COLUMNS, Row(r, v)[c].type = "numeric"
        PROVE  Denotes(cloud[r].data[c].value, Row(r, v)[c].value.raw, Row(r, v)[c].value.scale)
    <3> DEFINE cell == Row(r, v)[c]
    <3>1. c # "serialNo"
      BY <2>1, <2>4 DEF Row, Cell
    <3>2. cell = Content[r][v][c]
      BY <3>1 DEF Row
    <3>3. cell.value.raw \in Int /\ cell.value.scale \in Scales
      BY <2>3, <2>4, <3>1, <3>2, ContentAssumption
    <3>4. cloud[r].data[c] = column_value_to_json(cell)
      BY <2>1 DEF Record, row_to_record
    <3> HIDE DEF cell
    <3>5. column_value_to_json(cell).value = format_numeric(cell.value.raw, cell.value.scale)
      BY <2>4 DEF column_value_to_json, Json, cell
    <3> QED
      BY <3>3, <3>4, <3>5, FormatExact DEF cell
  <2> QED
    BY <2>4
<1> QED
  BY <1>1, Invariance, PTL

-----------------------------------------------------------------------------
(* The engine's rows, seen as the items of Delivery.                       *)
Offered == {r \in Rows : ver[r] > 0}
Stored == {r \in Rows : cloud[r] # NoRecord}
Confirmed == {r \in Rows : flag[r]}

(* Each step is a step of Delivery or leaves its variables alone.          *)
LEMMA StepDelivers ==
    IInv /\ [Next]_vars => Deliver!Next \/ UNCHANGED <<Offered, Stored, Confirmed>>
<1> SUFFICES ASSUME IInv, [Next]_vars
             PROVE  Deliver!Next \/ UNCHANGED <<Offered, Stored, Confirmed>>
  OBVIOUS
<1> USE DEF Offered, Stored, Confirmed
<1>t. TypeOK /\ BatchStems /\ CloudStems /\ TodoStored /\ MarkedDelivered
  BY DEF IInv
<1>o. Stored \subseteq Offered /\ Confirmed \subseteq Stored
  BY <1>t DEF CloudStems, Stems, MarkedDelivered, TypeOK
<1>1. ASSUME NEW r \in Rows, AppWrite(r)
      PROVE  Deliver!Next \/ UNCHANGED <<Offered, Stored, Confirmed>>
  <2>1. Offered' = Offered \cup {r} /\ Stored' = Stored
    BY <1>1, <1>t DEF AppWrite, TypeOK
  <2>2. CASE ver[r] = 0
    <3>1. ~flag[r]
      BY <1>o, <2>2
    <3>2. Confirmed' = Confirmed
      BY <1>1, <1>t, <3>1 DEF AppWrite, TypeOK
    <3>3. Deliver!Offer(r)
      BY <2>1, <3>2 DEF Deliver!Offer
    <3> QED
      BY <3>3 DEF Deliver!Next
  <2>3. CASE ver[r] # 0
    <3>1. Offered' = Offered
      BY <1>t, <2>1, <2>3 DEF TypeOK
    <3>2. Confirmed' = Confirmed \/ Confirmed' = Confirmed \ {r}
      BY <1>1, <1>t DEF AppWrite, TypeOK
    <3>3. CASE Confirmed' = Confirmed \ {r}
      <4>1. Deliver!Withdraw({r})
        BY <2>1, <3>1, <3>3 DEF Deliver!Withdraw
      <4> QED
        BY <4>1 DEF Deliver!Next
    <3> QED
      BY <2>1, <3>1, <3>2, <3>3
  <2> QED
    BY <2>2, <2>3
<1>2. ASSUME UNCHANGED <<ver, flag>>, NEW kept \in SUBSET SerialsOf(batch), CloudStores(kept)
      PROVE  Deliver!Next \/ UNCHANGED <<Offered, Stored, Confirmed>>
  <2>1. /\ \A r \in Rows : cloud[r] # NoRecord \/ r \in kept => cloud'[r] # NoRecord
        /\ \A r \in Rows : cloud'[r] # NoRecord => cloud[r] # NoRecord \/ ver[r] > 0
    BY <1>t, <1>2, CloudStored
  <2>2. PICK new \in SUBSET Rows : new = Stored' /\ new \subseteq Offered
    BY <1>o, <2>1
  <2>3. Stored' = Stored \cup new
    BY <2>1, <2>2
  <2>4. Deliver!Store(new)
    BY <1>2, <2>2, <2>3 DEF Deliver!Store
  <2> QED
    BY <2>2, <2>4 DEF Deliver!Next
<1>3. ASSUME UNCHANGED <<ver, cloud>>, NEW c \in SUBSET todo,
             flag' = [r \in Rows |-> flag[r] \/ r \in c]
      PROVE  Deliver!Next \/ UNCHANGED <<Offered, Stored, Confirmed>>
  <2>1. c \subseteq Stored /\ c \in SUBSET Rows
    BY <1>t DEF TodoStored, TypeOK
  <2>2. Confirmed' = Confirmed \cup c
    BY <1>3, <2>1
  <2>3. Deliver!Confirm(c)
    BY <1>3, <2>1, <2>2 DEF Deliver!Confirm
  <2> QED
    BY <2>1, <2>3 DEF Deliver!Next
<1>4. CASE UploadAnswered
  <2>1. PICK kept \in SUBSET SerialsOf(batch) : CloudStores(kept)
    BY <1>4 DEF UploadAnswered
  <2> QED
    BY <1>2, <1>4, <2>1 DEF UploadAnswered, srcVars
<1>5. CASE UploadFails
  <2>1. PICK kept \in SUBSET SerialsOf(batch) : CloudStores(kept)
    BY <1>5 DEF UploadFails
  <2> QED
    BY <1>2, <1>5, <2>1 DEF UploadFails, srcVars
<1>6. CASE mark_uploaded \/ MarkFails \/ Hang
  <2>1. PICK c \in SUBSET todo : flag' = [r \in Rows |-> flag[r] \/ r \in c]
    <3>1. CASE flag' = flag
      <4>1. flag' = [r \in Rows |-> flag[r] \/ r \in {}]
        BY <1>t, <3>1, NothingMarked, Zenon
      <4>2. {} \in SUBSET todo
        OBVIOUS
      <4> QED
        BY <4>1, <4>2, Zenon
    <3> QED
      BY <1>6, <3>1 DEF mark_uploaded, MarkFails, Hang, Chunks
  <2> QED
    BY <1>3, <1>6, <2>1 DEF mark_uploaded, MarkFails, Hang
<1>7. ASSUME UNCHANGED <<ver, cloud, flag>> PROVE UNCHANGED <<Offered, Stored, Confirmed>>
  BY <1>7
<1>8. CASE \/ \E r \in Rows : AppDelete(r)
           \/ fetch_pending \/ FetchNothing \/ ConnectFails \/ HangEnds \/ Crash
           \/ UNCHANGED vars
  BY <1>7, <1>8 DEF AppDelete, fetch_pending, FetchNothing, ConnectFails, HangEnds, Crash, vars,
     srcVars
<1> QED
  BY <1>1, <1>4, <1>5, <1>6, <1>8 DEF Next, DaemonStep

(* The engine implements Delivery, for every table and every fault.        *)
THEOREM Implementation == Spec => ImplementsDelivery
<1>1. Init => Deliver!Init
  BY DEF Init, Deliver!Init
<1>2. IInv /\ [Next]_vars => [Deliver!Next]_(Deliver!deliveryVars)
  BY StepDelivers DEF Deliver!deliveryVars, Offered, Stored, Confirmed
<1> QED
  BY <1>1, <1>2, Invariance, PTL DEF Spec, ImplementsDelivery, Deliver!Spec

(* While no row is ever edited, a marked row is at the cloud as it stands  *)
(* in the table: partial answers, failing chunks and crashes alone do not  *)
(* break this, only an edit between the SELECT and the UPDATE does         *)
(* (sync_once, mark_uploaded).                                             *)
THEOREM UneditedCurrent ==
    ASSUME \A r \in Rows : Len(Content[r]) <= 1
    PROVE  Spec => []MarkedIsCurrent
<1>1. ASSUME IInv PROVE MarkedIsCurrent
  <2> SUFFICES ASSUME NEW r \in Rows, flag[r] PROVE cloud[r] = Record(r, ver[r])
    BY DEF MarkedIsCurrent
  <2>1. cloud[r] # NoRecord
    BY <1>1 DEF IInv, MarkedDelivered
  <2>2. PICK v \in 1 .. ver[r] : cloud[r] = Record(r, v)
    BY <1>1, <2>1 DEF IInv, CloudStems, Stems
  <2>3. ver[r] \in Nat /\ ver[r] <= Len(Content[r]) /\ Len(Content[r]) \in Nat
    BY <1>1, ContentAssumption DEF IInv, TypeOK
  <2>4. v = ver[r]
    BY <2>3
  <2> QED
    BY <2>2, <2>4
<1> QED
  BY <1>1, Invariance, PTL
=============================================================================
