--------------------------- MODULE SqlServerSync ----------------------------
(***************************************************************************)
(* The Rust daemon on its primary source: SqlServerSyncEngine::sync_once   *)
(* (sync/sqlserver_engine.rs) over SqlServerSource (source/sqlserver.rs),  *)
(* with the weighing application that owns the table and the cloud         *)
(* endpoint, which stores by serial number.                                *)
(*                                                                         *)
(* A cycle reads the oldest pending rows, uploads them with retries, and   *)
(* sets isUploadCloud on the accepted ones, a chunk of serial numbers per  *)
(* UPDATE.  The scheduler's mutex admits one cycle at a time               *)
(* (start_scheduler, main.rs), so the daemon is one process.               *)
(***************************************************************************)
EXTENDS Integers, FiniteSets, Sequences, CloudAck, SourceRow

CONSTANTS
    Rows,            \* serial numbers
    Content,         \* the columns of each row, besides serialNo, in its successive versions
    Blank,           \* rows stored without a serial number
    Deletable,       \* rows the application may delete
    BatchSize,       \* sync.batch_size
    ChunkSize,       \* MARK_UPLOAD_CHUNK_SIZE
    MarkUploaded,    \* sqlserver.mark_uploaded
    EditResetsFlag,  \* whether the application clears isUploadCloud on an edit
    MaxFaults,       \* bound: faults in one behaviour
    NoRecord         \* the cloud has nothing

ASSUME BlankAssumption == Blank \subseteq Rows /\ Deletable \subseteq Rows /\ "" \notin Rows
ASSUME ContentAssumption ==
    /\ DOMAIN Content = Rows
    /\ \A r \in Rows :
        /\ Len(Content[r]) \in Nat
        /\ \A v \in 1 .. Len(Content[r]), c \in WEIGHT_INFO_COLUMNS \ {"serialNo"} :
            LET cell == Content[r][v][c] IN
            cell.type = "numeric" => cell.value.raw \in Int /\ cell.value.scale \in Scales
ASSUME BoundsAssumption ==
    /\ BatchSize \in Nat \ {0} /\ ChunkSize \in Nat \ {0}
    /\ MaxFaults \in Nat
    /\ MarkUploaded \in BOOLEAN /\ EditResetsFlag \in BOOLEAN

VARIABLES
    ver,      \* tbl_weightInfo: version of each row, 0 while it is absent
    flag,     \* isUploadCloud
    del,      \* del_flag
    stamp,    \* updateTime, as a position in the order of all writes
    clock,    \* the last of these positions
    cloud,    \* the record the cloud holds under each serial number
    pc,       \* where the cycle is; "hung" while it waits for a silent database
    batch,    \* what fetch_pending returned
    todo,     \* accepted serial numbers not yet written back
    faults

srcVars == <<ver, flag, del, stamp, clock>>
vars == <<srcVars, cloud, pc, batch, todo, faults>>

(* A row as the SELECT returns it, and the record sent for it.             *)
Row(r, v) ==
    [c \in WEIGHT_INFO_COLUMNS |->
        IF c # "serialNo" THEN Content[r][v][c]
                          ELSE IF r \in Blank THEN NULL ELSE Cell("text", r)]

Record(r, v) == row_to_record(Row(r, v))
Versions(r) == 1 .. Len(Content[r])

(* The versions row_to_record refuses, and the records of all others.      *)
RefusedVersions == [r \in Rows |-> {v \in Versions(r) : Refused(Row(r, v))}]
Records == UNION {{Record(r, v) : v \in Versions(r) \ RefusedVersions[r]} : r \in Rows}

(* Nothing the daemon sends looks like nothing.                            *)
ASSUME NoRecordAssumption == NoRecord \notin Records

SerialsOf(recs) == {x.serial_no : x \in recs}

TypeOK ==
    /\ ver \in [Rows -> Nat] /\ \A r \in Rows : ver[r] <= Len(Content[r])
    /\ flag \in [Rows -> BOOLEAN] /\ del \in [Rows -> BOOLEAN]
    /\ stamp \in [Rows -> Nat] /\ clock \in Nat
    /\ cloud \in [Rows -> Records \cup {NoRecord}]
    /\ pc \in {"idle", "upload", "mark", "hung"}
    /\ batch \subseteq Records
    /\ todo \subseteq Rows
    /\ faults \in 0 .. MaxFaults

Init ==
    /\ ver = [r \in Rows |-> 0]
    /\ flag = [r \in Rows |-> FALSE] /\ del = [r \in Rows |-> FALSE]
    /\ stamp = [r \in Rows |-> 0] /\ clock = 0
    /\ cloud = [r \in Rows |-> NoRecord]
    /\ pc = "idle" /\ batch = {} /\ todo = {}
    /\ faults = 0

Fault == faults < MaxFaults /\ faults' = faults + 1
EndCycle == pc' = "idle" /\ batch' = {} /\ todo' = {}

-----------------------------------------------------------------------------
(* The application inserts a row or edits one, which moves it to the end   *)
(* of the upload order.                                                    *)
AppWrite(r) ==
    /\ ver[r] < Len(Content[r]) /\ ~del[r]
    /\ ver' = [ver EXCEPT ![r] = @ + 1]
    /\ flag' = [flag EXCEPT ![r] = @ /\ ~EditResetsFlag]
    /\ clock' = clock + 1 /\ stamp' = [stamp EXCEPT ![r] = clock']
    /\ UNCHANGED <<del, cloud, pc, batch, todo, faults>>

(* It deletes a row by setting del_flag, also while a cycle has it.        *)
AppDelete(r) ==
    /\ r \in Deletable /\ ver[r] > 0 /\ ~del[r]
    /\ del' = [del EXCEPT ![r] = TRUE]
    /\ UNCHANGED <<ver, flag, stamp, clock, cloud, pc, batch, todo, faults>>

-----------------------------------------------------------------------------
Pending == {r \in Rows : ver[r] > 0 /\ ~flag[r] /\ ~del[r]}

(* SELECT TOP (limit) ... ORDER BY updateTime ASC                          *)
Top == {r \in Pending : Cardinality({s \in Pending : stamp[s] < stamp[r]}) < BatchSize}

Unreadable == {r \in Rows : ver[r] \in RefusedVersions[r]}

(* Fault variant: fetch_pending leaves it to the cloud to refuse a row.    *)
FetchUnchecked ==
    /\ pc = "idle" /\ Top # {}
    /\ batch' = {Record(r, ver[r]) : r \in Top}
    /\ pc' = "upload"
    /\ UNCHANGED <<srcVars, cloud, todo, faults>>

fetch_pending ==
    /\ pc = "idle" /\ Top # {} /\ Top \cap Unreadable = {}
    /\ batch' = {Record(r, ver[r]) : r \in Top}
    /\ pc' = "upload"
    /\ UNCHANGED <<srcVars, cloud, todo, faults>>

(* No pending row; or one that row_to_record refuses, which fails the      *)
(* whole fetch, in this cycle and in the next.                             *)
FetchNothing ==
    /\ pc = "idle" /\ (Top = {} \/ Top \cap Unreadable # {})
    /\ UNCHANGED vars

(* The server cannot be reached, or the SELECT fails.                      *)
ConnectFails ==
    /\ pc = "idle"
    /\ Fault
    /\ UNCHANGED <<srcVars, cloud, pc, batch, todo>>

(* The cloud stores some of the records of the request, by serial number.  *)
CloudStores(kept) ==
    cloud' = [r \in Rows |-> IF \E x \in batch : x.serial_no = r /\ r \in kept
                             THEN CHOOSE x \in batch : x.serial_no = r ELSE cloud[r]]

(* A 2xx answer.  Rejecting a record is up to the cloud.                   *)
UploadAnswered ==
    /\ pc = "upload"
    /\ \E kept \in SUBSET SerialsOf(batch) :
        /\ \/ kept = SerialsOf(batch) /\ UNCHANGED faults
           \/ kept # SerialsOf(batch) /\ Fault
        /\ CloudStores(kept)
        /\ \E accepted \in {Accepted(SerialsOf(batch), reply) :
                            reply \in Replies(SerialsOf(batch), kept)} :
            \/ (accepted = {} \/ ~MarkUploaded) /\ EndCycle
            \/ /\ accepted # {} /\ MarkUploaded
               /\ todo' = accepted /\ pc' = "mark"
               /\ UNCHANGED batch
    /\ UNCHANGED srcVars

(* Fault variant: a spent retry budget is taken for an empty answer.       *)
UploadFailsAccepted ==
    /\ pc = "upload"
    /\ Fault
    /\ UNCHANGED cloud
    /\ todo' = SerialsOf(batch) /\ pc' = "mark"
    /\ UNCHANGED <<srcVars, batch>>

(* An attempt fails, before or after the cloud stored some records: a      *)
(* transient error is retried while the budget lasts; a permanent one, an  *)
(* answer that does not decode, or a spent budget ends the cycle.  Nothing *)
(* is written to the source.                                               *)
UploadFails ==
    /\ pc = "upload"
    /\ Fault
    /\ \E kept \in SUBSET SerialsOf(batch) : CloudStores(kept)
    /\ \/ UNCHANGED <<pc, batch, todo>>
       \/ EndCycle
    /\ UNCHANGED srcVars

Chunks == {c \in SUBSET todo :
    Cardinality(c) = ChunkSize \/ (c = todo /\ Cardinality(todo) < ChunkSize)}

(* Fault variant: chunks_exact instead of chunks drops the last rows.      *)
MarkWholeChunks ==
    /\ pc = "mark"
    /\ \E c \in {d \in SUBSET todo : Cardinality(d) = ChunkSize} \cup {{}} :
        /\ flag' = [r \in Rows |-> flag[r] \/ r \in c]
        /\ \/ c = {} /\ Cardinality(todo) < ChunkSize /\ EndCycle
           \/ c # {} /\ todo' = todo \ c /\ UNCHANGED <<pc, batch>>
    /\ UNCHANGED <<ver, del, stamp, clock, cloud, faults>>

(* mark_uploaded: one UPDATE per chunk, by serial number alone.            *)
mark_uploaded ==
    /\ pc = "mark"
    /\ \E c \in Chunks :
        /\ flag' = [r \in Rows |-> flag[r] \/ r \in c]
        /\ \/ c = todo /\ EndCycle
           \/ c # todo /\ todo' = todo \ c /\ UNCHANGED <<pc, batch>>
    /\ UNCHANGED <<ver, del, stamp, clock, cloud, faults>>

(* The connection or an UPDATE fails, with or without having taken effect; *)
(* the chunks before it stay marked.                                       *)
MarkFails ==
    /\ pc = "mark"
    /\ Fault
    /\ \E c \in Chunks \cup {{}} : flag' = [r \in Rows |-> flag[r] \/ r \in c]
    /\ EndCycle
    /\ UNCHANGED <<ver, del, stamp, clock, cloud>>

(* The SQL Server, or the network to it, goes silent.  Connect, login,     *)
(* SELECT and UPDATE have no timeout, so that the cycle waits, and the     *)
(* next ones wait for the mutex; the UPDATE may have taken effect.         *)
Hang ==
    /\ Fault
    /\ \/ pc = "idle" /\ UNCHANGED flag
       \/ /\ pc = "mark"
          /\ \E c \in Chunks \cup {{}} : flag' = [r \in Rows |-> flag[r] \/ r \in c]
    /\ pc' = "hung" /\ batch' = {} /\ todo' = {}
    /\ UNCHANGED <<ver, del, stamp, clock, cloud>>

(* The connection breaks at last, which is an error of the cycle.          *)
HangEnds ==
    /\ pc = "hung"
    /\ EndCycle
    /\ UNCHANGED <<srcVars, cloud, faults>>

(* The daemon is killed and started again; it keeps no state of its own.   *)
Crash ==
    /\ pc # "idle"
    /\ Fault
    /\ EndCycle
    /\ UNCHANGED <<srcVars, cloud>>

-----------------------------------------------------------------------------
DaemonStep == fetch_pending \/ FetchNothing \/ UploadAnswered \/ mark_uploaded

Next ==
    \/ \E r \in Rows : AppWrite(r) \/ AppDelete(r)
    \/ DaemonStep
    \/ ConnectFails \/ UploadFails \/ MarkFails \/ Hang \/ HangEnds \/ Crash

Spec == Init /\ [][Next]_vars

(* The cron job fires for ever, and the cloud and the database answer, but *)
(* for the faults.  An attempt at the cloud has a timeout; nothing ends a  *)
(* wait for a silent database (HangEnds).                                  *)
FairSpec == Spec /\ WF_vars(DaemonStep)

-----------------------------------------------------------------------------
Deliver == INSTANCE Delivery WITH
    Items <- Rows,
    offered <- {r \in Rows : ver[r] > 0},
    stored <- {r \in Rows : cloud[r] # NoRecord},
    confirmed <- {r \in Rows : flag[r]}

(* The engine implements Delivery: rows are stored by the cloud and marked *)
(* in separate steps, in this order, whatever the answers list and         *)
(* whatever fails in between (sync_once, mark_uploaded).                   *)
ImplementsDelivery == Deliver!Spec

(* isUploadCloud = 1 is never set for a row the cloud has not stored, in   *)
(* any version: lost answers, partial acceptance, failing chunks and       *)
(* crashes only ever lead to a repeated upload (sync_once, mark_uploaded). *)
MarkedDelivered == \A r \in Rows : flag[r] => cloud[r] # NoRecord

(* What the cloud has of a decimal column is the number that stands, or    *)
(* stood, in the row: sign, zeros after the point and scale survive the    *)
(* conversion to text (column_value_to_json, format_numeric).              *)
DecimalsExact ==
    \A r \in Rows : cloud[r] # NoRecord =>
        \E v \in 1 .. ver[r] : \A c \in WEIGHT_INFO_COLUMNS :
            LET cell == Row(r, v)[c] IN
            cell.type = "numeric" =>
                Denotes(cloud[r].data[c].value, cell.value.raw, cell.value.scale)

(* Every row with a serial number is in the end marked or deleted, also    *)
(* when the table holds more pending rows than a batch and the cloud       *)
(* accepts more than a chunk.  A row that row_to_record refuses holds      *)
(* others back only while it is on the page itself, until it is repaired   *)
(* or deleted; and a database that is silent for ever ends all progress    *)
(* (fetch_pending, sync_once, mark_uploaded).                              *)
EventuallyMarked ==
    \/ \A r \in Rows \ Blank :
        (ver[r] > 0) ~> (flag[r] \/ del[r] \/ [](Top \cap Unreadable # {}))
    \/ <>[](pc = "hung")

(* A row marked as uploaded is at the cloud as it stands in the table: the *)
(* promise of a reliable upload, if the application clears the mark of a   *)
(* row it edits (mark_uploaded).                                           *)
MarkedIsCurrent == \A r \in Rows : flag[r] => cloud[r] = Record(r, ver[r])
=============================================================================
