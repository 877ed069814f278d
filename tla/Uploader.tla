------------------------------ MODULE Uploader ------------------------------
(***************************************************************************)
(* Machine A: the Go uploader (cmd/uploader/main.go), together with the    *)
(* part of C that answers it (handlePost and insertPayload of              *)
(* cmd/receiver/main.go) and the weighing application that writes the SQL  *)
(* Server tables A reads.                                                  *)
(*                                                                         *)
(* A repeats syncOnce: read the first BatchSize pending rows of each       *)
(* table, drop the ones its state already confirms, POST the rest, and     *)
(* append one line per acknowledged row to a JSONL state file.  The source *)
(* rows are never flagged, so the state file is the only memory of what    *)
(* has been delivered.                                                     *)
(*                                                                         *)
(* A row stands for its (entity type, primary key) pair, that is for the   *)
(* state key and for the record key "entity:pk" A expects to see           *)
(* acknowledged.  CKey gives the record key C derives from the row's own   *)
(* columns; the default configuration makes it the identity.               *)
(***************************************************************************)
EXTENDS Integers, Sequences, FiniteSets

CONSTANTS
    Rows,         \* rows the two source tables may come to hold
    CKey,         \* the record key C derives from each row
    Blank,        \* rows whose serial column is blank
    BatchSize,    \* BATCH_SIZE, the TOP of each SELECT
    MaxVersion,   \* bound: contents one row may take in turn
    Faults,       \* the kinds of fault that may happen
    MaxFaults,    \* bound: faults in one behaviour
    Torn,         \* an undecodable fragment in the state file
    NoRecord      \* C holds nothing under a key

EntityTypes == {"weight_info", "weight_photo"}
FaultKinds == {"fetch", "refuse", "lost", "late", "write", "crash", "power"}

ASSUME RowsAssumption == Rows \subseteq EntityTypes \X Nat
ASSUME CKeyAssumption == CKey \in [Rows -> EntityTypes \X Nat]
ASSUME BlankAssumption == Blank \subseteq Rows
ASSUME BoundsAssumption ==
    BatchSize \in Nat \ {0} /\ MaxVersion \in Nat \ {0} /\ MaxFaults \in Nat
ASSUME FaultsAssumption == Faults \subseteq FaultKinds
ASSUME SentinelAssumption ==
    Torn \notin Rows /\ NoRecord \notin Rows \X (1 .. MaxVersion)

VARIABLES
    src,      \* source tables: the version of each row, 0 while it is absent
    cdb,      \* wds_receive_records of C: record key -> <<row, version>>
    stored,   \* history: every <<row, version>> C ever committed
    pc,       \* where A is in syncOnce; "down" when the process is not running
    batch,    \* the records A read in this cycle
    call,     \* how far C is with the POST A is waiting for
    late,     \* requests whose sender gave up and that C may still process
    todo,     \* acknowledged rows not yet appended to the state file
    done,     \* stateStore.done
    file,     \* the lines of the state file
    synced,   \* how many of them are on stable storage
    faults    \* faults spent

vars == <<src, cdb, stored, pc, batch, call, late, todo, done, file, synced, faults>>

Keys == {CKey[r] : r \in Rows}
Versions == 1 .. MaxVersion
Records == Rows \X Versions

Lines(f) == {f[i] : i \in DOMAIN f}
Entries(f) == Lines(f) \ {Torn}
RowsOf(recs) == {x[1] : x \in recs}

TypeOK ==
    /\ src \in [Rows -> 0 .. MaxVersion]
    /\ cdb \in [Keys -> Records \cup {NoRecord}]
    /\ stored \subseteq Records
    /\ pc \in {"down", "idle", "photos", "posting", "append"}
    /\ batch \subseteq Records
    /\ call \in {"none", "sent", "stored", "refused"}
    /\ late \subseteq SUBSET Records
    /\ todo \subseteq Rows
    /\ done \subseteq Rows
    /\ file \in Seq(Rows \cup {Torn})
    /\ synced \in 0 .. Len(file)
    /\ faults \in 0 .. MaxFaults

Init ==
    /\ src = [r \in Rows |-> 0]
    /\ cdb = [k \in Keys |-> NoRecord]
    /\ stored = {}
    /\ pc = "idle" /\ batch = {} /\ call = "none" /\ late = {} /\ todo = {}
    /\ done = {} /\ file = <<>> /\ synced = 0
    /\ faults = 0

Fault(kind) ==
    /\ kind \in Faults
    /\ faults < MaxFaults
    /\ faults' = faults + 1

-----------------------------------------------------------------------------
(* The weighing application inserts a row or edits one.                    *)
AppWrite(r) ==
    /\ src[r] < MaxVersion
    /\ src' = [src EXCEPT ![r] = @ + 1]
    /\ UNCHANGED <<cdb, stored, pc, batch, call, late, todo, done, file, synced, faults>>

-----------------------------------------------------------------------------
(* A cycle begins: fetchAll, one SELECT per table.                         *)

Pending(e) == {r \in Rows : r[1] = e /\ src[r] > 0}

(* SELECT TOP (@p1) * ... ORDER BY pk ASC: no state is consulted here.     *)
Top(e) == {r \in Pending(e) : Cardinality({s \in Pending(e) : s[2] < r[2]}) < BatchSize}

Snapshot(rows) == {<<r, src[r]>> : r \in rows}

(* The end of a cycle: syncOnce returns, with or without an error.         *)
EndCycle == pc' = "idle" /\ batch' = {} /\ call' = "none" /\ todo' = {}

FetchInfo ==
    /\ pc = "idle"
    /\ Top("weight_info") \cap Blank = {}
    /\ batch' = Snapshot(Top("weight_info"))
    /\ pc' = "photos"
    /\ UNCHANGED <<src, cdb, stored, call, late, todo, done, file, synced, faults>>

(* Fault variant: the filter compares primary keys without entity types.   *)
FetchPhotosBareKeys ==
    LET fetched == batch \cup Snapshot(Top("weight_photo"))
        pending == {x \in fetched : \A d \in done : x[1][2] # d[2]}
    IN  /\ pc = "photos"
        /\ Top("weight_photo") \cap Blank = {}
        /\ \/ pending = {} /\ EndCycle
           \/ /\ pending # {}
              /\ batch' = pending /\ call' = "sent" /\ pc' = "posting"
              /\ UNCHANGED todo
        /\ UNCHANGED <<src, cdb, stored, late, done, file, synced, faults>>

(* The second SELECT, the filter against the state, and the POST.          *)
FetchPhotos ==
    LET fetched == batch \cup Snapshot(Top("weight_photo"))
        pending == {x \in fetched : x[1] \notin done}
    IN  /\ pc = "photos"
        /\ Top("weight_photo") \cap Blank = {}
        /\ \/ pending = {} /\ EndCycle
           \/ /\ pending # {}
              /\ batch' = pending /\ call' = "sent" /\ pc' = "posting"
              /\ UNCHANGED todo
        /\ UNCHANGED <<src, cdb, stored, late, done, file, synced, faults>>

(* A blank key column fails the whole fetch; so does a failing query.      *)
FetchError ==
    /\ \/ /\ \/ pc = "idle" /\ Top("weight_info") \cap Blank # {}
             \/ pc = "photos" /\ Top("weight_photo") \cap Blank # {}
          /\ UNCHANGED faults
       \/ pc = "photos" /\ Fault("fetch")
    /\ EndCycle
    /\ UNCHANGED <<src, cdb, stored, late, done, file, synced>>

-----------------------------------------------------------------------------
(* C: one transaction upserts the whole payload, keyed by record key.      *)

(* The order of the records in the payload: info rows, then photo rows.    *)
Before(r, s) ==
    \/ r[1] = "weight_info" /\ s[1] = "weight_photo"
    \/ r[1] = s[1] /\ r[2] < s[2]

(* The record stored under key k: the last one of the payload that has it. *)
Winner(k, recs) ==
    {x \in recs : /\ CKey[x[1]] = k
                  /\ \A y \in recs \ {x} : CKey[y[1]] = k => Before(y[1], x[1])}

(* Fault variant: a payload replaces what the table held.                  *)
InsertReplacing(recs) ==
    /\ cdb' = [k \in Keys |-> IF Winner(k, recs) = {} THEN NoRecord
                              ELSE CHOOSE x \in Winner(k, recs) : TRUE]
    /\ stored' = recs

insertPayload(recs) ==
    /\ cdb' = [k \in Keys |-> IF Winner(k, recs) = {} THEN cdb[k]
                              ELSE CHOOSE x \in Winner(k, recs) : TRUE]
    /\ stored' = stored \cup recs

CHandlePost ==
    /\ call = "sent"
    /\ insertPayload(batch)
    /\ call' = "stored"
    /\ UNCHANGED <<src, pc, batch, late, todo, done, file, synced, faults>>

(* Any answer other than 2xx; the transaction is rolled back.              *)
CRefusePost ==
    /\ call = "sent"
    /\ Fault("refuse")
    /\ call' = "refused"
    /\ UNCHANGED <<src, cdb, stored, pc, batch, late, todo, done, file, synced>>

(* C reaches a request whose sender no longer waits for the answer.        *)
CHandleLate ==
    \E recs \in late :
        /\ insertPayload(recs)
        /\ late' = late \ {recs}
        /\ UNCHANGED <<src, pc, batch, call, todo, done, file, synced, faults>>

(* What C answers: keys of the records it stored, keys of those it could   *)
(* not store (none of A's, whose key columns are never blank).             *)
Response(recs) == [accepted |-> {CKey[x[1]] : x \in recs}, failed |-> {}]

-----------------------------------------------------------------------------
(* A receives the answer.                                                  *)

acknowledged(recs, response) ==
    IF response.accepted = {} /\ response.failed = {}
    THEN RowsOf(recs)
    ELSE RowsOf(recs) \cap response.accepted

PostAnswered ==
    LET accepted == acknowledged(batch, Response(batch)) IN
    /\ pc = "posting" /\ call = "stored"
    /\ \/ accepted = {} /\ EndCycle
       \/ /\ accepted # {}
          /\ todo' = accepted /\ pc' = "append" /\ call' = "none"
          /\ UNCHANGED batch
    /\ UNCHANGED <<src, cdb, stored, late, done, file, synced, faults>>

(* Fault variant: an error is taken for an empty answer, which             *)
(* acknowledges the whole batch.                                           *)
PostRefusedAsEmpty ==
    /\ pc = "posting" /\ call = "refused"
    /\ todo' = RowsOf(batch) /\ pc' = "append" /\ call' = "none"
    /\ UNCHANGED <<src, cdb, stored, batch, late, done, file, synced, faults>>

PostRefused ==
    /\ pc = "posting" /\ call = "refused"
    /\ EndCycle
    /\ UNCHANGED <<src, cdb, stored, late, done, file, synced, faults>>

(* Fault variant: the request is not tied to the cycle's context, so that  *)
(* it outlives the timeout.                                                *)
AbandonUncancelled ==
    late' \in {late} \cup (IF call = "sent" THEN {late \cup {batch}} ELSE {})

(* A request nobody waits for any more is dropped or, when C had received  *)
(* all of it, may still be processed.                                      *)
Abandon ==
    late' \in {late} \cup (IF call = "sent" /\ "late" \in Faults
                           THEN {late \cup {batch}} ELSE {})

(* The deadline passes, or the connection breaks.                          *)
PostLost ==
    /\ pc = "posting" /\ call \in {"sent", "stored"}
    /\ Fault("lost")
    /\ Abandon
    /\ EndCycle
    /\ UNCHANGED <<src, cdb, stored, done, file, synced>>

-----------------------------------------------------------------------------
(* stateStore.append: a line per entry, then one file.Sync.                *)

First(r, rows) == r \in rows /\ \A s \in rows \ {r} : Before(r, s)

AppendEntry ==
    /\ pc = "append"
    /\ \E r \in todo :
        /\ First(r, todo)
        /\ file' = IF r \in done THEN file ELSE Append(file, r)
        /\ done' = done \cup {r}
        /\ todo' = todo \ {r}
    /\ UNCHANGED <<src, cdb, stored, pc, batch, call, late, synced, faults>>

(* Fault variant: the map is updated before the line is written.           *)
AppendFailsMarked ==
    /\ pc = "append"
    /\ Fault("write")
    /\ \E r \in todo :
        /\ First(r, todo)
        /\ file' \in {file, Append(file, Torn), Append(file, r)}
        /\ done' = done \cup {r}
    /\ EndCycle
    /\ UNCHANGED <<src, cdb, stored, late, synced>>

(* Opening or writing fails: nothing, part of the line, or the line        *)
(* without its line feed is in the file, and the rest of the entries and   *)
(* the Sync are skipped.  Sync itself may fail as well.                    *)
AppendFails ==
    /\ pc = "append"
    /\ Fault("write")
    /\ \/ todo = {} /\ UNCHANGED file
       \/ \E r \in todo :
            /\ First(r, todo)
            /\ file' \in {file, Append(file, Torn), Append(file, r)}
    /\ EndCycle
    /\ UNCHANGED <<src, cdb, stored, late, done, synced>>

(* Fault variant: append returns without file.Sync.                        *)
AppendNoSync ==
    /\ pc = "append" /\ todo = {}
    /\ EndCycle
    /\ UNCHANGED <<src, cdb, stored, late, done, file, synced, faults>>

AppendSync ==
    /\ pc = "append" /\ todo = {}
    /\ synced' = Len(file)
    /\ EndCycle
    /\ UNCHANGED <<src, cdb, stored, late, done, file, faults>>

-----------------------------------------------------------------------------
(* The process dies and is started again.                                  *)

Dead == pc' = "down" /\ batch' = {} /\ call' = "none" /\ todo' = {} /\ done' = {}

Crash ==
    /\ pc # "down"
    /\ Fault("crash")
    /\ Abandon
    /\ Dead
    /\ UNCHANGED <<src, cdb, stored, file, synced>>

(* What a power failure leaves of the state file: a prefix that holds at   *)
(* least the synced lines, and part of the line that was being written.    *)
AfterPowerLoss ==
    UNION {{SubSeq(file, 1, n)} \cup (IF n < Len(file) \/ (pc = "append" /\ todo # {})
                                      THEN {Append(SubSeq(file, 1, n), Torn)} ELSE {})
           : n \in synced .. Len(file)}

PowerLoss ==
    /\ pc # "down"
    /\ Fault("power")
    /\ Abandon
    /\ Dead
    /\ file' \in AfterPowerLoss
    /\ synced' = Len(file')
    /\ UNCHANGED <<src, cdb, stored>>

(* Fault variant: loadState takes a fragment for an entry.                 *)
RestartLenient ==
    /\ pc = "down"
    /\ done' = Lines(file)
    /\ pc' = "idle"
    /\ UNCHANGED <<src, cdb, stored, batch, call, late, todo, file, synced, faults>>

(* loadState rebuilds the map from the file.                               *)
Restart ==
    /\ pc = "down"
    /\ Torn \notin Lines(file)
    /\ done' = Lines(file)
    /\ pc' = "idle"
    /\ UNCHANGED <<src, cdb, stored, batch, call, late, todo, file, synced, faults>>

(* loadState fails on the first fragment it cannot decode: log.Fatalf.     *)
RestartFails ==
    /\ pc = "down"
    /\ Torn \in Lines(file)
    /\ UNCHANGED vars

-----------------------------------------------------------------------------
CStep == CHandlePost \/ CHandleLate

AStep ==
    \/ FetchInfo \/ FetchPhotos \/ FetchError
    \/ PostAnswered \/ PostRefused
    \/ AppendEntry \/ AppendSync
    \/ Restart \/ RestartFails

FaultStep == CRefusePost \/ PostLost \/ AppendFails \/ Crash \/ PowerLoss

Next == (\E r \in Rows : AppWrite(r)) \/ CStep \/ AStep \/ FaultStep

Spec == Init /\ [][Next]_vars

(* A's ticker starts cycle after cycle and its supervisor starts A again;  *)
(* C answers the requests it receives.  Nothing obliges C to process a     *)
(* request nobody waits for, the application to write, or a fault to       *)
(* happen.                                                                 *)
Fairness == WF_vars(AStep) /\ WF_vars(CHandlePost)

FairSpec == Spec /\ Fairness

-----------------------------------------------------------------------------
Deliver == INSTANCE Delivery WITH
    Items <- Rows,
    offered <- {r \in Rows : src[r] > 0},
    stored <- RowsOf(stored),
    confirmed <- done

(* A and C together implement Delivery: the map of a restarted A may hold  *)
(* more or less than before, but never a row C had not committed, and      *)
(* nothing is committed that was not in the tables (syncOnce, loadState,   *)
(* insertPayload).                                                         *)
ImplementsDelivery == Deliver!Spec

(* A row is confirmed, in memory or by a line of the state file, only if C *)
(* has committed some version of it: lost answers, refusals, late          *)
(* requests, crashes and torn lines never make A drop an undelivered row.  *)
ConfirmedCommitted ==
    \A r \in done \cup Entries(file) : r \in RowsOf(stored)

(* Whatever the running process believes confirmed is in the state file,   *)
(* so a restart after a plain crash resends nothing that was confirmed.    *)
MemoryBackedByFile == done \subseteq Lines(file)

(* When a cycle is over and no write failed, every line is on stable       *)
(* storage: file.Sync came after the last line (stateStore.append).        *)
IdleIsDurable == pc = "idle" => synced = Len(file)

(* The version C holds of a row never goes back, resends included: the     *)
(* upsert by record key is safe to repeat (insertPayload, syncOnce).       *)
VersionsAdvance ==
    [][\A k \in Keys : cdb[k] # NoRecord =>
         /\ cdb'[k] # NoRecord
         /\ cdb'[k][1] = cdb[k][1] => cdb'[k][2] >= cdb[k][2]]_vars

(* Every row the application writes is in the end confirmed, and from then *)
(* on stays so, unless a write to the state file was torn or a row has no  *)
(* key, which fails every fetch: the promise of the whole uploader         *)
(* (syncOnce in a loop, fetchAll).                                         *)
EventuallyConfirmed ==
    \A r \in Rows : (src[r] > 0) ~>
        ([](r \in done) \/ Torn \in Lines(file) \/ \E u \in Blank : src[u] > 0)
=============================================================================
