----------------------------- MODULE Replicator -----------------------------
(***************************************************************************)
(* Machine B: the Go replicator (cmd/replicator/main.go), against C's      *)
(* record table (upsertRecords, queryRecords and deleteRecord of           *)
(* cmd/receiver/main.go) into which A keeps uploading.                     *)
(*                                                                         *)
(* B runs two loops at once.  The fetch loop asks C for its newest         *)
(* BatchSize records and stores each in one MySQL transaction together     *)
(* with a row of the delete queue.  The delete loop reads due rows of that *)
(* queue, asks C to delete each by id, and writes back how it went.  C     *)
(* deletes only records older than MinAge and answers 200 either way.      *)
(*                                                                         *)
(* The clock counts coarse units in which only record ages are told apart; *)
(* the back-off of a failed delete, seconds long, is the flag due.         *)
(***************************************************************************)
EXTENDS Integers, FiniteSets, FiniteSetsExt

CONSTANTS
    Keys,           \* record keys, in their order
    Timed,          \* keys whose records carry a parseable source time
    Unreadable,     \* <<key, version>> C has no raw JSON of, or MySQL refuses
    Size,           \* size of each record in a query response
    ResponseLimit,  \* what doJSON reads of a response
    BatchSize,      \* FETCH_BATCH_SIZE
    Cleanup,        \* ENABLE_CLEANUP
    MinAge,         \* MIN_DELETE_AGE_HOURS
    MaxVersion,     \* bound: versions of one record A uploads
    MaxTime,        \* bound: the last clock value
    MaxId,          \* bound: ids C hands out
    MaxFaults,      \* bound: faults in one behaviour
    None            \* no row, no job, no time

ASSUME KeysAssumption == Keys \subseteq Nat
ASSUME SubsetsAssumption == Timed \subseteq Keys /\ Unreadable \subseteq Keys \X Nat
ASSUME SizeAssumption == Size \in [Keys -> Nat]
ASSUME BoundsAssumption ==
    /\ ResponseLimit \in Nat /\ BatchSize \in Nat \ {0} /\ Cleanup \in BOOLEAN
    /\ MinAge \in Nat /\ MaxVersion \in Nat \ {0} /\ MaxTime \in Nat
    /\ MaxId \in Nat /\ MaxFaults \in Nat

Versions == 1 .. MaxVersion
Times == 0 .. MaxTime
Ids == 1 .. MaxId
CRow == [id : Ids, ver : Versions, ingested : Times, source : Times \cup {None}]
Fetched == [key : Keys, id : Ids, ver : Versions, time : Times]
Replica == [cid : Ids, ver : Versions]
Job == [qid : Nat, cid : Ids, status : {"pending", "failed", "done"}, due : BOOLEAN]
LoadedJob == [key : Keys, qid : Nat, cid : Ids]

ASSUME NoneAssumption == None \notin CRow \cup Replica \cup Job \cup Times

VARIABLES
    clock,
    uploaded,  \* newest version of each record A has sent, 0 for none
    recs,      \* C: wds_receive_records
    nextId,    \* C: the next AUTOINCREMENT id
    repl,      \* B: wds_replicated_records and the business tables
    queue,     \* B: wds_c_delete_queue, by its unique record_key
    nextQid,   \* B: the next AUTO_INCREMENT id of the queue
    fetched,   \* fetch loop: records of the response not yet stored
    jobs,      \* delete loop: jobs loaded and not yet finished
    answer,    \* delete loop: what came of the first job's request
    strays,    \* ids of DELETE requests B gave up on and C may yet execute
    faults

cVars == <<uploaded, recs, nextId>>
bVars == <<repl, queue, nextQid>>
deleteVars == <<jobs, answer, strays>>
vars == <<clock, cVars, bVars, fetched, deleteVars, faults>>

TypeOK ==
    /\ clock \in Times
    /\ uploaded \in [Keys -> 0 .. MaxVersion]
    /\ recs \in [Keys -> CRow \cup {None}]
    /\ nextId \in 1 .. MaxId + 1
    /\ repl \in [Keys -> Replica \cup {None}]
    /\ queue \in [Keys -> Job \cup {None}]
    /\ nextQid \in Nat
    /\ fetched \subseteq Fetched
    /\ jobs \subseteq LoadedJob
    /\ answer \in {"none", "ok", "error"}
    /\ strays \subseteq Ids
    /\ faults \in 0 .. MaxFaults

Init ==
    /\ clock = 0
    /\ uploaded = [k \in Keys |-> 0]
    /\ recs = [k \in Keys |-> None]
    /\ nextId = 1
    /\ repl = [k \in Keys |-> None]
    /\ queue = [k \in Keys |-> None]
    /\ nextQid = 1
    /\ fetched = {} /\ jobs = {} /\ answer = "none" /\ strays = {}
    /\ faults = 0

Fault == faults < MaxFaults /\ faults' = faults + 1

Tick ==
    /\ clock < MaxTime
    /\ clock' = clock + 1
    /\ UNCHANGED <<cVars, bVars, fetched, deleteVars, faults>>

-----------------------------------------------------------------------------
(* C.                                                                      *)

(* COALESCE(source_time, ingested_at)                                      *)
RecordTime(row) == IF row.source = None THEN row.ingested ELSE row.source

Held == {k \in Keys : recs[k] # None}

(* Records from the backlog, and fresh ones.                               *)
SourceTimes(k) == IF k \in Timed THEN {0, clock} ELSE {None}

(* Fault variant: without AUTOINCREMENT, SQLite reuses the id of a deleted *)
(* last row.                                                               *)
UploadReusedId(k) ==
    \E v \in {uploaded[k], uploaded[k] + 1} \cap Versions, s \in SourceTimes(k) :
        LET free == CHOOSE n \in Ids : /\ \A j \in Held : recs[j].id < n
                                       /\ n = 1 \/ \E j \in Held : recs[j].id = n - 1
        IN  /\ uploaded' = [uploaded EXCEPT ![k] = v]
            /\ recs' = [recs EXCEPT ![k] =
                 IF @ = None
                 THEN [id |-> free, ver |-> v, ingested |-> clock, source |-> s]
                 ELSE [@ EXCEPT !.ver = v, !.source = s]]
            /\ UNCHANGED <<clock, nextId, bVars, fetched, deleteVars, faults>>

(* A sends a record, a newer version of it, or the same one again.  The    *)
(* upsert gives a new row an id and its ingested_at, and leaves both alone *)
(* on an existing row.                                                     *)
Upload(k) ==
    \E v \in {uploaded[k], uploaded[k] + 1} \cap Versions, s \in SourceTimes(k) :
        /\ uploaded' = [uploaded EXCEPT ![k] = v]
        /\ \/ /\ recs[k] = None
              /\ nextId <= MaxId
              /\ recs' = [recs EXCEPT ![k] =
                   [id |-> nextId, ver |-> v, ingested |-> clock, source |-> s]]
              /\ nextId' = nextId + 1
           \/ /\ recs[k] # None
              /\ recs' = [recs EXCEPT ![k].ver = v, ![k].source = s]
              /\ UNCHANGED nextId
        /\ UNCHANGED <<clock, bVars, fetched, deleteVars, faults>>

(* ORDER BY COALESCE(source_time, ingested_at) DESC, record_key DESC       *)
Ahead(j, k) ==
    \/ RecordTime(recs[j]) > RecordTime(recs[k])
    \/ RecordTime(recs[j]) = RecordTime(recs[k]) /\ j > k

(* ... LIMIT ?, with OFFSET 0: B asks for no other page.                   *)
queryRecords == {k \in Held : Cardinality({j \in Held : Ahead(j, k)}) < BatchSize}

(* DELETE ... WHERE id = ? AND COALESCE(source_time, ingested_at) < cutoff *)
Deletable(k, cid) ==
    recs[k] # None /\ recs[k].id = cid /\ RecordTime(recs[k]) < clock - MinAge

deleteRecord(cid) ==
    recs' = [k \in Keys |-> IF Deletable(k, cid) THEN None ELSE recs[k]]

-----------------------------------------------------------------------------
(* B, the fetch loop.                                                      *)

(* Fault variant: source_time as it is, which may be null.                 *)
RowSourceTime(k) == [key |-> k, id |-> recs[k].id, ver |-> recs[k].ver, time |-> recs[k].source]

Row(k) == [key |-> k, id |-> recs[k].id, ver |-> recs[k].ver, time |-> RecordTime(recs[k])]

(* Fault variant: a tick fetches while the previous fetch is being stored. *)
FetchOverlapping ==
    /\ MapThenSumSet(LAMBDA k : Size[k], queryRecords) <= ResponseLimit
    /\ fetched' = fetched \cup {Row(k) : k \in queryRecords}
    /\ UNCHANGED <<clock, cVars, bVars, deleteVars, faults>>

(* A response longer than the limit is cut off, does not decode, and fails *)
(* the fetch before anything is stored.                                    *)
FetchBegin ==
    /\ fetched = {}
    /\ MapThenSumSet(LAMBDA k : Size[k], queryRecords) <= ResponseLimit
    /\ fetched' = {Row(k) : k \in queryRecords}
    /\ UNCHANGED <<clock, cVars, bVars, deleteVars, faults>>

(* The record of the response whose turn it is.                            *)
IsNext(r) ==
    r \in fetched /\ \A q \in fetched \ {r} :
        q.time < r.time \/ (q.time = r.time /\ q.key < r.key)

Readable(r) == <<r.key, r.ver>> \notin Unreadable

NewJob(r) == [qid |-> nextQid, cid |-> r.id, status |-> "pending", due |-> TRUE]

(* Fault variant: the upsert of the queue keeps the old c_record_id.       *)
EnqueueKeepsId(r) ==
    \/ /\ ~Cleanup /\ UNCHANGED <<queue, nextQid>>
    \/ /\ Cleanup /\ queue[r.key] = None
       /\ queue' = [queue EXCEPT ![r.key] = NewJob(r)]
       /\ nextQid' = nextQid + 1
    \/ /\ Cleanup /\ queue[r.key] # None
       /\ queue' = [queue EXCEPT ![r.key].status = "pending", ![r.key].due = TRUE]
       /\ UNCHANGED nextQid

Enqueue(r) ==
    \/ /\ ~Cleanup /\ UNCHANGED <<queue, nextQid>>
    \/ /\ Cleanup /\ queue[r.key] = None
       /\ queue' = [queue EXCEPT ![r.key] = NewJob(r)]
       /\ nextQid' = nextQid + 1
    \/ /\ Cleanup /\ queue[r.key] # None
       /\ queue' = [queue EXCEPT ![r.key].cid = r.id, ![r.key].status = "pending",
                                 ![r.key].due = TRUE]
       /\ UNCHANGED nextQid

(* Fault variant: INSERT IGNORE leaves an existing replica as it is.       *)
StoreIgnored(r) ==
    /\ repl' = [repl EXCEPT ![r.key] = IF @ = None THEN [cid |-> r.id, ver |-> r.ver] ELSE @]
    /\ Enqueue(r)

(* storeRecord: replica, business row and queue row in one transaction.    *)
StoreRecord(r) ==
    /\ repl' = [repl EXCEPT ![r.key] = [cid |-> r.id, ver |-> r.ver]]
    /\ Enqueue(r)

Store ==
    \E r \in fetched :
        /\ IsNext(r) /\ Readable(r)
        /\ StoreRecord(r)
        /\ fetched' = fetched \ {r}
        /\ UNCHANGED <<clock, cVars, deleteVars, faults>>

(* The first record that cannot be stored ends the fetch.                  *)
StoreRejects ==
    \E r \in fetched :
        /\ IsNext(r) /\ ~Readable(r)
        /\ fetched' = {}
        /\ UNCHANGED <<clock, cVars, bVars, deleteVars, faults>>

(* Fault variant: the queue row is committed on its own.                   *)
StoreFailsHalf ==
    \E r \in fetched :
        /\ IsNext(r) /\ Readable(r)
        /\ Fault
        /\ UNCHANGED repl /\ (UNCHANGED <<queue, nextQid>> \/ Enqueue(r))
        /\ fetched' = {}
        /\ UNCHANGED <<clock, cVars, deleteVars>>

(* MySQL fails, and the fetch ends: the transaction is rolled back, or it  *)
(* is committed and only the answer is lost.                               *)
StoreFails ==
    \E r \in fetched :
        /\ IsNext(r) /\ Readable(r)
        /\ Fault
        /\ UNCHANGED bVars \/ StoreRecord(r)
        /\ fetched' = {}
        /\ UNCHANGED <<clock, cVars, deleteVars>>

-----------------------------------------------------------------------------
(* B, the delete loop.                                                     *)

DueJobs == {k \in Keys : queue[k] # None /\ queue[k].status # "done" /\ queue[k].due}

(* loadDeleteJobs: ORDER BY id LIMIT ?                                     *)
DeleteLoad ==
    /\ Cleanup /\ jobs = {} /\ DueJobs # {}
    /\ jobs' = {[key |-> k, qid |-> queue[k].qid, cid |-> queue[k].cid] :
                  k \in {k \in DueJobs :
                    Cardinality({j \in DueJobs : queue[j].qid < queue[k].qid}) < BatchSize}}
    /\ UNCHANGED <<clock, cVars, bVars, fetched, answer, strays, faults>>

IsCurrent(job) == job \in jobs /\ \A j \in jobs : job.qid <= j.qid

(* C executes the DELETE; the answer arrives, or is lost.                  *)
DeleteCall ==
    \E job \in jobs :
        /\ IsCurrent(job) /\ answer = "none"
        /\ deleteRecord(job.cid)
        /\ \/ answer' = "ok" /\ UNCHANGED faults
           \/ answer' = "error" /\ Fault
        /\ UNCHANGED <<clock, uploaded, nextId, bVars, fetched, jobs, strays>>

(* What becomes of the request under way when B stops waiting for it: it   *)
(* is lost, or C still executes it later.                                  *)
Abandon ==
    strays' \in {strays} \cup {strays \cup {job.cid} :
                                 job \in {j \in jobs : IsCurrent(j) /\ answer = "none"}}

(* The DELETE does not reach C, or C fails it, or the deadline passes.     *)
DeleteCallFails ==
    /\ jobs # {} /\ answer = "none"
    /\ Fault
    /\ Abandon
    /\ answer' = "error"
    /\ UNCHANGED <<clock, cVars, bVars, fetched, jobs>>

StrayDelete ==
    \E cid \in strays :
        /\ deleteRecord(cid)
        /\ strays' = strays \ {cid}
        /\ UNCHANGED <<clock, uploaded, nextId, bVars, fetched, jobs, answer, faults>>

(* UPDATE ... WHERE id = ?, whatever the row says by now.                  *)
SetJob(job, status, due) ==
    queue' = [queue EXCEPT ![job.key].status = status, ![job.key].due = due]

MarkDeleteDone ==
    \E job \in jobs :
        /\ IsCurrent(job) /\ answer = "ok"
        /\ SetJob(job, "done", queue[job.key].due)
        /\ jobs' = jobs \ {job} /\ answer' = "none"
        /\ UNCHANGED <<clock, cVars, repl, nextQid, fetched, strays, faults>>

MarkDeleteFailure ==
    \E job \in jobs :
        /\ IsCurrent(job) /\ answer = "error"
        /\ SetJob(job, "failed", FALSE)
        /\ jobs' = jobs \ {job} /\ answer' = "none"
        /\ UNCHANGED <<clock, cVars, repl, nextQid, fetched, strays, faults>>

(* Writing back fails, although the UPDATE may have taken effect:          *)
(* deletePending returns and drops the other jobs.                         *)
MarkFails ==
    \E job \in jobs :
        /\ IsCurrent(job) /\ answer # "none"
        /\ Fault
        /\ \/ UNCHANGED queue
           \/ answer = "ok" /\ SetJob(job, "done", queue[job.key].due)
           \/ answer = "error" /\ SetJob(job, "failed", FALSE)
        /\ jobs' = {} /\ answer' = "none"
        /\ UNCHANGED <<clock, cVars, repl, nextQid, fetched, strays>>

(* next_attempt_at has passed (retryDelay).                                *)
BackoffEnds(k) ==
    /\ queue[k] # None /\ ~queue[k].due
    /\ queue' = [queue EXCEPT ![k].due = TRUE]
    /\ UNCHANGED <<clock, cVars, repl, nextQid, fetched, deleteVars, faults>>

(* B stops and starts again; MySQL keeps what was committed.               *)
Crash ==
    /\ Fault
    /\ Abandon
    /\ fetched' = {} /\ jobs' = {} /\ answer' = "none"
    /\ UNCHANGED <<clock, cVars, bVars>>

-----------------------------------------------------------------------------
FetchStep == FetchBegin \/ Store \/ StoreRejects
DeleteStep == DeleteLoad \/ DeleteCall \/ MarkDeleteDone \/ MarkDeleteFailure
FaultStep == StoreFails \/ DeleteCallFails \/ StrayDelete \/ MarkFails \/ Crash

Next ==
    \/ Tick \/ \E k \in Keys : Upload(k) \/ BackoffEnds(k)
    \/ FetchStep \/ DeleteStep \/ FaultStep

Spec == Init /\ [][Next]_vars

(* Both loops run for ever; A, the clock and faults are not obliged.       *)
FairSpec == Spec /\ WF_vars(FetchStep) /\ WF_vars(DeleteStep)

-----------------------------------------------------------------------------
(* The second hop seen as a delivery: A's upload offers a record, B's      *)
(* replica stores it, and C confirms by letting the record go.  An upload  *)
(* of a record C has let go takes that back.                               *)
Offered == {k \in Keys : uploaded[k] > 0}
Replicated == {k \in Keys : repl[k] # None}
LetGo == {k \in Keys : uploaded[k] > 0 /\ recs[k] = None}

Deliver == INSTANCE Delivery WITH
    Items <- Keys, offered <- Offered, stored <- Replicated, confirmed <- LetGo

(* The hop from C to B implements Delivery: C lets a record go only in a   *)
(* step after B stored it, and B stores only what A has uploaded and keeps *)
(* it, through failing transactions, late requests and crashes             *)
(* (storeRecord, deletePending, deleteRecord).                             *)
ImplementsDelivery == Deliver!Spec

(* C deletes a record on B's request only when B has a copy of it, of this *)
(* version or of another: a stale job whose id C has since given away, or  *)
(* a queue row without its replica, would break it (storeRecord,           *)
(* deletePending, AUTOINCREMENT of wds_receive_records).                   *)
DeletedKnown ==
    [][\A k \in Keys : recs[k] # None /\ recs'[k] = None => repl[k] # None]_vars

(* The queue always names the id under which the replica was last fetched, *)
(* so that a record C stored anew is not left behind (storeRecord).        *)
JobMatchesReplica ==
    \A k \in Keys : queue[k] # None => repl[k] # None /\ queue[k].cid = repl[k].cid

(* Fetching again never takes B back to an older version of a record       *)
(* (fetchAndStore, storeRecord).                                           *)
ReplicaAdvances ==
    [][\A k \in Keys : repl[k] # None => repl'[k] # None /\ repl'[k].ver >= repl[k].ver]_vars

(* Every version A uploads reaches B, itself or superseded, unless C       *)
(* holds a record B cannot store, which ends every fetch at that point     *)
(* until A uploads a better version of it (fetchLoop, fetchAndStore).      *)
ReplicaCatchesUp ==
    \A k \in Keys, v \in Versions :
        (uploaded[k] = v)
        ~> \/ repl[k] # None /\ repl[k].ver >= v
           \/ \E j \in Keys : recs[j] # None /\ <<j, recs[j].ver>> \in Unreadable
=============================================================================
