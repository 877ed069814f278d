-------------------------- MODULE ReplicatorProofs --------------------------
(* Safety of the Go replicator: what C deletes on B's request B has, and   *)
(* B never goes back to an older version, for any keys, batch size,        *)
(* minimum age and number of faults.                                       *)
EXTENDS Replicator, TLAPS

(* C has given this id away, and to no record but the one of this key.     *)
BelongsTo(id, k) ==
    id < nextId /\ \A j \in Keys : recs[j] # None /\ recs[j].id = id => j = k

(* Whatever the two loops know an id by is the record that has it, if any  *)
(* has: in the response, in the queue, in the jobs loaded from it, and in  *)
(* requests B has forgotten about.                                         *)
IdsBelong ==
    /\ \A k \in Keys : recs[k] # None => BelongsTo(recs[k].id, k)
    /\ \A r \in fetched : BelongsTo(r.id, r.key)
    /\ \A k \in Keys : queue[k] # None => BelongsTo(queue[k].cid, k)
    /\ \A job \in jobs : BelongsTo(job.cid, job.key)
    /\ \A cid \in strays : \E k \in Keys : BelongsTo(cid, k) /\ repl[k] # None

(* A job is loaded from a row of the queue, which stays.                   *)
JobsQueued == \A job \in jobs : queue[job.key] # None

(* Without ENABLE_CLEANUP the queue is empty.                              *)
QueueNeedsCleanup == \A k \in Keys : queue[k] # None => Cleanup

IInv == TypeOK /\ JobMatchesReplica /\ JobsQueued /\ QueueNeedsCleanup /\ IdsBelong

(* C holds the newest version; a response lies between the replica and it, *)
(* and names no record twice.                                              *)
VersionsOrdered ==
    /\ \A k \in Keys : recs[k] # None => recs[k].ver = uploaded[k]
    /\ \A k \in Keys : repl[k] # None => repl[k].ver <= uploaded[k]
    /\ \A r \in fetched :
         /\ r.ver <= uploaded[r.key]
         /\ repl[r.key] # None => repl[r.key].ver <= r.ver
    /\ \A r, q \in fetched : r.key = q.key => r = q

(* A row C holds has the time it is ordered by, and becomes a record of    *)
(* the response (queryRecords).                                            *)
LEMMA RowType ==
    ASSUME TypeOK, NEW k \in Keys, recs[k] # None
    PROVE  RecordTime(recs[k]) \in Times /\ Row(k) \in Fetched
<1>1. recs[k] \in CRow
    BY DEF TypeOK
<1>2. RecordTime(recs[k]) \in Times
    BY <1>1 DEF CRow, RecordTime
<1> QED
    BY <1>1, <1>2 DEF CRow, Row, Fetched

(* What the DELETE statement leaves is what it found (deleteRecord).       *)
LEMMA DeleteRecs ==
    ASSUME TypeOK, NEW cid, deleteRecord(cid)
    PROVE  /\ recs' \in [Keys -> CRow \cup {None}]
           /\ \A k \in Keys : recs'[k] # None => recs[k] # None /\ recs'[k] = recs[k]
           /\ \A k \in Keys : recs[k] # None /\ recs'[k] = None => recs[k].id = cid
BY DEF TypeOK, deleteRecord, Deletable

(* What the transaction of storeRecord leaves behind: the replica it was   *)
(* given and, with cleanup, a queue row of the same id.                    *)
LEMMA StoreRows ==
    ASSUME TypeOK, QueueNeedsCleanup, NEW r \in Fetched, StoreRecord(r)
    PROVE  /\ repl' \in [Keys -> Replica \cup {None}]
           /\ queue' \in [Keys -> Job \cup {None}]
           /\ nextQid' \in Nat
           /\ repl'[r.key] # None /\ repl'[r.key].cid = r.id /\ repl'[r.key].ver = r.ver
           /\ queue'[r.key] # None => Cleanup /\ queue'[r.key].cid = r.id
           /\ \A k \in Keys : k # r.key => repl'[k] = repl[k] /\ queue'[k] = queue[k]
           /\ \A k \in Keys : queue[k] # None => queue'[k] # None
<1>1. r.key \in Keys /\ r.id \in Ids /\ r.ver \in Versions
    BY DEF Fetched
<1>2. /\ [cid |-> r.id, ver |-> r.ver] \in Replica
      /\ [cid |-> r.id, ver |-> r.ver] # None
    BY <1>1, NoneAssumption DEF Replica
<1>3. /\ repl' \in [Keys -> Replica \cup {None}]
      /\ repl'[r.key] = [cid |-> r.id, ver |-> r.ver]
      /\ \A k \in Keys : k # r.key => repl'[k] = repl[k]
    BY <1>1, <1>2 DEF StoreRecord, TypeOK
<1>4. PICK yes \in BOOLEAN : yes = TRUE
    OBVIOUS
<1>5. /\ queue' \in [Keys -> Job \cup {None}]
      /\ nextQid' \in Nat
      /\ queue'[r.key] # None => Cleanup /\ queue'[r.key].cid = r.id
      /\ \A k \in Keys : k # r.key => queue'[k] = queue[k]
      /\ \A k \in Keys : queue[k] # None => queue'[k] # None
    <2>1. CASE ~Cleanup /\ UNCHANGED <<queue, nextQid>>
        BY <1>1, <2>1 DEF TypeOK, QueueNeedsCleanup
    <2>2. CASE /\ Cleanup /\ queue[r.key] = None
               /\ queue' = [queue EXCEPT ![r.key] = NewJob(r)]
               /\ nextQid' = nextQid + 1
        <3>1. NewJob(r) = [qid |-> nextQid, cid |-> r.id, status |-> "pending", due |-> yes]
            BY <1>4 DEF NewJob
        <3>2. NewJob(r) \in Job /\ NewJob(r).cid = r.id
            BY <1>1, <3>1 DEF Job, TypeOK
        <3>3. NewJob(r) # None
            BY <3>2, NoneAssumption
        <3> QED
            BY <1>1, <2>2, <3>2, <3>3 DEF TypeOK
    <2>3. CASE /\ Cleanup /\ queue[r.key] # None
               /\ queue' = [queue EXCEPT ![r.key].cid = r.id, ![r.key].status = "pending",
                                         ![r.key].due = TRUE]
               /\ UNCHANGED nextQid
        <3> DEFINE row == [queue[r.key] EXCEPT !.cid = r.id, !.status = "pending", !.due = TRUE]
        <3>1. queue[r.key] \in Job
            BY <1>1, <2>3 DEF TypeOK
        <3>2. queue' = [queue EXCEPT ![r.key] = row]
            BY <1>1, <2>3 DEF TypeOK
        <3>3. row = [queue[r.key] EXCEPT !.cid = r.id, !.status = "pending", !.due = yes]
            BY <1>4
        <3> HIDE DEF row
        <3>4. row \in Job /\ row # None /\ row.cid = r.id
            BY <1>1, <3>1, <3>3, NoneAssumption DEF Job
        <3>5. Cleanup /\ nextQid' = nextQid
            BY <2>3
        <3> QED
            BY <1>1, <3>2, <3>4, <3>5 DEF TypeOK
    <2> QED
        BY <2>1, <2>2, <2>3 DEF StoreRecord, Enqueue
<1> QED
    BY <1>1, <1>2, <1>3, <1>5

(* Writing back the outcome of a job keeps its row and its id              *)
(* (markDeleteDone, markDeleteFailure).                                    *)
LEMMA SetJobRows ==
    ASSUME TypeOK, JobsQueued, NEW job \in jobs,
           NEW status \in {"pending", "failed", "done"}, NEW due \in BOOLEAN,
           SetJob(job, status, due)
    PROVE  /\ queue' \in [Keys -> Job \cup {None}]
           /\ \A k \in Keys : queue'[k] # None <=> queue[k] # None
           /\ \A k \in Keys : queue[k] # None => queue'[k].cid = queue[k].cid
<1> DEFINE row == [queue[job.key] EXCEPT !.status = status, !.due = due]
<1>1. job.key \in Keys /\ queue[job.key] \in Job
    BY DEF TypeOK, LoadedJob, JobsQueued
<1>2. row \in Job /\ row # None /\ row.cid = queue[job.key].cid
    BY <1>1, NoneAssumption DEF Job
<1>3. queue' = [queue EXCEPT ![job.key] = row]
    BY <1>1 DEF SetJob, TypeOK
<1> HIDE DEF row
<1> QED
    BY <1>1, <1>2, <1>3, NoneAssumption DEF TypeOK

(* What an upload does to C's table: the row of its key has the version    *)
(* sent, and the id it had or one never given away (upsertRecords).        *)
LEMMA UploadRecs ==
    ASSUME TypeOK, NEW k \in Keys, Upload(k)
    PROVE  /\ uploaded' \in [Keys -> 0 .. MaxVersion]
           /\ recs' \in [Keys -> CRow \cup {None}]
           /\ nextId' \in 1 .. MaxId + 1 /\ nextId <= nextId'
           /\ recs'[k] # None /\ recs'[k].ver = uploaded'[k] /\ uploaded[k] <= uploaded'[k]
           /\ \/ recs[k] # None /\ recs'[k].id = recs[k].id
              \/ recs'[k].id = nextId /\ nextId' = nextId + 1
           /\ \A j \in Keys : j # k => recs'[j] = recs[j] /\ uploaded'[j] = uploaded[j]
           /\ UNCHANGED <<clock, bVars, fetched, deleteVars, faults>>
<1>1. PICK v \in {uploaded[k], uploaded[k] + 1} \cap Versions : \E s \in SourceTimes(k) :
        /\ uploaded' = [uploaded EXCEPT ![k] = v]
        /\ \/ /\ recs[k] = None
              /\ nextId <= MaxId
              /\ recs' = [recs EXCEPT ![k] =
                   [id |-> nextId, ver |-> v, ingested |-> clock, source |-> s]]
              /\ nextId' = nextId + 1
           \/ /\ recs[k] # None
              /\ recs' = [recs EXCEPT ![k].ver = v, ![k].source = s]
              /\ UNCHANGED nextId
        /\ UNCHANGED <<clock, bVars, fetched, deleteVars, faults>>
    BY DEF Upload
<1>2. PICK s \in SourceTimes(k) :
        /\ uploaded' = [uploaded EXCEPT ![k] = v]
        /\ \/ /\ recs[k] = None
              /\ nextId <= MaxId
              /\ recs' = [recs EXCEPT ![k] =
                   [id |-> nextId, ver |-> v, ingested |-> clock, source |-> s]]
              /\ nextId' = nextId + 1
           \/ /\ recs[k] # None
              /\ recs' = [recs EXCEPT ![k].ver = v, ![k].source = s]
              /\ UNCHANGED nextId
        /\ UNCHANGED <<clock, bVars, fetched, deleteVars, faults>>
    BY <1>1
<1>3. v \in Versions /\ uploaded[k] <= v /\ uploaded[k] \in 0 .. MaxVersion
    BY BoundsAssumption DEF TypeOK, Versions
<1>4. s \in Times \cup {None}
    BY BoundsAssumption DEF SourceTimes, TypeOK, Times
<1>5. /\ uploaded' \in [Keys -> 0 .. MaxVersion]
      /\ uploaded'[k] = v
      /\ \A j \in Keys : j # k => uploaded'[j] = uploaded[j]
    BY <1>2, <1>3, BoundsAssumption DEF TypeOK, Versions
<1>6. /\ recs' \in [Keys -> CRow \cup {None}]
      /\ nextId' \in 1 .. MaxId + 1 /\ nextId <= nextId'
      /\ recs'[k] # None /\ recs'[k].ver = v
      /\ \/ recs[k] # None /\ recs'[k].id = recs[k].id
         \/ recs'[k].id = nextId /\ nextId' = nextId + 1
      /\ \A j \in Keys : j # k => recs'[j] = recs[j]
    <2>1. CASE recs[k] = None
        <3> DEFINE row == [id |-> nextId, ver |-> v, ingested |-> clock, source |-> s]
        <3>1. nextId <= MaxId /\ nextId' = nextId + 1 /\ recs' = [recs EXCEPT ![k] = row]
            BY <1>2, <2>1
        <3>2. nextId \in Ids /\ nextId' \in 1 .. MaxId + 1 /\ nextId <= nextId'
            BY <3>1, BoundsAssumption DEF TypeOK, Ids
        <3>3. row \in CRow /\ row.id = nextId /\ row.ver = v
            BY <1>3, <1>4, <3>2 DEF CRow, TypeOK
        <3>4. row # None
            BY <3>3, NoneAssumption
        <3> HIDE DEF row
        <3> QED
            BY <3>1, <3>2, <3>3, <3>4 DEF TypeOK
    <2>2. CASE recs[k] # None
        <3> DEFINE row == [recs[k] EXCEPT !.ver = v, !.source = s]
        <3>1. nextId' = nextId /\ recs' = [recs EXCEPT ![k] = row]
            BY <1>2, <2>2 DEF TypeOK
        <3>2. row \in CRow /\ row.id = recs[k].id /\ row.ver = v
            BY <1>3, <1>4, <2>2 DEF CRow, TypeOK
        <3>3. row # None
            BY <3>2, NoneAssumption
        <3> HIDE DEF row
        <3>4. nextId <= nextId' /\ nextId' \in 1 .. MaxId + 1
            BY <3>1, BoundsAssumption DEF TypeOK
        <3> QED
            BY <2>2, <3>1, <3>2, <3>3, <3>4 DEF TypeOK
    <2> QED
        BY <2>1, <2>2
<1> QED
    BY <1>2, <1>3, <1>5, <1>6

(* An id stays with the record it belongs to, whatever C deletes and       *)
(* whoever uploads (AUTOINCREMENT of wds_receive_records).                 *)
LEMMA IdsKept ==
    ASSUME TypeOK, nextId' \in Nat, nextId <= nextId',
           \A j \in Keys : recs'[j] # None =>
             \/ recs[j] # None /\ recs'[j].id = recs[j].id
             \/ recs'[j].id = nextId,
           NEW id \in Nat, NEW k \in Keys, BelongsTo(id, k)
    PROVE  BelongsTo(id, k)'
<1>1. nextId \in Nat /\ id < nextId
    BY BoundsAssumption DEF TypeOK, BelongsTo
<1>2. id < nextId'
    BY <1>1
<1>3. \A j \in Keys : recs'[j] # None /\ recs'[j].id = id => recs[j] # None /\ recs[j].id = id
    BY <1>1
<1> QED
    BY <1>2, <1>3 DEF BelongsTo

(* The same for the steps in which C gives no id away.                     *)
LEMMA IdsKeptByOthers ==
    ASSUME TypeOK, IdsBelong, UNCHANGED nextId,
           \A k \in Keys : recs'[k] # None => recs[k] # None /\ recs'[k] = recs[k]
    PROVE  /\ \A id \in Ids, k \in Keys : BelongsTo(id, k) => BelongsTo(id, k)'
           /\ (\A k \in Keys : recs[k] # None => BelongsTo(recs[k].id, k))'
<1>1. nextId \in Nat /\ nextId' \in Nat /\ nextId <= nextId' /\ Ids \subseteq Nat
    BY BoundsAssumption DEF TypeOK, Ids
<1>2. \A id \in Ids, k \in Keys : BelongsTo(id, k) => BelongsTo(id, k)'
    BY <1>1, IdsKept
<1>3. \A k \in Keys : recs[k] # None => recs[k].id \in Ids
    BY DEF TypeOK, CRow
<1> QED
    BY <1>2, <1>3 DEF IdsBelong

(* The types hold when a fault is counted.                                 *)
LEMMA FaultType == ASSUME TypeOK, Fault PROVE faults' \in 0 .. MaxFaults
BY BoundsAssumption DEF TypeOK, Fault

(* The ids of requests B gives up on are ids of jobs it had loaded         *)
(* (deletePending, its request deadline).                                  *)
LEMMA AbandonIds ==
    ASSUME TypeOK, Abandon
    PROVE  /\ strays' \subseteq Ids
           /\ \A cid \in strays' : cid \in strays \/ \E job \in jobs : cid = job.cid
BY DEF Abandon, TypeOK, LoadedJob

(* Storing a record of a response keeps the invariant (storeRecord).       *)
LEMMA StoreInv ==
    ASSUME IInv, NEW r \in fetched, StoreRecord(r), fetched' \subseteq fetched,
           UNCHANGED <<clock, cVars, deleteVars>>, faults' \in 0 .. MaxFaults
    PROVE  IInv'
<1> USE DEF IInv
<1>1. r \in Fetched /\ r.key \in Keys /\ r.id \in Ids
    BY DEF TypeOK, Fetched
<1>2. TypeOK'
    BY <1>1, StoreRows DEF TypeOK, cVars, deleteVars
<1>3. JobMatchesReplica'
    BY <1>1, StoreRows DEF JobMatchesReplica
<1>4. JobsQueued'
    BY <1>1, StoreRows DEF JobsQueued, deleteVars, TypeOK, LoadedJob
<1>5. QueueNeedsCleanup'
    BY <1>1, StoreRows DEF QueueNeedsCleanup
<1>6. IdsBelong'
    <2>1. /\ \A id \in Ids, k \in Keys : BelongsTo(id, k) => BelongsTo(id, k)'
          /\ (\A k \in Keys : recs[k] # None => BelongsTo(recs[k].id, k))'
        BY IdsKeptByOthers DEF cVars
    <2>2. \A q \in fetched' : BelongsTo(q.id, q.key)'
        BY <2>1 DEF IdsBelong, TypeOK, Fetched
    <2>3. (\A k \in Keys : queue[k] # None => BelongsTo(queue[k].cid, k))'
        <3>1. \A k \in Keys : queue[k] # None => queue[k].cid \in Ids
            BY DEF TypeOK, Job
        <3>2. BelongsTo(r.id, r.key)'
            BY <1>1, <2>1 DEF IdsBelong
        <3> QED
            BY <1>1, <2>1, <3>1, <3>2, StoreRows DEF IdsBelong
    <2>4. \A job \in jobs' : BelongsTo(job.cid, job.key)'
        BY <2>1 DEF IdsBelong, TypeOK, LoadedJob, deleteVars
    <2>5. \A cid \in strays' : \E k \in Keys : BelongsTo(cid, k)' /\ repl'[k] # None
        <3>1. \A k \in Keys : repl[k] # None => repl'[k] # None
            BY <1>1, StoreRows
        <3> QED
            BY <2>1, <3>1 DEF IdsBelong, TypeOK, deleteVars
    <2> QED
        BY <2>1, <2>2, <2>3, <2>4, <2>5 DEF IdsBelong
<1> QED
    BY <1>2, <1>3, <1>4, <1>5, <1>6

(* So does every step that stores no record and gives no id away: C only   *)
(* deletes, B keeps every queue row and its id, forgets what it held in    *)
(* memory or loads jobs from the queue, and abandons requests of jobs.     *)
LEMMA OtherInv ==
    ASSUME IInv, TypeOK', UNCHANGED <<nextId, repl>>,
           \A k \in Keys : recs'[k] # None => recs[k] # None /\ recs'[k] = recs[k],
           \A k \in Keys : queue'[k] # None <=> queue[k] # None,
           \A k \in Keys : queue[k] # None => queue'[k].cid = queue[k].cid,
           \A r \in fetched' : r \in fetched \/ \E k \in Held : r = Row(k),
           \A job \in jobs' : \/ job \in jobs
                              \/ queue[job.key] # None /\ job.cid = queue[job.key].cid,
           \A cid \in strays' : cid \in strays \/ \E job \in jobs : cid = job.cid
    PROVE  IInv'
<1> USE DEF IInv
<1>1. JobMatchesReplica' /\ QueueNeedsCleanup'
    BY DEF JobMatchesReplica, QueueNeedsCleanup
<1>2. JobsQueued'
    BY DEF JobsQueued, TypeOK, LoadedJob
<1>3. IdsBelong'
    <2>1. /\ \A id \in Ids, k \in Keys : BelongsTo(id, k) => BelongsTo(id, k)'
          /\ (\A k \in Keys : recs[k] # None => BelongsTo(recs[k].id, k))'
        BY IdsKeptByOthers
    <2>2. \A k \in Keys : recs[k] # None => recs[k].id \in Ids
        BY DEF TypeOK, CRow
    <2>3. \A k \in Keys : queue[k] # None => queue[k].cid \in Ids
        BY DEF TypeOK, Job
    <2>4. \A job \in jobs : job.cid \in Ids /\ job.key \in Keys
        BY DEF TypeOK, LoadedJob
    <2>5. \A r \in fetched' : BelongsTo(r.id, r.key)'
        <3>1. \A r \in fetched : BelongsTo(r.id, r.key)'
            BY <2>1 DEF IdsBelong, TypeOK, Fetched
        <3>2. ASSUME NEW k \in Held, NEW r, r = Row(k) PROVE BelongsTo(r.id, r.key)'
            BY <2>1, <2>2, <3>2 DEF IdsBelong, Held, Row
        <3> QED
            BY <3>1, <3>2
    <2>6. (\A k \in Keys : queue[k] # None => BelongsTo(queue[k].cid, k))'
        BY <2>1, <2>3 DEF IdsBelong
    <2>7. \A job \in jobs' : BelongsTo(job.cid, job.key)'
        <3>1. \A job \in jobs' : job.key \in Keys
            BY DEF TypeOK, LoadedJob
        <3> QED
            BY <2>1, <2>3, <2>4, <3>1 DEF IdsBelong
    <2>8. \A cid \in strays' : \E k \in Keys : BelongsTo(cid, k)' /\ repl'[k] # None
        <3>1. \A job \in jobs : BelongsTo(job.cid, job.key) /\ repl[job.key] # None
            BY <2>4 DEF IdsBelong, JobsQueued, JobMatchesReplica
        <3> QED
            BY <2>1, <2>4, <3>1 DEF IdsBelong, TypeOK
    <2> QED
        BY <2>1, <2>5, <2>6, <2>7, <2>8 DEF IdsBelong
<1> QED
    BY <1>1, <1>2, <1>3

(* Every step of the clock, of A and of both loops keeps the invariant.    *)
LEMMA InvStep == IInv /\ [Next]_vars => IInv'
<1> SUFFICES ASSUME IInv, [Next]_vars PROVE IInv'
    OBVIOUS
<1>0. TypeOK /\ JobMatchesReplica /\ JobsQueued /\ QueueNeedsCleanup /\ IdsBelong
    BY DEF IInv
<1>1. CASE Tick
    <2>1. TypeOK'
        BY <1>0, <1>1, BoundsAssumption DEF Tick, TypeOK, cVars, bVars, deleteVars, Times
    <2> QED
        BY <1>1, <2>1, OtherInv DEF Tick, cVars, bVars, deleteVars
<1>2. ASSUME NEW k \in Keys, Upload(k) PROVE IInv'
    <2>1. TypeOK'
        BY <1>0, <1>2, UploadRecs DEF TypeOK, bVars, deleteVars
    <2>2. JobMatchesReplica' /\ QueueNeedsCleanup' /\ JobsQueued'
        BY <1>0, <1>2, UploadRecs
           DEF JobMatchesReplica, QueueNeedsCleanup, JobsQueued, bVars, deleteVars
    <2>3. /\ nextId \in Nat /\ nextId' \in Nat /\ nextId <= nextId'
          /\ nextId \notin {id \in Ids : id < nextId}
        BY <1>0, <1>2, UploadRecs, BoundsAssumption DEF TypeOK
    <2>4. \A id \in Ids, j \in Keys : BelongsTo(id, j) => BelongsTo(id, j)'
        <3>1. Ids \subseteq Nat
            BY DEF Ids
        <3>2. \A j \in Keys : recs'[j] # None =>
                 \/ recs[j] # None /\ recs'[j].id = recs[j].id
                 \/ recs'[j].id = nextId
            BY <1>0, <1>2, UploadRecs
        <3> QED
            BY <1>0, <2>3, <3>1, <3>2, IdsKept
    <2>5. (\A j \in Keys : recs[j] # None => BelongsTo(recs[j].id, j))'
        <3>1. \A j \in Keys : recs[j] # None => recs[j].id \in Ids
            BY <1>0 DEF TypeOK, CRow
        <3>2. CASE recs[k] # None /\ recs'[k].id = recs[k].id
            BY <1>0, <1>2, <2>4, <3>1, <3>2, UploadRecs DEF IdsBelong
        <3>3. CASE recs'[k].id = nextId /\ nextId' = nextId + 1
            <4>1. \A j \in Keys : j # k /\ recs'[j] # None =>
                    recs'[j].id # nextId /\ BelongsTo(recs[j].id, j)' /\ recs'[j] = recs[j]
                BY <1>0, <1>2, <2>3, <2>4, <3>1, UploadRecs DEF IdsBelong, BelongsTo
            <4>2. nextId < nextId'
                BY <2>3, <3>3
            <4>3. (BelongsTo(recs[k].id, k))'
                BY <3>3, <4>1, <4>2 DEF BelongsTo
            <4> QED
                BY <4>1, <4>3
        <3> QED
            BY <1>0, <1>2, <3>2, <3>3, UploadRecs
    <2>6. /\ \A r \in fetched : r.id \in Ids /\ r.key \in Keys
          /\ \A j \in Keys : queue[j] # None => queue[j].cid \in Ids
          /\ \A job \in jobs : job.cid \in Ids /\ job.key \in Keys
          /\ strays \subseteq Ids
        BY <1>0 DEF TypeOK, Fetched, Job, LoadedJob
    <2>7. IdsBelong'
        BY <1>0, <1>2, <2>4, <2>5, <2>6, UploadRecs DEF IdsBelong, bVars, deleteVars
    <2> QED
        BY <2>1, <2>2, <2>7 DEF IInv
<1>3. ASSUME NEW k \in Keys, BackoffEnds(k) PROVE IInv'
    <2>1. PICK yes \in BOOLEAN : yes = TRUE
        OBVIOUS
    <2> DEFINE row == [queue[k] EXCEPT !.due = TRUE]
    <2>2. queue' = [queue EXCEPT ![k] = row] /\ queue[k] \in Job
        BY <1>0, <1>3 DEF BackoffEnds, TypeOK
    <2>3. row = [queue[k] EXCEPT !.due = yes]
        BY <2>1
    <2> HIDE DEF row
    <2>4. row \in Job /\ row.cid = queue[k].cid /\ row # None
        BY <2>2, <2>3, NoneAssumption DEF Job
    <2>5. queue[k] # None /\ UNCHANGED <<clock, cVars, repl, nextQid, fetched, deleteVars, faults>>
        BY <1>3 DEF BackoffEnds
    <2>6. TypeOK'
        BY <1>0, <2>2, <2>4, <2>5 DEF TypeOK, cVars, deleteVars
    <2> QED
        BY <1>0, <2>2, <2>4, <2>5, <2>6, OtherInv DEF TypeOK, cVars, deleteVars
<1>4. CASE FetchBegin
    <2>1. fetched' = {Row(k) : k \in queryRecords} /\ UNCHANGED <<clock, cVars, bVars, deleteVars, faults>>
        BY <1>4 DEF FetchBegin
    <2>2. \A r \in fetched' : \E k \in Held : r = Row(k)
        BY <2>1 DEF queryRecords
    <2>3. fetched' \subseteq Fetched
        BY <1>0, <2>2, RowType DEF Held
    <2>4. TypeOK'
        BY <1>0, <2>1, <2>3 DEF TypeOK, cVars, bVars, deleteVars
    <2> QED
        BY <2>1, <2>2, <2>4, OtherInv DEF cVars, bVars, deleteVars
<1>5. CASE Store
    BY <1>0, <1>5, StoreInv DEF Store, TypeOK
<1>6. CASE StoreRejects
    <2>1. TypeOK'
        BY <1>0, <1>6 DEF StoreRejects, TypeOK, cVars, bVars, deleteVars
    <2> QED
        BY <1>6, <2>1, OtherInv DEF StoreRejects, cVars, bVars, deleteVars
<1>7. CASE StoreFails
    <2>1. PICK r \in fetched : /\ Fault
                               /\ UNCHANGED bVars \/ StoreRecord(r)
                               /\ fetched' = {}
                               /\ UNCHANGED <<clock, cVars, deleteVars>>
        BY <1>7 DEF StoreFails
    <2>2. faults' \in 0 .. MaxFaults
        BY <1>0, <1>7, FaultType DEF StoreFails
    <2>3. CASE StoreRecord(r)
        BY <2>1, <2>2, <2>3, StoreInv
    <2>4. CASE UNCHANGED bVars
        <3>1. TypeOK'
            BY <1>0, <2>1, <2>2, <2>4 DEF TypeOK, cVars, bVars, deleteVars
        <3> QED
            BY <2>1, <2>4, <3>1, OtherInv DEF cVars, bVars, deleteVars
    <2> QED
        BY <2>1, <2>3, <2>4
<1>8. CASE DeleteLoad
    <2>1. /\ \A job \in jobs' : \E k \in DueJobs :
                job = [key |-> k, qid |-> queue[k].qid, cid |-> queue[k].cid]
          /\ UNCHANGED <<clock, cVars, bVars, fetched, answer, strays, faults>>
        BY <1>8 DEF DeleteLoad
    <2>2. \A k \in DueJobs : k \in Keys /\ queue[k] # None /\ queue[k] \in Job
        BY <1>0 DEF DueJobs, TypeOK
    <2>3. \A job \in jobs' : /\ job \in LoadedJob
                             /\ queue[job.key] # None /\ job.cid = queue[job.key].cid
        BY <2>1, <2>2 DEF Job, LoadedJob
    <2>4. TypeOK'
        BY <1>0, <2>1, <2>3 DEF TypeOK, cVars, bVars
    <2> QED
        BY <2>1, <2>3, <2>4, OtherInv DEF cVars, bVars
<1>9. CASE DeleteCall
    <2>1. PICK job \in jobs : /\ deleteRecord(job.cid)
                              /\ \/ answer' = "ok" /\ UNCHANGED faults
                                 \/ answer' = "error" /\ Fault
                              /\ UNCHANGED <<clock, uploaded, nextId, bVars, fetched, jobs, strays>>
        BY <1>9 DEF DeleteCall
    <2>2. TypeOK'
        BY <1>0, <2>1, DeleteRecs, FaultType DEF TypeOK, bVars
    <2> QED
        BY <1>0, <2>1, <2>2, DeleteRecs, OtherInv DEF bVars
<1>10. CASE DeleteCallFails
    <2>1. TypeOK'
        BY <1>0, <1>10, AbandonIds, FaultType DEF DeleteCallFails, TypeOK, cVars, bVars
    <2> QED
        BY <1>0, <1>10, <2>1, AbandonIds, OtherInv DEF DeleteCallFails, cVars, bVars
<1>11. CASE StrayDelete
    <2>1. PICK cid \in strays : /\ deleteRecord(cid)
                                /\ strays' = strays \ {cid}
                                /\ UNCHANGED <<clock, uploaded, nextId, bVars, fetched, jobs, answer, faults>>
        BY <1>11 DEF StrayDelete
    <2>2. TypeOK'
        BY <1>0, <2>1, DeleteRecs DEF TypeOK, bVars
    <2> QED
        BY <1>0, <2>1, <2>2, DeleteRecs, OtherInv DEF bVars
<1>12. ASSUME NEW job \in jobs,
              NEW status \in {"pending", "failed", "done"}, NEW due \in BOOLEAN,
              SetJob(job, status, due), jobs' \subseteq jobs, answer' = "none",
              faults' \in 0 .. MaxFaults,
              UNCHANGED <<clock, cVars, repl, nextQid, fetched, strays>>
       PROVE  IInv'
    <2>1. TypeOK'
        BY <1>0, <1>12, SetJobRows DEF TypeOK, cVars
    <2> QED
        BY <1>0, <1>12, <2>1, SetJobRows, OtherInv DEF cVars
<1>13. \A job \in jobs : queue[job.key].due \in BOOLEAN
    BY <1>0 DEF JobsQueued, TypeOK, Job, LoadedJob
<1>14. PICK no \in BOOLEAN : no = FALSE
    OBVIOUS
<1>15. faults \in 0 .. MaxFaults
    BY <1>0 DEF TypeOK
<1>16. CASE MarkDeleteDone
    BY <1>12, <1>13, <1>15, <1>16 DEF MarkDeleteDone
<1>17. CASE MarkDeleteFailure
    BY <1>12, <1>14, <1>15, <1>17 DEF MarkDeleteFailure
<1>18. CASE MarkFails
    <2>1. PICK job \in jobs :
            /\ Fault
            /\ \/ UNCHANGED queue
               \/ answer = "ok" /\ SetJob(job, "done", queue[job.key].due)
               \/ answer = "error" /\ SetJob(job, "failed", FALSE)
            /\ jobs' = {} /\ answer' = "none"
            /\ UNCHANGED <<clock, cVars, repl, nextQid, fetched, strays>>
        BY <1>18 DEF MarkFails
    <2>2. faults' \in 0 .. MaxFaults
        BY <1>0, <2>1, FaultType
    <2>3. CASE UNCHANGED queue
        <3>1. TypeOK'
            BY <1>0, <2>1, <2>2, <2>3 DEF TypeOK, cVars
        <3> QED
            BY <2>1, <2>3, <3>1, OtherInv DEF cVars
    <2>4. CASE SetJob(job, "done", queue[job.key].due)
        BY <1>12, <1>13, <2>1, <2>2, <2>4
    <2>5. CASE SetJob(job, "failed", FALSE)
        BY <1>12, <1>14, <2>1, <2>2, <2>5
    <2> QED
        BY <2>1, <2>3, <2>4, <2>5
<1>19. CASE Crash
    <2>1. TypeOK'
        BY <1>0, <1>19, AbandonIds, FaultType DEF Crash, TypeOK, cVars, bVars
    <2> QED
        BY <1>0, <1>19, <2>1, AbandonIds, OtherInv DEF Crash, cVars, bVars
<1>20. CASE UNCHANGED vars
    <2>1. TypeOK'
        BY <1>0, <1>20 DEF vars, TypeOK, cVars, bVars, deleteVars
    <2> QED
        BY <1>20, <2>1, OtherInv DEF vars, cVars, bVars, deleteVars
<1> QED
    BY <1>1, <1>2, <1>3, <1>4, <1>5, <1>6, <1>7, <1>8, <1>9, <1>10, <1>11, <1>16, <1>17,
       <1>18, <1>19, <1>20 DEF Next, FetchStep, DeleteStep, FaultStep

(* The invariant holds when A, B and C start empty.                        *)
LEMMA InvInit == Init => IInv
<1> SUFFICES ASSUME Init PROVE IInv
    OBVIOUS
<1>1. TypeOK
    BY BoundsAssumption DEF Init, TypeOK, Times
<1> QED
    BY <1>1 DEF Init, IInv, JobMatchesReplica, JobsQueued, QueueNeedsCleanup, IdsBelong

(* The invariant holds throughout.                                         *)
LEMMA Invariant == Spec => []IInv
BY InvInit, InvStep, PTL DEF Spec

(* Every variable of C's table and of both loops keeps its type: no column *)
(* of a queue row is written on a row that is not there.                   *)
THEOREM TypeCorrect == Spec => []TypeOK
BY Invariant, PTL DEF IInv

(* The delete queue always names the id under which the replica was last   *)
(* fetched, whatever is stored, fails, is written back late or crashes     *)
(* (storeRecord).                                                          *)
THEOREM JobSafety == Spec => []JobMatchesReplica
BY Invariant, PTL DEF IInv

(* C deletes on B's request only records B has a copy of, though jobs are  *)
(* loaded long before they are sent, requests B gave up on arrive late and *)
(* records are uploaded anew meanwhile (deletePending, deleteRecord).      *)
THEOREM DeletionSafety == Spec => DeletedKnown
<1> DEFINE Known == \A k \in Keys : recs[k] # None /\ recs'[k] = None => repl[k] # None
<1>1. ASSUME IInv, [Next]_vars PROVE Known
    <2>0. TypeOK /\ JobMatchesReplica /\ JobsQueued /\ IdsBelong
        BY <1>1 DEF IInv
    <2>1. \A job \in jobs : \A k \in Keys :
             recs[k] # None /\ recs[k].id = job.cid => repl[k] # None
        BY <2>0 DEF IdsBelong, BelongsTo, JobsQueued, JobMatchesReplica
    <2>2. \A cid \in strays : \A k \in Keys :
             recs[k] # None /\ recs[k].id = cid => repl[k] # None
        BY <2>0 DEF IdsBelong, BelongsTo
    <2>3. CASE DeleteCall
        BY <2>0, <2>1, <2>3, DeleteRecs DEF DeleteCall
    <2>4. CASE StrayDelete
        BY <2>0, <2>2, <2>4, DeleteRecs DEF StrayDelete
    <2>5. ASSUME NEW j \in Keys, Upload(j) PROVE Known
        BY <2>0, <2>5, UploadRecs
    <2>6. CASE UNCHANGED recs
        BY <2>6
    <2> HIDE DEF Known
    <2> QED
        BY <1>1, <2>3, <2>4, <2>5, <2>6
           DEF Next, FetchStep, DeleteStep, FaultStep, vars, cVars, Tick, BackoffEnds,
               FetchBegin, Store, StoreRejects, StoreFails, DeleteLoad, DeleteCallFails,
               MarkDeleteDone, MarkDeleteFailure, MarkFails, Crash
<1>2. ASSUME IInv, [Next]_vars PROVE [Known]_vars
    BY <1>1, <1>2
<1> QED
    BY <1>2, Invariant, PTL DEF Spec, DeletedKnown

(* Versions only go forward at C, in a response and at B: every step keeps *)
(* them ordered and takes no replica back.                                 *)
LEMMA VersionsStep ==
    ASSUME IInv, VersionsOrdered, [Next]_vars
    PROVE  /\ VersionsOrdered'
           /\ \A k \in Keys : repl[k] # None => repl'[k] # None /\ repl'[k].ver >= repl[k].ver
<1> DEFINE Advance ==
        \A k \in Keys : repl[k] # None => repl'[k] # None /\ repl'[k].ver >= repl[k].ver
<1>0. TypeOK /\ QueueNeedsCleanup
    BY DEF IInv
<1>1. /\ \A k \in Keys : uploaded[k] \in Int
      /\ \A k \in Keys : recs[k] # None => recs[k].ver \in Int
      /\ \A k \in Keys : repl[k] # None => repl[k].ver \in Int
      /\ \A r \in fetched : r.key \in Keys /\ r.ver \in Int
    BY <1>0 DEF TypeOK, CRow, Replica, Fetched, Versions
<1>2. ASSUME UNCHANGED <<uploaded, repl>>, fetched' \subseteq fetched,
             \A k \in Keys : recs'[k] # None => recs[k] # None /\ recs'[k] = recs[k]
      PROVE  VersionsOrdered' /\ Advance
    BY <1>1, <1>2 DEF VersionsOrdered
<1>3. ASSUME NEW r \in fetched, StoreRecord(r), UNCHANGED <<uploaded, recs>>,
             fetched' \subseteq fetched \ {r}
      PROVE  VersionsOrdered' /\ Advance
    <2>1. r \in Fetched
        BY <1>0 DEF TypeOK
    <2>2. /\ repl'[r.key] # None /\ repl'[r.key].ver = r.ver
          /\ \A k \in Keys : k # r.key => repl'[k] = repl[k]
        BY <1>0, <1>3, <2>1, StoreRows
    <2>3. Advance
        BY <1>1, <2>2 DEF VersionsOrdered
    <2>4. \A q \in fetched' : q \in fetched /\ q.key # r.key
        BY <1>3 DEF VersionsOrdered
    <2>5. VersionsOrdered'
        BY <1>1, <1>3, <2>2, <2>4 DEF VersionsOrdered
    <2> QED
        BY <2>3, <2>5
<1>4. ASSUME NEW k \in Keys, Upload(k) PROVE VersionsOrdered' /\ Advance
    <2>1. UNCHANGED <<repl, fetched>>
        BY <1>0, <1>4, UploadRecs DEF bVars
    <2>2. \A j \in Keys : uploaded[j] <= uploaded'[j] /\ uploaded'[j] \in Int
        <3>1. /\ \A j \in Keys : uploaded'[j] \in Int
              /\ uploaded[k] <= uploaded'[k]
              /\ \A j \in Keys : j # k => uploaded'[j] = uploaded[j]
            BY <1>0, <1>4, UploadRecs
        <3> QED
            BY <1>1, <3>1
    <2>3. \A j \in Keys : recs'[j] # None => recs'[j].ver = uploaded'[j]
        BY <1>0, <1>4, UploadRecs DEF VersionsOrdered
    <2> QED
        BY <1>1, <2>1, <2>2, <2>3 DEF VersionsOrdered
<1>5. CASE FetchBegin
    <2>1. fetched' = {Row(k) : k \in queryRecords} /\ UNCHANGED <<uploaded, recs, repl>>
        BY <1>5 DEF FetchBegin, cVars, bVars
    <2>2. \A r \in fetched' : /\ r.key \in Keys /\ recs[r.key] # None
                             /\ r = Row(r.key) /\ r.ver = recs[r.key].ver
        <3> SUFFICES ASSUME NEW r \in fetched'
                     PROVE  /\ r.key \in Keys /\ recs[r.key] # None
                            /\ r = Row(r.key) /\ r.ver = recs[r.key].ver
            OBVIOUS
        <3>1. PICK k \in queryRecords : r = Row(k)
            BY <2>1
        <3>2. k \in Keys /\ recs[k] # None
            BY DEF queryRecords, Held
        <3>3. r.key = k /\ r.ver = recs[k].ver
            BY <3>1 DEF Row
        <3> QED
            BY <3>1, <3>2, <3>3
    <2>3. \A r \in fetched' : r.ver = uploaded[r.key]
        BY <2>2 DEF VersionsOrdered
    <2>4. \A r, q \in fetched' : r.key = q.key => r = q
        BY <2>2
    <2> QED
        BY <1>1, <2>1, <2>2, <2>3, <2>4 DEF VersionsOrdered
<1>6. CASE Store
    BY <1>3, <1>6 DEF Store, cVars
<1>7. CASE StoreFails
    <2>1. PICK r \in fetched : /\ UNCHANGED bVars \/ StoreRecord(r)
                               /\ fetched' = {}
                               /\ UNCHANGED <<clock, cVars, deleteVars>>
        BY <1>7 DEF StoreFails
    <2>2. CASE UNCHANGED bVars
        BY <1>2, <2>1, <2>2 DEF cVars, bVars
    <2>3. CASE StoreRecord(r)
        BY <1>3, <2>1, <2>3 DEF cVars
    <2> HIDE DEF Advance
    <2> QED
        BY <2>1, <2>2, <2>3
<1>8. CASE DeleteCall
    <2>1. PICK job \in jobs : /\ deleteRecord(job.cid)
                              /\ UNCHANGED <<clock, uploaded, nextId, bVars, fetched, jobs, strays>>
        BY <1>8 DEF DeleteCall
    <2> QED
        BY <1>0, <1>2, <2>1, DeleteRecs DEF bVars
<1>9. CASE StrayDelete
    <2>1. PICK cid \in strays : /\ deleteRecord(cid)
                                /\ UNCHANGED <<clock, uploaded, nextId, bVars, fetched>>
        BY <1>9 DEF StrayDelete
    <2> QED
        BY <1>0, <1>2, <2>1, DeleteRecs DEF bVars
<1>10. CASE \/ Tick \/ \E k \in Keys : BackoffEnds(k)
            \/ StoreRejects \/ DeleteLoad \/ DeleteCallFails
            \/ MarkDeleteDone \/ MarkDeleteFailure \/ MarkFails \/ Crash
            \/ UNCHANGED vars
    <2>1. UNCHANGED <<uploaded, repl, recs>> /\ fetched' \subseteq fetched
        BY <1>10
           DEF Tick, BackoffEnds, StoreRejects, DeleteLoad, DeleteCallFails, MarkDeleteDone,
               MarkDeleteFailure, MarkFails, Crash, vars, cVars, bVars
    <2> QED
        BY <1>2, <2>1
<1>11. VersionsOrdered' /\ Advance
    BY <1>4, <1>5, <1>6, <1>7, <1>8, <1>9, <1>10 DEF Next, FetchStep, DeleteStep, FaultStep, vars
<1> QED
    BY <1>11

(* Fetching again never takes B back to an older version, though C may     *)
(* have deleted the record and A uploaded it anew between the query and    *)
(* the transaction (fetchAndStore, storeRecord).                           *)
THEOREM AdvanceSafety == Spec => ReplicaAdvances
<1> DEFINE Advance ==
        \A k \in Keys : repl[k] # None => repl'[k] # None /\ repl'[k].ver >= repl[k].ver
<1>1. Init => VersionsOrdered
    BY DEF Init, VersionsOrdered
<1>2. IInv /\ VersionsOrdered /\ [Next]_vars => VersionsOrdered'
    BY VersionsStep
<1>3. IInv /\ VersionsOrdered /\ [Next]_vars => [Advance]_vars
    BY VersionsStep
<1> QED
    BY <1>1, <1>2, <1>3, Invariant, PTL DEF Spec, ReplicaAdvances

-----------------------------------------------------------------------------
(* Each step of A, B and C is one of Delivery or none.                     *)
LEMMA StepDelivers ==
    ASSUME IInv, VersionsOrdered, [Next]_vars
    PROVE  Deliver!Next \/ UNCHANGED <<Offered, Replicated, LetGo>>
<1> DEFINE Delivers == Deliver!Next \/ UNCHANGED <<Offered, Replicated, LetGo>>
<1> SUFFICES Delivers
    OBVIOUS
<1>0. TypeOK /\ QueueNeedsCleanup /\ JobMatchesReplica /\ JobsQueued /\ IdsBelong
    BY DEF IInv
<1>1. ASSUME UNCHANGED <<uploaded, recs, repl>> PROVE Delivers
    BY <1>1 DEF Offered, Replicated, LetGo
<1>2. ASSUME NEW r \in fetched, StoreRecord(r), UNCHANGED <<uploaded, recs>> PROVE Delivers
    <2>1. r \in Fetched
        BY <1>0 DEF TypeOK
    <2>2. r.key \in Keys /\ r.ver >= 1 /\ r.ver \in Int /\ uploaded[r.key] \in Int
        BY <1>0, <2>1 DEF Fetched, Versions, TypeOK
    <2>3. r.key \in Offered
        BY <2>2 DEF VersionsOrdered, Offered
    <2>4. /\ repl'[r.key] # None
          /\ \A k \in Keys : k # r.key => repl'[k] = repl[k]
        BY <1>0, <1>2, <2>1, StoreRows
    <2>5. Replicated' = Replicated \cup {r.key}
        BY <2>2, <2>4 DEF Replicated
    <2>6. UNCHANGED <<Offered, LetGo>>
        BY <1>2 DEF Offered, LetGo
    <2>7. Deliver!Store({r.key})
        BY <2>3, <2>5, <2>6 DEF Deliver!Store
    <2> QED
        BY <2>2, <2>7 DEF Deliver!Next
<1>3. ASSUME NEW cid, deleteRecord(cid), UNCHANGED <<uploaded, repl>>,
             \A k \in Keys : recs[k] # None /\ recs[k].id = cid => repl[k] # None
      PROVE  Delivers
    <2> DEFINE gone == {k \in Keys : recs[k] # None /\ recs'[k] = None}
    <2>1. /\ \A k \in Keys : recs'[k] # None => recs[k] # None /\ recs'[k] = recs[k]
          /\ \A k \in Keys : recs[k] # None /\ recs'[k] = None => recs[k].id = cid
        BY <1>0, <1>3, DeleteRecs
    <2>2. gone \subseteq Replicated
        BY <1>3, <2>1 DEF Replicated
    <2>3. \A k \in gone : uploaded[k] > 0
        <3>1. \A k \in gone : recs[k] \in CRow /\ recs[k].ver = uploaded[k]
            BY <1>0 DEF VersionsOrdered, TypeOK
        <3> QED
            BY <3>1 DEF CRow, Versions
    <2>4. LetGo' = LetGo \cup gone
        BY <1>3, <2>1, <2>3 DEF LetGo
    <2>5. UNCHANGED <<Offered, Replicated>>
        BY <1>3 DEF Offered, Replicated
    <2>6. Deliver!Confirm(gone)
        BY <2>2, <2>4, <2>5 DEF Deliver!Confirm
    <2>7. gone \in SUBSET Keys
        OBVIOUS
    <2> HIDE DEF gone
    <2> QED
        BY <2>6, <2>7 DEF Deliver!Next
<1>4. ASSUME NEW k \in Keys, Upload(k) PROVE Delivers
    <2>1. /\ uploaded' \in [Keys -> 0 .. MaxVersion]
          /\ recs'[k] # None
          /\ \A j \in Keys : j # k => recs'[j] = recs[j] /\ uploaded'[j] = uploaded[j]
          /\ UNCHANGED repl
        BY <1>0, <1>4, UploadRecs DEF bVars
    <2>2. uploaded'[k] >= 1 /\ uploaded[k] \in 0 .. MaxVersion
        BY <1>0, <1>4 DEF Upload, Versions, TypeOK
    <2>3. UNCHANGED Replicated /\ Offered' = Offered \cup {k}
        BY <2>1, <2>2 DEF Replicated, Offered
    <2>4. LetGo' = LetGo \ {k}
        BY <2>1 DEF LetGo
    <2>5. CASE uploaded[k] = 0
        <3>1. UNCHANGED LetGo
            BY <2>4, <2>5 DEF LetGo
        <3>2. Deliver!Offer(k)
            BY <2>3, <3>1 DEF Deliver!Offer
        <3> QED
            BY <3>2 DEF Deliver!Next
    <2>6. CASE uploaded[k] # 0
        <3>1. UNCHANGED Offered
            BY <2>2, <2>3, <2>6 DEF Offered
        <3>2. Deliver!Withdraw({k})
            BY <2>3, <2>4, <3>1 DEF Deliver!Withdraw
        <3> QED
            BY <3>2 DEF Deliver!Next
    <2> QED
        BY <2>5, <2>6
<1> HIDE DEF Delivers
<1>5. CASE Store
    BY <1>2, <1>5 DEF Store, cVars
<1>6. CASE StoreFails
    BY <1>1, <1>2, <1>6 DEF StoreFails, cVars, bVars
<1>7. CASE DeleteCall
    <2>1. PICK job \in jobs : deleteRecord(job.cid) /\ UNCHANGED <<uploaded, bVars>>
        BY <1>7 DEF DeleteCall
    <2>2. \A k \in Keys : recs[k] # None /\ recs[k].id = job.cid => repl[k] # None
        BY <1>0 DEF IdsBelong, BelongsTo, JobsQueued, JobMatchesReplica
    <2> QED
        BY <1>3, <2>1, <2>2 DEF bVars
<1>8. CASE StrayDelete
    <2>1. PICK cid \in strays : deleteRecord(cid) /\ UNCHANGED <<uploaded, bVars>>
        BY <1>8 DEF StrayDelete
    <2>2. \A k \in Keys : recs[k] # None /\ recs[k].id = cid => repl[k] # None
        BY <1>0 DEF IdsBelong, BelongsTo
    <2> QED
        BY <1>3, <2>1, <2>2 DEF bVars
<1>9. CASE \/ Tick \/ \E k \in Keys : BackoffEnds(k)
           \/ FetchBegin \/ StoreRejects \/ DeleteLoad \/ DeleteCallFails
           \/ MarkDeleteDone \/ MarkDeleteFailure \/ MarkFails \/ Crash
           \/ UNCHANGED vars
    <2>1. UNCHANGED <<uploaded, recs, repl>>
        BY <1>9
           DEF Tick, BackoffEnds, FetchBegin, StoreRejects, DeleteLoad, DeleteCallFails,
               MarkDeleteDone, MarkDeleteFailure, MarkFails, Crash, vars, cVars, bVars
    <2> QED
        BY <1>1, <2>1
<1> QED
    BY <1>4, <1>5, <1>6, <1>7, <1>8, <1>9 DEF Next, FetchStep, DeleteStep, FaultStep

(* The hop from C to B implements Delivery: C lets a record go only in a   *)
(* step after B stored it, and B stores only what A has uploaded and keeps *)
(* it, for any keys and faults (storeRecord, deletePending, deleteRecord). *)
THEOREM Implementation == Spec => ImplementsDelivery
<1>1. Init => Deliver!Init /\ VersionsOrdered
    BY DEF Init, Deliver!Init, Offered, Replicated, LetGo, VersionsOrdered
<1>2. IInv /\ VersionsOrdered /\ [Next]_vars => VersionsOrdered'
    BY VersionsStep
<1>3. IInv /\ VersionsOrdered /\ [Next]_vars => [Deliver!Next]_(Deliver!deliveryVars)
    BY StepDelivers DEF Deliver!deliveryVars
<1> QED
    BY <1>1, <1>2, <1>3, Invariant, PTL DEF Spec, ImplementsDelivery, Deliver!Spec

(* What C let go B keeps: a record A has ever uploaded is at C or at B.    *)
NothingLost == \A k \in Keys : uploaded[k] > 0 => recs[k] # None \/ repl[k] # None

(* No record disappears on its way: through lost answers, late requests,   *)
(* ids given out anew and crashes of B, each record A has uploaded is at C *)
(* or at B, in some version (deletePending, deleteRecord, upsertRecords).  *)
THEOREM LossSafety == Spec => []NothingLost
<1> DEFINE Kept == LetGo \subseteq Replicated
<1>1. Init => Kept /\ VersionsOrdered
    BY DEF Init, LetGo, Replicated, VersionsOrdered
<1>2. IInv /\ VersionsOrdered /\ [Next]_vars => VersionsOrdered'
    BY VersionsStep
<1>3. ASSUME IInv, VersionsOrdered, [Next]_vars, Kept PROVE Kept'
    <2>1. Deliver!Next => Kept'
        BY <1>3 DEF Deliver!Next, Deliver!Offer, Deliver!Store, Deliver!Confirm, Deliver!Withdraw
    <2>2. UNCHANGED <<LetGo, Replicated>> => Kept'
        BY <1>3
    <2> QED
        BY <1>3, <2>1, <2>2, StepDelivers
<1>4. Kept => NothingLost
    BY DEF LetGo, Replicated, NothingLost
<1> QED
    BY <1>1, <1>2, <1>3, <1>4, Invariant, PTL DEF Spec
=============================================================================
