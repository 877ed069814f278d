----------------------------- MODULE LocalSync ------------------------------
(***************************************************************************)
(* The Rust engine on the local SQLite cache: SyncEngine::sync_once        *)
(* (sync/engine.rs) over weighing_records (db/mod.rs), run by the cron     *)
(* jobs of the daemon, which share a mutex, and by the sync-now command,   *)
(* another process that takes no lock (main.rs).                           *)
(*                                                                         *)
(* A record is its id.  The cloud stores by id, and a record never         *)
(* changes, so it is a set.  Other tools may write to the cache, too.      *)
(***************************************************************************)
EXTENDS Integers, FiniteSets, CloudAck, CacheRow

CONSTANTS
    Records,    \* records the cache may come to hold
    Reading,    \* the readings some of them are made of
    Foreign,    \* the rows of the others, as other tools write them
    Refused,    \* records the cloud rejects every time
    Jobs,       \* cron jobs of the daemon that may be under way at once
    Manual,     \* sync-now processes
    BatchSize,  \* sync.batch_size
    MaxFaults,  \* bound: faults in one behaviour
    NoProc      \* the mutex is free

ASSUME RecordsAssumption ==
    /\ Records = DOMAIN Reading \cup DOMAIN Foreign
    /\ DOMAIN Reading \cap DOMAIN Foreign = {}
    /\ Refused \subseteq Records
ASSUME ReadingAssumption == \A r \in DOMAIN Reading : Reading[r].at \in Instant
ASSUME ProcsAssumption == Jobs \cap Manual = {} /\ NoProc \notin Jobs \cup Manual
ASSUME BoundsAssumption == BatchSize \in Nat \ {0} /\ MaxFaults \in Nat

VARIABLES
    status,    \* weighing_records.status, "absent" before insert_record
    marker,    \* history: the process that last marked each record as synced
    cloud,     \* ids the cloud has stored
    mutex,     \* the job that holds the engine
    pc,        \* where each process is in sync_once
    batch,     \* what its fetch_pending returned
    accepted,  \* ids it has yet to mark as synced
    rejected,  \* ids it has yet to mark as failed
    faults

procVars == <<mutex, pc, batch, accepted, rejected>>
vars == <<status, marker, cloud, procVars, faults>>

Procs == Jobs \cup Manual
Statuses == {"absent", "pending", "failed", "synced"}

TypeOK ==
    /\ status \in [Records -> Statuses]
    /\ marker \in [Records -> Procs \cup {NoProc}]
    /\ cloud \subseteq Records
    /\ mutex \in Jobs \cup {NoProc}
    /\ pc \in [Procs -> {"idle", "fetch", "upload", "synced", "failed"}]
    /\ batch \in [Procs -> SUBSET Records]
    /\ accepted \in [Procs -> SUBSET Records]
    /\ rejected \in [Procs -> SUBSET Records]
    /\ faults \in 0 .. MaxFaults

Init ==
    /\ status = [r \in Records |-> "absent"]
    /\ marker = [r \in Records |-> NoProc]
    /\ cloud = {}
    /\ mutex = NoProc
    /\ pc = [p \in Procs |-> "idle"]
    /\ batch = [p \in Procs |-> {}]
    /\ accepted = [p \in Procs |-> {}]
    /\ rejected = [p \in Procs |-> {}]
    /\ faults = 0

Fault == faults < MaxFaults /\ faults' = faults + 1

(* sync_once returns, with or without an error, and the guard is dropped.  *)
Return(ps) ==
    /\ pc' = [p \in Procs |-> IF p \in ps THEN "idle" ELSE pc[p]]
    /\ batch' = [p \in Procs |-> IF p \in ps THEN {} ELSE batch[p]]
    /\ accepted' = [p \in Procs |-> IF p \in ps THEN {} ELSE accepted[p]]
    /\ rejected' = [p \in Procs |-> IF p \in ps THEN {} ELSE rejected[p]]
    /\ mutex' = IF mutex \in ps THEN NoProc ELSE mutex

Goto(p, label) == pc' = [pc EXCEPT ![p] = label]

-----------------------------------------------------------------------------
Insert(r) ==
    /\ status[r] = "absent"
    /\ status' = [status EXCEPT ![r] = "pending"]
    /\ UNCHANGED <<marker, cloud, procVars, faults>>

insert_record(r) == r \in DOMAIN Reading /\ new(Reading[r]) /\ Insert(r)
ToolInserts(r) == r \in DOMAIN Foreign /\ Insert(r)

RowOf(r) == IF r \in DOMAIN Reading THEN Row(Reading[r]) ELSE Foreign[r]

(* Fault variant: jobs do not share the guarded engine.                    *)
BeginUnguarded(p) ==
    /\ pc[p] = "idle"
    /\ Goto(p, "fetch")
    /\ UNCHANGED <<status, marker, cloud, mutex, batch, accepted, rejected, faults>>

(* A job fires and gets the mutex, or somebody runs sync-now.              *)
Begin(p) ==
    /\ pc[p] = "idle"
    /\ \/ p \in Jobs /\ mutex = NoProc /\ mutex' = p
       \/ p \in Manual /\ UNCHANGED mutex
    /\ Goto(p, "fetch")
    /\ UNCHANGED <<status, marker, cloud, batch, accepted, rejected, faults>>

(* Fault variant: failed records are not read again.                       *)
UnsyncedPending == {r \in Records : status[r] = "pending"}

Unsynced == {r \in Records : status[r] \in {"pending", "failed"}}

(* ORDER BY measured_at ASC LIMIT ?, in the order of the text.             *)
Oldest ==
    {page \in SUBSET Unsynced :
        /\ Cardinality(page) <= BatchSize
        /\ Cardinality(page) = BatchSize \/ page = Unsynced
        /\ \A r \in page, s \in Unsynced \ page :
               ~TextBefore(RowOf(s).measured_at, RowOf(r).measured_at)}

(* One row that TryFrom refuses fails the whole fetch.                     *)
fetch_pending(p) ==
    /\ pc[p] = "fetch"
    /\ \E page \in Oldest :
        \/ page = {} /\ Return({p})
        \/ (\E r \in page : ~Readable(RowOf(r))) /\ Return({p})
        \/ /\ page # {} /\ \A r \in page : Readable(RowOf(r))
           /\ batch' = [batch EXCEPT ![p] = page]
           /\ Goto(p, "upload")
           /\ UNCHANGED <<mutex, accepted, rejected>>
    /\ UNCHANGED <<status, marker, cloud, faults>>

(* A 2xx answer.  It is a fault of the cloud to reject a record it would   *)
(* normally accept, or not to list the accepted ones next to the failed.   *)
UploadAnswered(p) ==
    /\ pc[p] = "upload"
    /\ \E kept \in SUBSET (batch[p] \ Refused) : \E reply \in Replies(batch[p], kept) :
        /\ \/ /\ kept = batch[p] \ Refused /\ Accepted(batch[p], reply) = kept
              /\ UNCHANGED faults
           \/ /\ kept # batch[p] \ Refused \/ Accepted(batch[p], reply) # kept
              /\ Fault
        /\ cloud' = cloud \cup kept
        /\ accepted' = [accepted EXCEPT ![p] = Accepted(batch[p], reply)]
        /\ rejected' = [rejected EXCEPT ![p] = reply.fail]
    /\ Goto(p, "synced")
    /\ UNCHANGED <<status, marker, mutex, batch>>

(* An attempt fails, before or after the cloud stored some records.  It is *)
(* repeated, or the error is permanent or the budget spent: then the whole *)
(* batch is to be marked as failed.                                        *)
UploadFails(p) ==
    /\ pc[p] = "upload"
    /\ Fault
    /\ \E kept \in SUBSET (batch[p] \ Refused) : cloud' = cloud \cup kept
    /\ \/ UNCHANGED <<pc, rejected>>
       \/ rejected' = [rejected EXCEPT ![p] = batch[p]] /\ Goto(p, "failed")
    /\ UNCHANGED <<status, marker, mutex, batch, accepted>>

(* UPDATE ... SET status = 'synced' WHERE id IN (...); no call for no ids. *)
mark_synced(p) ==
    /\ pc[p] = "synced"
    /\ status' = [r \in Records |-> IF r \in accepted[p] THEN "synced" ELSE status[r]]
    /\ marker' = [r \in Records |-> IF r \in accepted[p] THEN p ELSE marker[r]]
    /\ \/ rejected[p] = {} /\ Return({p})
       \/ /\ rejected[p] # {}
          /\ accepted' = [accepted EXCEPT ![p] = {}]
          /\ Goto(p, "failed")
          /\ UNCHANGED <<mutex, batch, rejected>>
    /\ UNCHANGED <<cloud, faults>>

(* Fault variant: a status the table's CHECK does not know.                *)
MarkRejected(p) ==
    /\ pc[p] = "failed"
    /\ status' = [r \in Records |-> IF r \in rejected[p] THEN "rejected" ELSE status[r]]
    /\ Return({p})
    /\ UNCHANGED <<marker, cloud, faults>>

(* UPDATE ... SET status = 'failed' WHERE id IN (...), whatever it was.    *)
mark_failed(p) ==
    /\ pc[p] = "failed"
    /\ status' = [r \in Records |-> IF r \in rejected[p] THEN "failed" ELSE status[r]]
    /\ Return({p})
    /\ UNCHANGED <<marker, cloud, faults>>

(* SQLite fails a SELECT or an UPDATE: sync_once returns the error.        *)
DbFails(p) ==
    /\ pc[p] \in {"fetch", "synced", "failed"}
    /\ Fault
    /\ Return({p})
    /\ UNCHANGED <<status, marker, cloud>>

(* The daemon dies with all its jobs, or a sync-now process is killed.     *)
Crash ==
    /\ Fault
    /\ \E ps \in {Jobs} \cup {{p} : p \in Manual} : Return(ps)
    /\ UNCHANGED <<status, marker, cloud>>

-----------------------------------------------------------------------------
Step(p) ==
    Begin(p) \/ fetch_pending(p) \/ UploadAnswered(p) \/ mark_synced(p) \/ mark_failed(p)

Next ==
    \/ \E r \in Records : insert_record(r) \/ ToolInserts(r)
    \/ \E p \in Procs : Step(p) \/ UploadFails(p) \/ DbFails(p)
    \/ Crash

Spec == Init /\ [][Next]_vars

(* The scheduler keeps firing, a job that holds the mutex goes on, and the *)
(* cloud answers, but for the faults.  Nobody has to run sync-now.         *)
FairSpec == Spec /\ WF_vars(\E p \in Jobs : Step(p))

-----------------------------------------------------------------------------
Deliver == INSTANCE Delivery WITH
    Items <- Records,
    offered <- {r \in Records : status[r] # "absent"},
    stored <- cloud,
    confirmed <- {r \in Records : status[r] = "synced"}

(* The engine implements Delivery, also when several processes share the   *)
(* cache: a mark may be taken back but is never set before the cloud has   *)
(* the record (sync_once, mark_synced, mark_failed).                       *)
ImplementsDelivery == Deliver!Spec

(* A record is marked synced only if the cloud has stored it, whichever    *)
(* processes share the cache and whatever fails (sync_once, mark_synced).  *)
SyncedInCloud == \A r \in Records : status[r] = "synced" => r \in cloud

(* A record that a job of the daemon marked as synced is taken back to     *)
(* failed by no other job, only by a sync-now process, which takes no lock *)
(* (mark_failed, the mutex of start_scheduler).                            *)
JobsKeepMarks ==
    [][\A r \in Records :
         status[r] = "synced" /\ marker[r] \in Jobs /\ status'[r] # "synced"
         => \E p \in Manual : pc'[p] # pc[p]]_vars

(* Every record the cloud does not refuse is in the end marked synced, in  *)
(* spite of the refused ones that are uploaded again and again: what       *)
(* insert_record writes can be read back, so that only another tool's row  *)
(* can fail the fetch (fetch_pending, sync_once, TryFrom).                 *)
EventuallySynced ==
    \A r \in Records \ Refused :
        (status[r] = "pending")
        ~> (status[r] = "synced"
            \/ \E u \in DOMAIN Foreign : status[u] # "absent" /\ ~Readable(Foreign[u]))

(* A cycle leaves no record for later that was measured before one it      *)
(* takes, with a fraction of a second or without: the order of the text is *)
(* the order of the times insert_record writes (fetch_pending).            *)
OldestFirst ==
    [][\A p \in Procs : \A r \in batch'[p] \ batch[p] : \A s \in Unsynced \ batch'[p] :
         {r, s} \subseteq DOMAIN Reading => ~Earlier(Reading[s].at, Reading[r].at)]_vars
=============================================================================
