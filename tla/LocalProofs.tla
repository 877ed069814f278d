---------------------------- MODULE LocalProofs -----------------------------
(***************************************************************************)
(* Proofs about LocalSync and CacheRow, for any records, jobs, sync-now    *)
(* processes and batch size, and every mix of faults.                      *)
(***************************************************************************)
EXTENDS LocalSync, TLAPS

Offered == {r \in Records : status[r] # "absent"}
Confirmed == {r \in Records : status[r] = "synced"}

(* What a process holds comes from the cache, and what it is about to mark *)
(* as synced is at the cloud.                                              *)
HeldInv ==
    /\ cloud \subseteq Offered
    /\ \A p \in Procs :
        /\ batch[p] \subseteq Offered
        /\ rejected[p] \subseteq batch[p]
        /\ pc[p] \in {"idle", "fetch", "upload"} => rejected[p] = {}
        /\ accepted[p] \subseteq cloud

(* A job that is under way holds the mutex, so that no other job marks     *)
(* what it has fetched; what it is about to mark as failed it has not      *)
(* marked as synced itself.                                                *)
ByJob(r) == status[r] = "synced" /\ marker[r] \in Jobs

JobInv ==
    \A p \in Jobs :
        /\ pc[p] # "idle" => mutex = p
        /\ pc[p] \in {"upload", "synced"} => \A r \in batch[p] : ~ByJob(r)
        /\ pc[p] = "synced" => accepted[p] \cap rejected[p] = {}
        /\ pc[p] = "failed" => \A r \in rejected[p] : ~ByJob(r)

IInv == TypeOK /\ HeldInv /\ SyncedInCloud /\ JobInv

-----------------------------------------------------------------------------
(* The text insert_record writes for a time sorts as the time does, with   *)
(* a fraction of a second or without (to_rfc3339).                         *)
THEOREM TextOrder ==
    ASSUME NEW a \in Instant, NEW b \in Instant, Earlier(a, b)
    PROVE  TextBefore(to_rfc3339(a), to_rfc3339(b))
<1> DEFINE x == to_rfc3339(a)
           y == to_rfc3339(b)
<1>1. /\ a.s \in Nat /\ a.ms \in Nat /\ a.us \in Nat
      /\ b.s \in Nat /\ b.ms \in Nat /\ b.us \in Nat
  BY DEF Instant
<1>2. ASSUME NEW t \in Instant
      PROVE  LET u == to_rfc3339(t) IN
             /\ u[1] = t.s /\ {1, 2} \subseteq DOMAIN u
             /\ t.ms = 0 /\ t.us = 0 => u[2] = -1
             /\ t.ms # 0 \/ t.us # 0 => u[2] = t.ms /\ 3 \in DOMAIN u
             /\ t.us = 0 /\ t.ms # 0 => u[3] = -1
             /\ t.us # 0 => u[3] = t.us
  <2>1. CASE t.us # 0
    <3>1. to_rfc3339(t) = <<t.s, t.ms, t.us, -1>>
      BY <2>1 DEF to_rfc3339, Text, Plus
    <3> QED
      BY <2>1, <3>1
  <2>2. CASE t.us = 0 /\ t.ms # 0
    <3>1. to_rfc3339(t) = <<t.s, t.ms, -1>>
      BY <2>2 DEF to_rfc3339, Text, Plus
    <3> QED
      BY <2>2, <3>1
  <2>3. CASE t.us = 0 /\ t.ms = 0
    <3>1. to_rfc3339(t) = <<t.s, -1>>
      BY <2>3 DEF to_rfc3339, Text, Plus
    <3> QED
      BY <2>3, <3>1
  <2> QED
    BY <2>1, <2>2, <2>3
<1>a. /\ x[1] = a.s /\ {1, 2} \subseteq DOMAIN x
      /\ a.ms = 0 /\ a.us = 0 => x[2] = -1
      /\ a.ms # 0 \/ a.us # 0 => x[2] = a.ms /\ 3 \in DOMAIN x
      /\ a.us = 0 /\ a.ms # 0 => x[3] = -1
      /\ a.us # 0 => x[3] = a.us
  BY <1>2
<1>b. /\ y[1] = b.s /\ {1, 2} \subseteq DOMAIN y
      /\ b.ms = 0 /\ b.us = 0 => y[2] = -1
      /\ b.ms # 0 \/ b.us # 0 => y[2] = b.ms /\ 3 \in DOMAIN y
      /\ b.us = 0 /\ b.ms # 0 => y[3] = -1
      /\ b.us # 0 => y[3] = b.us
  BY <1>2
<1> HIDE DEF x, y
<1>3. CASE a.s < b.s
  <2>1. x[1] < y[1] /\ 1 \in DOMAIN x \cap DOMAIN y
    BY <1>3, <1>a, <1>b
  <2> QED
    BY <2>1 DEF TextBefore, x, y
<1>4. CASE a.s = b.s /\ a.ms < b.ms
  <2>0. b.ms # 0
    BY <1>1, <1>4
  <2>b. y[2] = b.ms
    BY <1>b, <2>0
  <2>a. x[2] = -1 \/ x[2] = a.ms
    BY <1>a
  <2>1. x[2] < y[2] /\ 2 \in DOMAIN x \cap DOMAIN y
    BY <1>1, <1>4, <1>a, <1>b, <2>a, <2>b
  <2>2. \A j \in 1 .. 2 - 1 : x[j] = y[j]
    BY <1>4, <1>a, <1>b
  <2> QED
    BY <2>1, <2>2 DEF TextBefore, x, y
<1>5. CASE a.s = b.s /\ a.ms = b.ms /\ a.us < b.us
  <2>b. b.us # 0
    BY <1>1, <1>5
  <2>c. y[2] = b.ms /\ y[3] = b.us /\ 3 \in DOMAIN y
    BY <1>b, <2>b
  <2>1. CASE a.ms = 0 /\ a.us = 0
    <3>1. x[2] < y[2] /\ 2 \in DOMAIN x \cap DOMAIN y
      BY <1>1, <1>5, <1>a, <1>b, <2>c, <2>1
    <3>2. \A j \in 1 .. 2 - 1 : x[j] = y[j]
      BY <1>5, <1>a, <1>b
    <3> QED
      BY <3>1, <3>2 DEF TextBefore, x, y
  <2>2. CASE a.ms # 0 \/ a.us # 0
    <3>0. x[2] = a.ms /\ 3 \in DOMAIN x /\ (x[3] = -1 \/ x[3] = a.us)
      BY <1>a, <2>2
    <3>1. x[3] < y[3] /\ 3 \in DOMAIN x \cap DOMAIN y
      BY <1>1, <1>5, <2>c, <3>0
    <3>2. \A j \in 1 .. 3 - 1 : x[j] = y[j]
      <4>1. x[1] = y[1] /\ x[2] = y[2]
        BY <1>5, <1>a, <1>b, <2>c, <3>0
      <4> QED
        BY <4>1
    <3> QED
      BY <3>1, <3>2 DEF TextBefore, x, y
  <2> QED
    BY <2>1, <2>2
<1> QED
  BY <1>3, <1>4, <1>5 DEF Earlier

(* An answer never makes the engine accept a record the cloud has not kept *)
(* or list one as failed that it accepts (CloudAck).                       *)
LEMMA AcceptedKept ==
    ASSUME NEW sent, NEW kept \in SUBSET sent, NEW reply \in Replies(sent, kept)
    PROVE  /\ Accepted(sent, reply) \subseteq kept
           /\ reply.fail \subseteq sent
           /\ Accepted(sent, reply) \cap reply.fail = {}
BY DEF Replies, Accepted

(* Returning from sync_once empties what the processes held and changes    *)
(* nothing of the others.                                                  *)
LEMMA Returned ==
    ASSUME TypeOK, HeldInv, JobInv, NEW ps \in SUBSET Procs, Return(ps)
    PROVE  /\ pc' \in [Procs -> {"idle", "fetch", "upload", "synced", "failed"}]
           /\ batch' \in [Procs -> SUBSET Records]
           /\ accepted' \in [Procs -> SUBSET Records]
           /\ rejected' \in [Procs -> SUBSET Records]
           /\ mutex' \in Jobs \cup {NoProc}
           /\ \A p \in ps : pc'[p] = "idle" /\ batch'[p] = {} /\ accepted'[p] = {}
                            /\ rejected'[p] = {}
           /\ \A p \in Procs \ ps : pc'[p] = pc[p] /\ batch'[p] = batch[p]
                            /\ accepted'[p] = accepted[p] /\ rejected'[p] = rejected[p]
           /\ \A p \in Jobs : pc'[p] # "idle" => mutex' = p
BY ProcsAssumption DEF TypeOK, HeldInv, JobInv, Return, Procs

-----------------------------------------------------------------------------
(* The initial state satisfies the invariant.                              *)
LEMMA InitIInv == Init => IInv
<1> SUFFICES ASSUME Init PROVE IInv
  OBVIOUS
<1>1. TypeOK
  BY BoundsAssumption DEF Init, TypeOK, Statuses
<1> QED
  BY <1>1 DEF Init, IInv, HeldInv, JobInv, ByJob, SyncedInCloud, Procs, Offered

(* A step that only returns from sync_once.                                *)
LEMMA ReturnIInv ==
    ASSUME IInv, NEW ps \in SUBSET Procs, Return(ps), UNCHANGED <<status, marker, cloud>>,
           UNCHANGED faults \/ Fault
    PROVE  IInv'
<1>1. TypeOK /\ HeldInv /\ SyncedInCloud /\ JobInv
  BY DEF IInv
<1>2. TypeOK'
  BY <1>1, Returned, BoundsAssumption DEF TypeOK, Fault
<1>3. HeldInv'
  BY <1>1, Returned DEF HeldInv, Offered, Procs
<1>4. JobInv'
  <2> SUFFICES ASSUME NEW p \in Jobs
               PROVE  /\ pc'[p] # "idle" => mutex' = p
                      /\ pc'[p] \in {"upload", "synced"} => \A r \in batch'[p] : ~ByJob(r)
                      /\ pc'[p] = "synced" => accepted'[p] \cap rejected'[p] = {}
                      /\ pc'[p] = "failed" => \A r \in rejected'[p] : ~ByJob(r)
    BY DEF JobInv, ByJob
  <2>1. p \in Procs
    BY DEF Procs
  <2>2. CASE p \in ps
    BY <1>1, <2>2, Returned
  <2>3. CASE p \notin ps
    BY <1>1, <2>1, <2>3, Returned DEF JobInv
  <2> QED
    BY <2>2, <2>3
<1> QED
  BY <1>1, <1>2, <1>3, <1>4 DEF IInv, SyncedInCloud

(* Each step keeps the variables in their types and the parts connected.   *)
LEMMA StepIInv == IInv /\ [Next]_vars => IInv'
<1> SUFFICES ASSUME IInv, [Next]_vars PROVE IInv'
  OBVIOUS
<1> USE BoundsAssumption
<1>t. TypeOK /\ HeldInv /\ SyncedInCloud /\ JobInv
  BY DEF IInv
<1>f. Fault => faults' \in 0 .. MaxFaults
  BY <1>t DEF Fault, TypeOK
<1>j. \A p \in Jobs : p \in Procs
  BY DEF Procs
<1>1. ASSUME NEW r \in Records, Insert(r) PROVE IInv'
  <2>1. TypeOK'
    BY <1>1, <1>t DEF Insert, TypeOK, procVars, Statuses
  <2>2. Offered \subseteq Offered'
    BY <1>1, <1>t DEF Insert, Offered, TypeOK
  <2>3. HeldInv' /\ SyncedInCloud'
    BY <1>1, <1>t, <2>2 DEF Insert, HeldInv, SyncedInCloud, procVars, TypeOK
  <2>4. \A s \in Records : ByJob(s)' => ByJob(s)
    BY <1>1, <1>t DEF Insert, ByJob, TypeOK
  <2>5. JobInv'
    BY <1>1, <1>t, <1>j, <2>4 DEF Insert, JobInv, procVars, TypeOK
  <2> QED
    BY <2>1, <2>3, <2>5 DEF IInv
<1>2. ASSUME NEW p \in Procs, Begin(p) PROVE IInv'
  <2>1. TypeOK'
    BY <1>2, <1>t DEF Begin, Goto, TypeOK
  <2>2. HeldInv' /\ SyncedInCloud'
    BY <1>2, <1>t DEF Begin, Goto, HeldInv, SyncedInCloud, Offered, TypeOK
  <2>3. JobInv'
    BY <1>2, <1>t, <1>j, ProcsAssumption DEF Begin, Goto, JobInv, ByJob, TypeOK, Procs
  <2> QED
    BY <2>1, <2>2, <2>3 DEF IInv
<1>3. ASSUME NEW p \in Procs, fetch_pending(p) PROVE IInv'
  <2>1. PICK page \in Oldest :
          \/ Return({p})
          \/ /\ batch' = [batch EXCEPT ![p] = page]
             /\ Goto(p, "upload") /\ UNCHANGED <<mutex, accepted, rejected>>
    BY <1>3 DEF fetch_pending
  <2>2. CASE Return({p})
    BY <1>3, <2>2, ReturnIInv DEF fetch_pending
  <2>3. CASE /\ batch' = [batch EXCEPT ![p] = page]
             /\ Goto(p, "upload") /\ UNCHANGED <<mutex, accepted, rejected>>
    <3>1. page \subseteq Unsynced /\ Unsynced \subseteq Offered /\ Offered \subseteq Records
      BY DEF Oldest, Unsynced, Offered
    <3>2. UNCHANGED <<status, marker, cloud, faults>> /\ pc[p] = "fetch"
      BY <1>3 DEF fetch_pending
    <3>3. TypeOK'
      BY <1>t, <2>3, <3>1, <3>2 DEF TypeOK, Goto
    <3>4. HeldInv' /\ SyncedInCloud'
      BY <1>t, <2>3, <3>1, <3>2 DEF HeldInv, SyncedInCloud, Offered, TypeOK, Goto
    <3>5. JobInv'
      BY <1>t, <1>j, <2>3, <3>1, <3>2 DEF JobInv, ByJob, TypeOK, Goto, Unsynced
    <3> QED
      BY <3>3, <3>4, <3>5 DEF IInv
  <2> QED
    BY <2>1, <2>2, <2>3
<1>4. ASSUME NEW p \in Procs, UploadAnswered(p) PROVE IInv'
  <2>1. PICK kept \in SUBSET (batch[p] \ Refused) :
          \E reply \in Replies(batch[p], kept) :
            /\ UNCHANGED faults \/ Fault
            /\ cloud' = cloud \cup kept
            /\ accepted' = [accepted EXCEPT ![p] = Accepted(batch[p], reply)]
            /\ rejected' = [rejected EXCEPT ![p] = reply.fail]
    BY <1>4 DEF UploadAnswered
  <2>2. PICK reply \in Replies(batch[p], kept) :
          /\ UNCHANGED faults \/ Fault
          /\ cloud' = cloud \cup kept
          /\ accepted' = [accepted EXCEPT ![p] = Accepted(batch[p], reply)]
          /\ rejected' = [rejected EXCEPT ![p] = reply.fail]
    BY <2>1
  <2>3. /\ kept \in SUBSET batch[p]
        /\ Accepted(batch[p], reply) \subseteq kept
        /\ reply.fail \subseteq batch[p]
        /\ Accepted(batch[p], reply) \cap reply.fail = {}
    BY AcceptedKept
  <2>4. /\ pc[p] = "upload" /\ pc' = [pc EXCEPT ![p] = "synced"]
        /\ UNCHANGED <<status, marker, mutex, batch>>
    BY <1>4 DEF UploadAnswered, Goto
  <2>5. batch[p] \subseteq Records /\ batch[p] \subseteq Offered
    BY <1>t DEF TypeOK, HeldInv
  <2>6. TypeOK'
    BY <1>t, <1>f, <2>2, <2>3, <2>4, <2>5 DEF TypeOK
  <2>7. HeldInv' /\ SyncedInCloud'
    BY <1>t, <2>2, <2>3, <2>4, <2>5 DEF HeldInv, SyncedInCloud, Offered, TypeOK
  <2>8. JobInv'
    BY <1>t, <1>j, <2>2, <2>3, <2>4 DEF JobInv, ByJob, TypeOK
  <2> QED
    BY <2>6, <2>7, <2>8 DEF IInv
<1>5. ASSUME NEW p \in Procs, UploadFails(p) PROVE IInv'
  <2>1. /\ pc[p] = "upload" /\ Fault /\ UNCHANGED <<status, marker, mutex, batch, accepted>>
        /\ cloud \subseteq cloud' /\ cloud' \subseteq cloud \cup batch[p]
        /\ \/ UNCHANGED <<pc, rejected>>
           \/ /\ rejected' = [rejected EXCEPT ![p] = batch[p]]
              /\ pc' = [pc EXCEPT ![p] = "failed"]
    BY <1>5 DEF UploadFails, Goto
  <2>2. batch[p] \subseteq Records /\ batch[p] \subseteq Offered
    BY <1>t DEF TypeOK, HeldInv
  <2>3. TypeOK'
    BY <1>t, <1>f, <2>1, <2>2 DEF TypeOK
  <2>4. HeldInv' /\ SyncedInCloud'
    BY <1>t, <2>1, <2>2 DEF HeldInv, SyncedInCloud, Offered, TypeOK
  <2>5. JobInv'
    BY <1>t, <1>j, <2>1 DEF JobInv, ByJob, TypeOK
  <2> QED
    BY <2>3, <2>4, <2>5 DEF IInv
<1>6. ASSUME NEW p \in Procs, mark_synced(p) PROVE IInv'
  <2>1. /\ pc[p] = "synced" /\ UNCHANGED <<cloud, faults>>
        /\ status' = [r \in Records |-> IF r \in accepted[p] THEN "synced" ELSE status[r]]
        /\ marker' = [r \in Records |-> IF r \in accepted[p] THEN p ELSE marker[r]]
    BY <1>6 DEF mark_synced
  <2>2. accepted[p] \subseteq cloud /\ accepted[p] \subseteq Records
    BY <1>t DEF HeldInv, TypeOK
  <2>3. /\ status' \in [Records -> Statuses] /\ marker' \in [Records -> Procs \cup {NoProc}]
        /\ Offered' = Offered /\ SyncedInCloud'
    BY <1>t, <2>1, <2>2 DEF TypeOK, Statuses, Offered, HeldInv, SyncedInCloud
  <2>4. ASSUME NEW q \in Jobs, pc[q] # "idle", q # p, NEW r \in Records, ByJob(r)'
        PROVE  ByJob(r)
    <3>1. p \notin Jobs
      BY <1>t, <2>1, <2>4 DEF JobInv
    <3> QED
      BY <2>1, <2>4, <3>1 DEF ByJob
  <2>5. /\ pc' \in [Procs -> {"idle", "fetch", "upload", "synced", "failed"}]
        /\ batch' \in [Procs -> SUBSET Records]
        /\ accepted' \in [Procs -> SUBSET Records]
        /\ rejected' \in [Procs -> SUBSET Records]
        /\ mutex' \in Jobs \cup {NoProc}
        /\ \A q \in Procs \ {p} : pc'[q] = pc[q] /\ batch'[q] = batch[q]
                         /\ accepted'[q] = accepted[q] /\ rejected'[q] = rejected[q]
        /\ \/ pc'[p] = "idle" /\ batch'[p] = {} /\ rejected'[p] = {}
           \/ pc'[p] = "failed" /\ batch'[p] = batch[p] /\ rejected'[p] = rejected[p]
        /\ accepted'[p] = {}
        /\ \A q \in Jobs : pc'[q] # "idle" => mutex' = q
    <3>1. CASE Return({p})
      BY <1>t, <3>1, Returned
    <3>2. CASE ~Return({p})
      BY <1>6, <1>t, <1>j, <2>1, <3>2 DEF mark_synced, Goto, TypeOK, JobInv
    <3> QED
      BY <3>1, <3>2
  <2>6. TypeOK'
    BY <1>t, <2>1, <2>3, <2>5 DEF TypeOK
  <2>7. HeldInv'
    BY <1>t, <2>1, <2>3, <2>5 DEF HeldInv
  <2>8. JobInv'
    <3> SUFFICES ASSUME NEW q \in Jobs
                 PROVE  /\ pc'[q] # "idle" => mutex' = q
                        /\ pc'[q] \in {"upload", "synced"} => \A r \in batch'[q] : ~ByJob(r)'
                        /\ pc'[q] = "synced" => accepted'[q] \cap rejected'[q] = {}
                        /\ pc'[q] = "failed" => \A r \in rejected'[q] : ~ByJob(r)'
      BY DEF JobInv
    <3>1. CASE q = p
      <4>1. \A r \in rejected[p] : r \in batch[p] /\ r \notin accepted[p] /\ r \in Records
        BY <1>t, <2>1, <3>1, <1>j DEF JobInv, HeldInv, TypeOK
      <4>2. \A r \in rejected[p] : ~ByJob(r)'
        BY <1>t, <2>1, <3>1, <4>1 DEF JobInv, ByJob
      <4> QED
        BY <2>5, <3>1, <4>2
    <3>2. CASE q # p
      <4>1. pc'[q] = pc[q] /\ batch'[q] = batch[q] /\ accepted'[q] = accepted[q]
            /\ rejected'[q] = rejected[q] /\ batch[q] \subseteq Records /\ rejected[q] \subseteq Records
        BY <1>t, <1>j, <2>5, <3>2 DEF TypeOK
      <4>2. pc[q] # "idle" => \A r \in Records : ByJob(r)' => ByJob(r)
        BY <2>4, <3>2
      <4> QED
        BY <1>t, <2>5, <4>1, <4>2 DEF JobInv
    <3> QED
      BY <3>1, <3>2
  <2> QED
    BY <2>3, <2>6, <2>7, <2>8 DEF IInv
<1>7. ASSUME NEW p \in Procs, mark_failed(p) PROVE IInv'
  <2>1. /\ pc[p] = "failed" /\ UNCHANGED <<marker, cloud, faults>> /\ Return({p})
        /\ status' = [r \in Records |-> IF r \in rejected[p] THEN "failed" ELSE status[r]]
    BY <1>7 DEF mark_failed
  <2>2. rejected[p] \subseteq Offered
    BY <1>t DEF HeldInv
  <2>3. /\ status' \in [Records -> Statuses]
        /\ Offered' = Offered /\ SyncedInCloud'
        /\ \A r \in Records : ByJob(r)' => ByJob(r)
    BY <1>t, <2>1, <2>2 DEF TypeOK, Statuses, Offered, SyncedInCloud, ByJob
  <2>4. TypeOK'
    BY <1>t, <2>1, <2>3, Returned DEF TypeOK
  <2>5. HeldInv'
    BY <1>t, <2>1, <2>3, Returned DEF HeldInv
  <2>6. JobInv'
    <3> SUFFICES ASSUME NEW q \in Jobs
                 PROVE  /\ pc'[q] # "idle" => mutex' = q
                        /\ pc'[q] \in {"upload", "synced"} => \A r \in batch'[q] : ~ByJob(r)'
                        /\ pc'[q] = "synced" => accepted'[q] \cap rejected'[q] = {}
                        /\ pc'[q] = "failed" => \A r \in rejected'[q] : ~ByJob(r)'
      BY DEF JobInv
    <3>1. CASE q = p
      BY <1>t, <2>1, <3>1, Returned
    <3>2. CASE q # p
      <4>1. /\ pc'[q] = pc[q] /\ batch'[q] = batch[q] /\ accepted'[q] = accepted[q]
            /\ rejected'[q] = rejected[q] /\ (pc'[q] # "idle" => mutex' = q)
        BY <1>t, <1>j, <2>1, <3>2, Returned
      <4>2. batch[q] \subseteq Records /\ rejected[q] \subseteq Records
        BY <1>t, <1>j DEF TypeOK
      <4> QED
        BY <1>t, <2>3, <4>1, <4>2 DEF JobInv
    <3> QED
      BY <3>1, <3>2
  <2> QED
    BY <2>3, <2>4, <2>5, <2>6 DEF IInv
<1>8. ASSUME NEW p \in Procs, DbFails(p) PROVE IInv'
  BY <1>8, ReturnIInv DEF DbFails
<1>9. CASE Crash
  <2>1. PICK ps \in {Jobs} \cup {{p} : p \in Manual} : Return(ps)
    BY <1>9 DEF Crash
  <2>2. ps \in SUBSET Procs
    BY DEF Procs
  <2> QED
    BY <1>9, <2>1, <2>2, ReturnIInv DEF Crash
<1>10. CASE UNCHANGED vars
  BY <1>10, <1>t DEF vars, procVars, IInv, TypeOK, HeldInv, Offered, SyncedInCloud, JobInv, ByJob
<1> QED
  BY <1>1, <1>2, <1>3, <1>4, <1>5, <1>6, <1>7, <1>8, <1>9, <1>10
  DEF Next, Step, insert_record, ToolInserts

(* The inductive invariant of the local engine.                            *)
THEOREM Invariance == Spec => []IInv
BY InitIInv, StepIInv, PTL DEF Spec

(* Every variable keeps its type.                                          *)
THEOREM TypeCorrect == Spec => []TypeOK
<1>1. IInv => TypeOK
  BY DEF IInv
<1> QED
  BY <1>1, Invariance, PTL

(* A record is marked synced only if the cloud has stored it (sync_once,   *)
(* mark_synced).                                                           *)
THEOREM SyncedSafety == Spec => []SyncedInCloud
<1>1. IInv => SyncedInCloud
  BY DEF IInv
<1> QED
  BY <1>1, Invariance, PTL

-----------------------------------------------------------------------------
(* Only mark_failed takes a mark back, and a job's own list of failures    *)
(* names no record that a job has marked (mark_failed, start_scheduler).   *)
THEOREM KeepMarks == Spec => JobsKeepMarks
<1>1. ASSUME IInv, [Next]_vars, NEW r \in Records,
             status[r] = "synced", marker[r] \in Jobs, status'[r] # "synced"
      PROVE  \E p \in Manual : pc'[p] # pc[p]
  <2>t. TypeOK /\ HeldInv /\ JobInv
    BY <1>1 DEF IInv
  <2>1. \A s \in Records : ~Insert(s)
    BY <1>1, <2>t DEF Insert, TypeOK
  <2>2. \A p \in Procs : ~mark_synced(p)
    BY <1>1 DEF mark_synced
  <2>3. ~(UNCHANGED status)
    BY <1>1
  <2>4. PICK p \in Procs : mark_failed(p)
    BY <1>1, <2>1, <2>2, <2>3
    DEF Next, Step, insert_record, ToolInserts, Begin, fetch_pending, UploadAnswered,
        UploadFails, DbFails, Crash, vars
  <2>5. r \in rejected[p] /\ pc[p] = "failed" /\ pc'[p] = "idle"
    BY <1>1, <2>t, <2>4 DEF mark_failed, Return
  <2>6. p \notin Jobs
    BY <1>1, <2>t, <2>5 DEF JobInv, ByJob
  <2> QED
    BY <2>5, <2>6 DEF Procs
<1>2. IInv /\ [Next]_vars =>
        [\A r \in Records :
           status[r] = "synced" /\ marker[r] \in Jobs /\ status'[r] # "synced"
           => \E p \in Manual : pc'[p] # pc[p]]_vars
  BY <1>1
<1> QED
  BY <1>2, Invariance, PTL DEF Spec, JobsKeepMarks

(* Only fetch_pending adds to what a process holds, and it takes the       *)
(* smallest texts, which are the earliest times (fetch_pending, TextOrder).*)
THEOREM TakesOldest == Spec => OldestFirst
<1>1. ASSUME IInv, [Next]_vars, NEW p \in Procs, NEW r \in batch'[p] \ batch[p],
             NEW s \in Unsynced \ batch'[p], {r, s} \subseteq DOMAIN Reading
      PROVE  ~Earlier(Reading[s].at, Reading[r].at)
  <2>t. TypeOK /\ HeldInv /\ JobInv
    BY <1>1 DEF IInv
  <2>1. ASSUME NEW ps, Return(ps) PROVE FALSE
    BY <1>1, <2>1 DEF Return
  <2>2. ~(UNCHANGED batch)
    BY <1>1
  <2>3. PICK q \in Procs : fetch_pending(q)
    BY <1>1, <2>1, <2>2
    DEF Next, Step, insert_record, ToolInserts, Insert, Begin, UploadAnswered, UploadFails,
        mark_synced, mark_failed, DbFails, Crash, vars, procVars
  <2>4. PICK page \in Oldest : batch' = [batch EXCEPT ![q] = page]
    BY <2>1, <2>3 DEF fetch_pending
  <2>5. batch'[p] = page /\ r \in page /\ s \in Unsynced \ page
    BY <1>1, <2>t, <2>4 DEF TypeOK
  <2>6. ~TextBefore(RowOf(s).measured_at, RowOf(r).measured_at)
    BY <2>5 DEF Oldest
  <2>7. /\ RowOf(s).measured_at = to_rfc3339(Reading[s].at)
        /\ RowOf(r).measured_at = to_rfc3339(Reading[r].at)
    BY <1>1 DEF RowOf, Row
  <2> QED
    BY <1>1, <2>6, <2>7, TextOrder, ReadingAssumption
<1>2. IInv /\ [Next]_vars =>
        [\A p \in Procs : \A r \in batch'[p] \ batch[p] : \A s \in Unsynced \ batch'[p] :
           {r, s} \subseteq DOMAIN Reading => ~Earlier(Reading[s].at, Reading[r].at)]_vars
  BY <1>1
<1> QED
  BY <1>2, Invariance, PTL DEF Spec, OldestFirst

-----------------------------------------------------------------------------
(* Each step is a step of Delivery or leaves its variables alone.          *)
LEMMA StepDelivers ==
    IInv /\ [Next]_vars => Deliver!Next \/ UNCHANGED <<Offered, cloud, Confirmed>>
<1> SUFFICES ASSUME IInv, [Next]_vars
             PROVE  Deliver!Next \/ UNCHANGED <<Offered, cloud, Confirmed>>
  OBVIOUS
<1> USE DEF Offered, Confirmed
<1>t. TypeOK /\ HeldInv /\ SyncedInCloud
  BY DEF IInv
<1>1. ASSUME NEW r \in Records, Insert(r)
      PROVE  Deliver!Next
  <2>1. Offered' = Offered \cup {r} /\ UNCHANGED <<cloud, Confirmed>>
    BY <1>1, <1>t DEF Insert, TypeOK
  <2>2. Deliver!Offer(r)
    BY <2>1 DEF Deliver!Offer
  <2> QED
    BY <2>2 DEF Deliver!Next
<1>2. ASSUME NEW p \in Procs, NEW kept \in SUBSET batch[p], cloud' = cloud \cup kept,
             UNCHANGED status
      PROVE  Deliver!Next
  <2>1. kept \in SUBSET Records /\ kept \subseteq Offered
    BY <1>t DEF HeldInv, TypeOK
  <2>2. Deliver!Store(kept)
    BY <1>2, <2>1 DEF Deliver!Store
  <2> QED
    BY <2>1, <2>2 DEF Deliver!Next
<1>3. ASSUME NEW p \in Procs, UploadAnswered(p) PROVE Deliver!Next
  <2>1. PICK kept \in SUBSET batch[p] : cloud' = cloud \cup kept
    BY <1>3 DEF UploadAnswered
  <2> QED
    BY <1>2, <1>3, <2>1 DEF UploadAnswered
<1>4. ASSUME NEW p \in Procs, UploadFails(p) PROVE Deliver!Next
  <2>1. PICK kept \in SUBSET (batch[p] \ Refused) : cloud' = cloud \cup kept
    BY <1>4 DEF UploadFails
  <2>2. kept \in SUBSET batch[p]
    OBVIOUS
  <2> QED
    BY <1>2, <1>4, <2>1, <2>2 DEF UploadFails
<1>5. ASSUME NEW p \in Procs, mark_synced(p) PROVE Deliver!Next
  <2>1. accepted[p] \in SUBSET Records /\ accepted[p] \subseteq cloud
        /\ accepted[p] \subseteq Offered
    BY <1>t DEF HeldInv, TypeOK
  <2>2. Confirmed' = Confirmed \cup accepted[p] /\ UNCHANGED <<Offered, cloud>>
    BY <1>5, <1>t, <2>1 DEF mark_synced
  <2>3. PICK some \in SUBSET Records : some = accepted[p]
    BY <2>1
  <2>4. Deliver!Confirm(some)
    BY <2>1, <2>2, <2>3 DEF Deliver!Confirm
  <2> QED
    BY <2>4 DEF Deliver!Next
<1>6. ASSUME NEW p \in Procs, mark_failed(p) PROVE Deliver!Next
  <2>1. rejected[p] \in SUBSET Records /\ rejected[p] \subseteq Offered
    BY <1>t DEF HeldInv, TypeOK
  <2>2. Confirmed' = Confirmed \ rejected[p] /\ UNCHANGED <<Offered, cloud>>
    BY <1>6, <1>t, <2>1 DEF mark_failed
  <2>3. PICK some \in SUBSET Records : some = rejected[p]
    BY <2>1
  <2>4. Deliver!Withdraw(some)
    BY <2>2, <2>3 DEF Deliver!Withdraw
  <2> QED
    BY <2>4 DEF Deliver!Next
<1>7. ASSUME UNCHANGED <<status, cloud>> PROVE UNCHANGED <<Offered, cloud, Confirmed>>
  BY <1>7
<1> QED
  BY <1>1, <1>3, <1>4, <1>5, <1>6, <1>7
  DEF Next, Step, insert_record, ToolInserts, Begin, fetch_pending, DbFails, Crash, vars

(* The engine implements Delivery, for any number of processes that share  *)
(* the cache and every fault.                                              *)
THEOREM Implementation == Spec => ImplementsDelivery
<1>1. Init => Deliver!Init
  BY DEF Init, Deliver!Init
<1>2. IInv /\ [Next]_vars => [Deliver!Next]_(Deliver!deliveryVars)
  BY StepDelivers DEF Deliver!deliveryVars, Offered, Confirmed
<1> QED
  BY <1>1, <1>2, Invariance, PTL DEF Spec, ImplementsDelivery, Deliver!Spec
=============================================================================
