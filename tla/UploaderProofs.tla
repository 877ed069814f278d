--------------------------- MODULE UploaderProofs ---------------------------
(***************************************************************************)
(* Proofs about Uploader, for every set of rows, every key C may derive,   *)
(* every batch size and every mix of faults.                               *)
(***************************************************************************)
EXTENDS Uploader, TLAPS

(* What links the POST under way to C's history: an answered batch is      *)
(* stored, rows waiting for their line are stored, and no POST is under    *)
(* way unless A waits for it.  ConfirmedCommitted is not inductive without *)
(* it.                                                                     *)
CallInv ==
    /\ call # "none" => pc = "posting"
    /\ call = "stored" => batch \subseteq stored
    /\ todo \subseteq RowsOf(stored)

IInv == TypeOK /\ CallInv /\ MemoryBackedByFile /\ ConfirmedCommitted

-----------------------------------------------------------------------------
(* Appending a line adds it to the lines of the file and nothing else.     *)
LEMMA LinesAppend ==
    ASSUME NEW S, NEW f \in Seq(S), NEW x \in S
    PROVE  /\ Append(f, x) \in Seq(S)
           /\ Lines(Append(f, x)) = Lines(f) \cup {x}
           /\ Len(Append(f, x)) = Len(f) + 1
<1> DEFINE g == Append(f, x)
<1>1. g \in Seq(S) /\ Len(g) = Len(f) + 1
  OBVIOUS
<1>2. DOMAIN f = 1 .. Len(f) /\ DOMAIN g = 1 .. Len(f) + 1 /\ Len(f) \in Nat
  BY <1>1
<1>3. \A i \in DOMAIN f : g[i] = f[i] /\ i \in DOMAIN g
  BY <1>2
<1>4. g[Len(f) + 1] = x /\ Len(f) + 1 \in DOMAIN g
  BY <1>2
<1>5. \A i \in DOMAIN g : i \in DOMAIN f \/ i = Len(f) + 1
  BY <1>2
<1> HIDE DEF g
<1>6. Lines(g) = Lines(f) \cup {x}
  BY <1>3, <1>4, <1>5 DEF Lines
<1> QED
  BY <1>1, <1>6 DEF g

(* A prefix of the file holds no line that the file does not hold.         *)
LEMMA LinesPrefix ==
    ASSUME NEW S, NEW f \in Seq(S), NEW n \in 0 .. Len(f)
    PROVE  /\ SubSeq(f, 1, n) \in Seq(S)
           /\ Lines(SubSeq(f, 1, n)) \subseteq Lines(f)
BY DEF Lines

(* The rows of a growing history only grow.                                *)
LEMMA RowsOfMonotone ==
    ASSUME NEW A, NEW B, A \subseteq B
    PROVE  RowsOf(A) \subseteq RowsOf(B)
BY DEF RowsOf

(* C's transaction keeps its table well typed and only adds to history.    *)
LEMMA InsertPayload ==
    ASSUME TypeOK, NEW recs \in SUBSET Records, insertPayload(recs)
    PROVE  /\ cdb' \in [Keys -> Records \cup {NoRecord}]
           /\ stored' \subseteq Records
           /\ stored \subseteq stored'
           /\ recs \subseteq stored'
BY DEF TypeOK, insertPayload, Winner

(* A power failure leaves a well typed file without new confirmations.     *)
LEMMA PowerLossFile ==
    ASSUME TypeOK, NEW f \in AfterPowerLoss
    PROVE  /\ f \in Seq(Rows \cup {Torn})
           /\ Entries(f) \subseteq Entries(file)
           /\ Len(f) \in Nat
<1>1. PICK n \in synced .. Len(file) :
         f = SubSeq(file, 1, n) \/ f = Append(SubSeq(file, 1, n), Torn)
  BY DEF AfterPowerLoss
<1>2. file \in Seq(Rows \cup {Torn}) /\ n \in 0 .. Len(file)
  BY <1>1 DEF TypeOK
<1> DEFINE p == SubSeq(file, 1, n)
<1>3. p \in Seq(Rows \cup {Torn}) /\ Lines(p) \subseteq Lines(file)
  BY <1>2, LinesPrefix
<1> HIDE DEF p
<1>4. /\ Append(p, Torn) \in Seq(Rows \cup {Torn})
      /\ Lines(Append(p, Torn)) = Lines(p) \cup {Torn}
  <2>1. Torn \in Rows \cup {Torn}
    OBVIOUS
  <2> QED
    BY <1>3, <2>1, LinesAppend
<1>5. f \in Seq(Rows \cup {Torn}) /\ Lines(f) \subseteq Lines(file) \cup {Torn}
  BY <1>1, <1>3, <1>4 DEF p
<1> QED
  BY <1>5 DEF Entries

(* What a SELECT returns are rows with a version.                          *)
LEMMA SnapshotType ==
    ASSUME TypeOK, NEW e \in EntityTypes
    PROVE  Snapshot(Top(e)) \subseteq Records
<1> SUFFICES ASSUME NEW r \in Top(e) PROVE <<r, src[r]>> \in Records
  BY DEF Snapshot
<1>1. r \in Rows /\ src[r] > 0
  BY DEF Top, Pending
<1>2. src[r] \in 0 .. MaxVersion
  BY <1>1 DEF TypeOK
<1> QED
  BY <1>1, <1>2, BoundsAssumption DEF Records, Versions

-----------------------------------------------------------------------------
(* The initial state satisfies the invariant.                              *)
LEMMA InitIInv == Init => IInv
BY BoundsAssumption DEF Init, IInv, TypeOK, CallInv, MemoryBackedByFile,
   ConfirmedCommitted, Keys, Lines, Entries, RowsOf

(* Every step keeps the variables in their types.                          *)
LEMMA TypeStep == IInv /\ [Next]_vars => TypeOK'
<1> SUFFICES ASSUME IInv, [Next]_vars PROVE TypeOK'
  OBVIOUS
<1> USE BoundsAssumption
<1>t. TypeOK
  BY DEF IInv
<1>1. ASSUME NEW r \in Rows, AppWrite(r) PROVE TypeOK'
  BY <1>1, <1>t DEF TypeOK, AppWrite
<1>2. CASE CHandlePost
  <2>1. batch \in SUBSET Records /\ insertPayload(batch)
    BY <1>2, <1>t DEF TypeOK, CHandlePost
  <2> QED
    BY <1>2, <1>t, <2>1, InsertPayload DEF TypeOK, CHandlePost
<1>3. CASE CHandleLate
  <2>1. PICK recs \in late : insertPayload(recs) /\ late' = late \ {recs}
          /\ UNCHANGED <<src, pc, batch, call, todo, done, file, synced, faults>>
    BY <1>3 DEF CHandleLate
  <2>2. recs \in SUBSET Records
    BY <2>1, <1>t DEF TypeOK
  <2> QED
    BY <2>1, <2>2, <1>t, InsertPayload DEF TypeOK
<1>4. CASE FetchInfo
  BY <1>4, <1>t, SnapshotType DEF TypeOK, FetchInfo, EntityTypes
<1>5. CASE FetchPhotos
  <2>1. Snapshot(Top("weight_photo")) \subseteq Records
    BY <1>t, SnapshotType DEF EntityTypes
  <2>2. batch' \subseteq Records
    BY <1>5, <1>t, <2>1 DEF TypeOK, FetchPhotos, EndCycle
  <2> QED
    BY <1>5, <1>t, <2>2 DEF TypeOK, FetchPhotos, EndCycle
<1>6. CASE FetchError
  BY <1>6, <1>t DEF TypeOK, FetchError, EndCycle, Fault
<1>7. CASE PostAnswered
  <2>1. acknowledged(batch, Response(batch)) \subseteq RowsOf(batch)
    BY DEF acknowledged
  <2>2. RowsOf(batch) \subseteq Rows
    BY <1>t DEF TypeOK, RowsOf, Records
  <2> QED
    BY <1>7, <1>t, <2>1, <2>2 DEF TypeOK, PostAnswered, EndCycle
<1>8. CASE PostRefused
  BY <1>8, <1>t DEF TypeOK, PostRefused, EndCycle
<1>9. CASE AppendEntry
  <2>1. PICK r \in todo :
          /\ file' = IF r \in done THEN file ELSE Append(file, r)
          /\ done' = done \cup {r}
          /\ todo' = todo \ {r}
    BY <1>9 DEF AppendEntry
  <2>2. r \in Rows \cup {Torn} /\ file \in Seq(Rows \cup {Torn}) /\ r \in Rows
    BY <2>1, <1>t DEF TypeOK
  <2>3. Append(file, r) \in Seq(Rows \cup {Torn}) /\ Len(Append(file, r)) = Len(file) + 1
    BY <2>2, LinesAppend
  <2>4. file' \in Seq(Rows \cup {Torn}) /\ synced \in 0 .. Len(file')
    BY <2>1, <2>3, <1>t DEF TypeOK
  <2> QED
    BY <1>9, <1>t, <2>1, <2>2, <2>4 DEF TypeOK, AppendEntry
<1>10. CASE AppendSync
  BY <1>10, <1>t DEF TypeOK, AppendSync, EndCycle
<1>11. CASE Restart
  BY <1>11, <1>t DEF TypeOK, Restart, Lines
<1>12. CASE RestartFails \/ UNCHANGED vars
  BY <1>12, <1>t DEF TypeOK, RestartFails, vars
<1>13. CASE CRefusePost
  BY <1>13, <1>t DEF TypeOK, CRefusePost, Fault
<1>14. ASSUME TypeOK, Abandon PROVE late' \subseteq SUBSET Records
  BY <1>14 DEF TypeOK, Abandon
<1>15. CASE PostLost
  BY <1>15, <1>14, <1>t DEF TypeOK, PostLost, EndCycle, Fault
<1>16. CASE AppendFails
  <2>1. file' = file \/ \E x \in Rows \cup {Torn} : file' = Append(file, x)
    BY <1>16, <1>t DEF TypeOK, AppendFails
  <2>2. file' \in Seq(Rows \cup {Torn}) /\ synced \in 0 .. Len(file')
    <3>1. CASE file' = file
      BY <3>1, <1>t DEF TypeOK
    <3>2. ASSUME NEW x \in Rows \cup {Torn}, file' = Append(file, x)
          PROVE  file' \in Seq(Rows \cup {Torn}) /\ synced \in 0 .. Len(file')
      BY <3>2, <1>t, LinesAppend DEF TypeOK
    <3> QED
      BY <2>1, <3>1, <3>2
  <2> QED
    BY <1>16, <1>t, <2>2 DEF TypeOK, AppendFails, EndCycle, Fault
<1>17. CASE Crash
  BY <1>17, <1>14, <1>t DEF TypeOK, Crash, Dead, Fault
<1>18. CASE PowerLoss
  <2>1. file' \in Seq(Rows \cup {Torn}) /\ Len(file') \in Nat
    BY <1>18, <1>t, PowerLossFile DEF PowerLoss
  <2> QED
    BY <1>18, <1>14, <1>t, <2>1 DEF TypeOK, PowerLoss, Dead, Fault
<1> QED
  BY <1>1, <1>2, <1>3, <1>4, <1>5, <1>6, <1>7, <1>8, <1>9, <1>10, <1>11, <1>12,
     <1>13, <1>15, <1>16, <1>17, <1>18 DEF Next, CStep, AStep, FaultStep

(* Every step keeps the link between the POST under way and C's history.   *)
LEMMA CallStep == IInv /\ [Next]_vars => CallInv'
<1> SUFFICES ASSUME IInv, [Next]_vars PROVE CallInv'
  OBVIOUS
<1> USE DEF CallInv
<1>t. TypeOK /\ CallInv
  BY DEF IInv
<1>1. CASE CHandlePost
  <2>1. batch \subseteq stored' /\ stored \subseteq stored'
    BY <1>1 DEF CHandlePost, insertPayload
  <2> QED
    BY <1>1, <1>t, <2>1, RowsOfMonotone DEF CHandlePost
<1>2. CASE CHandleLate
  <2>1. stored \subseteq stored' /\ UNCHANGED <<pc, batch, call, todo>>
    BY <1>2 DEF CHandleLate, insertPayload
  <2> QED
    BY <1>t, <2>1, RowsOfMonotone
<1>3. CASE PostAnswered
  <2>1. acknowledged(batch, Response(batch)) \subseteq RowsOf(batch)
    BY DEF acknowledged
  <2>2. RowsOf(batch) \subseteq RowsOf(stored)
    BY <1>3, <1>t, RowsOfMonotone DEF PostAnswered
  <2> QED
    BY <1>3, <1>t, <2>1, <2>2 DEF PostAnswered, EndCycle
<1>4. CASE FetchInfo \/ FetchPhotos \/ FetchError
  BY <1>4, <1>t DEF FetchInfo, FetchPhotos, FetchError, EndCycle
<1>5. CASE AppendEntry \/ AppendSync \/ AppendFails
  BY <1>5, <1>t DEF AppendEntry, AppendSync, AppendFails, EndCycle
<1>6. CASE PostRefused \/ PostLost \/ CRefusePost
  BY <1>6, <1>t DEF PostRefused, PostLost, CRefusePost, EndCycle
<1>7. CASE Crash \/ PowerLoss \/ Restart \/ RestartFails \/ UNCHANGED vars
  BY <1>7, <1>t DEF Crash, PowerLoss, Dead, Restart, RestartFails, vars
<1>8. ASSUME NEW r \in Rows, AppWrite(r) PROVE CallInv'
  BY <1>8, <1>t DEF AppWrite
<1> QED
  BY <1>1, <1>2, <1>3, <1>4, <1>5, <1>6, <1>7, <1>8 DEF Next, CStep, AStep, FaultStep

(* Every step keeps both invariants about what is confirmed.               *)
LEMMA ConfirmedStep ==
    IInv /\ [Next]_vars => MemoryBackedByFile' /\ ConfirmedCommitted'
<1> SUFFICES ASSUME IInv, [Next]_vars PROVE MemoryBackedByFile' /\ ConfirmedCommitted'
  OBVIOUS
<1>t. TypeOK /\ CallInv /\ MemoryBackedByFile /\ ConfirmedCommitted
  BY DEF IInv
<1>1. ASSUME stored \subseteq stored', UNCHANGED <<done, file>>
      PROVE  MemoryBackedByFile' /\ ConfirmedCommitted'
  <2>1. RowsOf(stored) \subseteq RowsOf(stored')
    BY <1>1, RowsOfMonotone
  <2> QED
    BY <1>1, <1>t, <2>1 DEF MemoryBackedByFile, ConfirmedCommitted
<1>2. CASE AppendEntry
  <2>1. PICK r \in todo :
          /\ file' = IF r \in done THEN file ELSE Append(file, r)
          /\ done' = done \cup {r}
    BY <1>2 DEF AppendEntry
  <2>2. r \in Rows \cup {Torn} /\ file \in Seq(Rows \cup {Torn}) /\ r \in RowsOf(stored)
    BY <2>1, <1>t DEF TypeOK, CallInv
  <2>3. Lines(file') = Lines(file) \cup {r}
    BY <2>1, <2>2, <1>t, LinesAppend DEF MemoryBackedByFile
  <2> QED
    BY <1>2, <2>1, <2>2, <2>3, <1>t
    DEF AppendEntry, MemoryBackedByFile, ConfirmedCommitted, Entries
<1>3. CASE AppendFails
  <2>1. stored' = stored /\ done' = done
    BY <1>3 DEF AppendFails
  <2>2. file' = file \/ \E x \in todo \cup {Torn} : file' = Append(file, x)
    BY <1>3 DEF AppendFails
  <2>3. ASSUME NEW x \in todo \cup {Torn}, file' = Append(file, x)
        PROVE  MemoryBackedByFile' /\ ConfirmedCommitted'
    <3>1. x \in Rows \cup {Torn} /\ file \in Seq(Rows \cup {Torn})
      BY <1>t DEF TypeOK
    <3>2. Lines(file') = Lines(file) \cup {x}
      BY <2>3, <3>1, LinesAppend
    <3>3. x = Torn \/ x \in RowsOf(stored)
      BY <1>t DEF CallInv
    <3> QED
      BY <2>1, <3>2, <3>3, <1>t DEF MemoryBackedByFile, ConfirmedCommitted, Entries
  <2> QED
    BY <2>1, <2>2, <2>3, <1>1
<1>4. CASE Crash
  BY <1>4, <1>t DEF Crash, Dead, MemoryBackedByFile, ConfirmedCommitted
<1>5. CASE PowerLoss
  <2>1. file' \in AfterPowerLoss /\ done' = {} /\ stored' = stored
    BY <1>5 DEF PowerLoss, Dead
  <2>2. Entries(file') \subseteq Entries(file)
    BY <2>1, <1>t, PowerLossFile
  <2> QED
    BY <2>1, <2>2, <1>t DEF MemoryBackedByFile, ConfirmedCommitted
<1>6. CASE Restart
  BY <1>6, <1>t DEF Restart, MemoryBackedByFile, ConfirmedCommitted, Entries
<1>7. CASE CHandlePost \/ CHandleLate
  BY <1>7, <1>1 DEF CHandlePost, CHandleLate, insertPayload
<1>8. CASE FetchInfo \/ FetchPhotos \/ FetchError \/ PostAnswered \/ PostRefused
             \/ AppendSync \/ CRefusePost \/ PostLost
  BY <1>8, <1>1 DEF FetchInfo, FetchPhotos, FetchError, PostAnswered, PostRefused,
     AppendSync, CRefusePost, PostLost
<1>9. CASE RestartFails \/ UNCHANGED vars
  BY <1>9, <1>1 DEF RestartFails, vars
<1>10. ASSUME NEW r \in Rows, AppWrite(r)
       PROVE  MemoryBackedByFile' /\ ConfirmedCommitted'
  BY <1>10, <1>1 DEF AppWrite
<1> QED
  BY <1>2, <1>3, <1>4, <1>5, <1>6, <1>7, <1>8, <1>9, <1>10
  DEF Next, CStep, AStep, FaultStep

-----------------------------------------------------------------------------
(* The inductive invariant holds in every behaviour of the uploader.       *)
THEOREM Invariance == Spec => []IInv
<1>1. IInv /\ [Next]_vars => IInv'
  BY TypeStep, CallStep, ConfirmedStep DEF IInv
<1> QED
  BY InitIInv, <1>1, PTL DEF Spec

(* Every variable of the uploader model keeps its type.                    *)
THEOREM TypeCorrect == Spec => []TypeOK
BY Invariance, PTL DEF IInv

(* A never confirms a row C has not committed (acknowledged, append and    *)
(* loadState), whatever fails and whatever keys C derives.                 *)
THEOREM ConfirmedSafety == Spec => []ConfirmedCommitted
BY Invariance, PTL DEF IInv

(* The state file backs everything the process takes for confirmed         *)
(* (stateStore.append writes the line before it updates the map).          *)
THEOREM MemorySafety == Spec => []MemoryBackedByFile
BY Invariance, PTL DEF IInv
-----------------------------------------------------------------------------
(* What is read, under way or committed was in the tables, and a process   *)
(* that is down has no map: what the refinement needs on top of IInv.      *)
Offered == {r \in Rows : src[r] > 0}

OfferedInv ==
    /\ RowsOf(batch) \subseteq Offered
    /\ \A recs \in late : RowsOf(recs) \subseteq Offered
    /\ RowsOf(stored) \subseteq Offered
    /\ pc = "down" => done = {}

(* What a SELECT returns is in the tables.                                 *)
LEMMA SnapshotOffered ==
    ASSUME NEW e
    PROVE  RowsOf(Snapshot(Top(e))) \subseteq Offered
<1>1. Top(e) \subseteq Offered
  BY DEF Top, Pending, Offered
<1>2. RowsOf(Snapshot(Top(e))) \subseteq Top(e)
  <2> HIDE DEF Top
  <2> QED
    BY DEF RowsOf, Snapshot
<1> QED
  BY <1>1, <1>2

(* The rows of two sets of records together.                               *)
LEMMA RowsOfUnion ==
    ASSUME NEW A, NEW B
    PROVE  RowsOf(A \cup B) = RowsOf(A) \cup RowsOf(B)
BY DEF RowsOf

(* Every step keeps the additional invariant.                              *)
LEMMA OfferedStep == IInv /\ OfferedInv /\ [Next]_vars => OfferedInv'
<1> SUFFICES ASSUME IInv, OfferedInv, [Next]_vars PROVE OfferedInv'
  OBVIOUS
<1>t. TypeOK /\ OfferedInv
  BY DEF IInv
<1>e. RowsOf({}) = {}
  BY DEF RowsOf
<1>1. ASSUME NEW r \in Rows, AppWrite(r) PROVE OfferedInv'
  <2>1. Offered \subseteq Offered'
    BY <1>1, <1>t, BoundsAssumption DEF AppWrite, Offered, TypeOK
  <2> HIDE DEF Offered
  <2> QED
    BY <1>1, <1>t, <2>1 DEF AppWrite, OfferedInv
<1>o. ASSUME src' = src PROVE Offered' = Offered
  BY <1>o DEF Offered
<1> HIDE DEF Offered
<1>2. CASE CHandlePost
  <2>1. stored' = stored \cup batch /\ UNCHANGED <<src, pc, batch, late, done>>
    BY <1>2 DEF CHandlePost, insertPayload
  <2> QED
    BY <1>t, <1>o, <2>1, RowsOfUnion DEF OfferedInv
<1>3. CASE CHandleLate
  <2>1. PICK recs \in late : stored' = stored \cup recs /\ late' = late \ {recs}
          /\ UNCHANGED <<src, pc, batch, done>>
    BY <1>3 DEF CHandleLate, insertPayload
  <2> QED
    BY <1>t, <1>o, <2>1, RowsOfUnion DEF OfferedInv
<1>4. CASE FetchInfo
  <2>1. RowsOf(batch') \subseteq Offered
    BY <1>4, SnapshotOffered DEF FetchInfo
  <2> QED
    BY <1>4, <1>t, <1>o, <2>1 DEF FetchInfo, OfferedInv
<1>5. CASE FetchPhotos
  <2> DEFINE fetched == batch \cup Snapshot(Top("weight_photo"))
  <2>1. RowsOf(fetched) \subseteq Offered
    BY <1>t, SnapshotOffered, RowsOfUnion DEF OfferedInv
  <2>2. batch' \subseteq fetched
    BY <1>5 DEF FetchPhotos, EndCycle
  <2> HIDE DEF fetched
  <2>3. RowsOf(batch') \subseteq Offered
    BY <2>1, <2>2, RowsOfMonotone
  <2>4. UNCHANGED <<src, stored, late, done>> /\ pc' # "down"
    BY <1>5 DEF FetchPhotos, EndCycle
  <2> QED
    BY <1>t, <1>o, <2>3, <2>4 DEF OfferedInv
<1>6. CASE FetchError \/ PostRefused \/ AppendFails \/ AppendSync
  BY <1>6, <1>t, <1>o, <1>e DEF FetchError, PostRefused, AppendFails, AppendSync, EndCycle, OfferedInv
<1>7. CASE PostAnswered
  BY <1>7, <1>t, <1>o, <1>e DEF PostAnswered, EndCycle, OfferedInv
<1>8. ASSUME Abandon PROVE late' \subseteq late \cup {batch}
  BY <1>8 DEF Abandon
<1>9. CASE PostLost
  <2>1. late' \subseteq late \cup {batch} /\ batch' = {} /\ UNCHANGED <<src, stored, done>> /\ pc' = "idle"
    BY <1>8, <1>9 DEF PostLost, EndCycle
  <2> QED
    BY <1>t, <1>o, <1>e, <2>1 DEF OfferedInv
<1>10. CASE Crash \/ PowerLoss
  <2>1. late' \subseteq late \cup {batch} /\ batch' = {} /\ UNCHANGED <<src, stored>> /\ done' = {}
    BY <1>8, <1>10 DEF Crash, PowerLoss, Dead
  <2> QED
    BY <1>t, <1>o, <1>e, <2>1 DEF OfferedInv
<1>11. CASE AppendEntry \/ CRefusePost \/ Restart \/ RestartFails \/ UNCHANGED vars
  BY <1>11, <1>t, <1>o DEF AppendEntry, CRefusePost, Restart, RestartFails, vars, OfferedInv
<1> QED
  BY <1>1, <1>2, <1>3, <1>4, <1>5, <1>6, <1>7, <1>9, <1>10, <1>11
  DEF Next, CStep, AStep, FaultStep

(* Every step of A, C and the application is one of Delivery or none.      *)
LEMMA StepDelivers ==
    IInv /\ OfferedInv /\ [Next]_vars
    => Deliver!Next \/ UNCHANGED <<Offered, RowsOf(stored), done>>
<1> SUFFICES ASSUME IInv, OfferedInv, [Next]_vars
             PROVE  Deliver!Next \/ UNCHANGED <<Offered, RowsOf(stored), done>>
  OBVIOUS
<1>t. TypeOK /\ CallInv /\ ConfirmedCommitted /\ OfferedInv
  BY DEF IInv
<1>s. RowsOf(stored) \subseteq Rows
  BY <1>t DEF OfferedInv, Offered
<1>1. ASSUME NEW r \in Rows, AppWrite(r) PROVE Deliver!Next
  <2>1. Offered' = Offered \cup {r} /\ UNCHANGED <<stored, done>>
    BY <1>1, <1>t, BoundsAssumption DEF AppWrite, Offered, TypeOK
  <2>2. Deliver!Offer(r)
    BY <2>1 DEF Deliver!Offer, Offered
  <2> QED
    BY <2>2 DEF Deliver!Next
<1>2. ASSUME NEW recs \in SUBSET Records, stored' = stored \cup recs,
             RowsOf(recs) \subseteq Offered, UNCHANGED <<src, done>>
      PROVE  Deliver!Next
  <2>1. PICK some \in SUBSET Rows : some = RowsOf(recs)
    BY <1>2 DEF Offered
  <2>2. RowsOf(stored') = RowsOf(stored) \cup some
    BY <1>2, <2>1, RowsOfUnion
  <2>3. Deliver!Store(some)
    BY <1>2, <2>1, <2>2 DEF Deliver!Store, Offered
  <2> QED
    BY <2>1, <2>3 DEF Deliver!Next
<1>3. CASE CHandlePost
  <2>1. batch \in SUBSET Records /\ RowsOf(batch) \subseteq Offered
    BY <1>t DEF TypeOK, OfferedInv
  <2> QED
    BY <1>2, <1>3, <2>1 DEF CHandlePost, insertPayload
<1>4. CASE CHandleLate
  <2>1. PICK recs \in late : insertPayload(recs) /\ UNCHANGED <<src, done>>
    BY <1>4 DEF CHandleLate
  <2>2. recs \in SUBSET Records /\ RowsOf(recs) \subseteq Offered
    BY <1>t, <2>1 DEF TypeOK, OfferedInv
  <2> QED
    BY <1>2, <2>1, <2>2 DEF insertPayload
<1>5. ASSUME NEW some \in SUBSET RowsOf(stored), done' = done \cup some,
             UNCHANGED <<src, stored>>
      PROVE  Deliver!Next
  <2>1. Deliver!Confirm(some)
    BY <1>5 DEF Deliver!Confirm
  <2>2. some \in SUBSET Rows
    BY <1>s
  <2> QED
    BY <2>1, <2>2 DEF Deliver!Next
<1>6. CASE AppendEntry
  <2>1. PICK r \in todo : done' = done \cup {r}
    BY <1>6 DEF AppendEntry
  <2>2. {r} \in SUBSET RowsOf(stored)
    BY <1>t, <2>1 DEF CallInv
  <2> QED
    BY <1>5, <1>6, <2>1, <2>2 DEF AppendEntry
<1>7. CASE Restart
  <2>1. Lines(file) \in SUBSET RowsOf(stored)
    BY <1>7, <1>t DEF Restart, ConfirmedCommitted, Entries
  <2>2. done = {}
    BY <1>7, <1>t DEF Restart, OfferedInv
  <2> QED
    BY <1>5, <1>7, <2>1, <2>2 DEF Restart
<1>8. CASE Crash \/ PowerLoss
  <2>1. done' = {} /\ UNCHANGED <<src, stored>>
    BY <1>8 DEF Crash, PowerLoss, Dead
  <2>2. PICK some \in SUBSET Rows : some = done
    BY <1>t DEF TypeOK
  <2>3. Deliver!Withdraw(some)
    BY <2>1, <2>2 DEF Deliver!Withdraw
  <2> QED
    BY <2>2, <2>3 DEF Deliver!Next
<1>9. ASSUME UNCHANGED <<src, stored, done>>
      PROVE  UNCHANGED <<Offered, RowsOf(stored), done>>
  BY <1>9 DEF Offered
<1>10. CASE \/ FetchInfo \/ FetchPhotos \/ FetchError \/ PostAnswered \/ PostRefused
            \/ AppendSync \/ AppendFails \/ CRefusePost \/ PostLost
            \/ RestartFails \/ UNCHANGED vars
  BY <1>9, <1>10 DEF FetchInfo, FetchPhotos, FetchError, PostAnswered, PostRefused,
     AppendSync, AppendFails, CRefusePost, PostLost, RestartFails, vars
<1> QED
  BY <1>1, <1>3, <1>4, <1>6, <1>7, <1>8, <1>10 DEF Next, CStep, AStep, FaultStep

(* A and C together implement Delivery, for any rows, keys and faults.     *)
THEOREM Implementation == Spec => ImplementsDelivery
<1>1. Init => Deliver!Init /\ OfferedInv
  BY DEF Init, Deliver!Init, OfferedInv, Offered, RowsOf
<1>2. IInv /\ OfferedInv /\ [Next]_vars => [Deliver!Next]_(Deliver!deliveryVars)
  BY StepDelivers DEF Deliver!deliveryVars, Offered
<1> QED
  BY <1>1, <1>2, OfferedStep, Invariance, PTL DEF Spec, ImplementsDelivery, Deliver!Spec

-----------------------------------------------------------------------------
(* Outside an append every line of the file is on stable storage.          *)
DurableInv == pc # "append" => synced = Len(file)

(* Between cycles every line is on stable storage, if writes succeed and   *)
(* the process dies only with its machine: syncOnce returns only after     *)
(* file.Sync (stateStore.append).                                          *)
THEOREM DurableSafety ==
    ASSUME "write" \notin Faults, "crash" \notin Faults
    PROVE  Spec => []IdleIsDurable
<1>1. Init => DurableInv
  BY DEF Init, DurableInv
<1>2. DurableInv /\ [Next]_vars => DurableInv'
  <2> SUFFICES ASSUME DurableInv, [Next]_vars PROVE DurableInv'
    OBVIOUS
  <2> USE DEF DurableInv
  <2>1. ~AppendFails /\ ~Crash
    BY DEF AppendFails, Crash, Fault
  <2>2. ASSUME NEW r \in Rows, AppWrite(r) PROVE DurableInv'
    BY <2>2 DEF AppWrite
  <2>3. CASE CHandlePost \/ CHandleLate \/ CRefusePost
    BY <2>3 DEF CHandlePost, CHandleLate, CRefusePost
  <2>4. CASE FetchInfo \/ FetchPhotos \/ FetchError
    BY <2>4 DEF FetchInfo, FetchPhotos, FetchError, EndCycle, Fault
  <2>5. CASE PostAnswered \/ PostRefused \/ PostLost
    BY <2>5 DEF PostAnswered, PostRefused, PostLost, EndCycle
  <2>6. CASE AppendEntry \/ AppendSync
    BY <2>6 DEF AppendEntry, AppendSync, EndCycle
  <2>7. CASE PowerLoss \/ Restart \/ RestartFails \/ UNCHANGED vars
    BY <2>7 DEF PowerLoss, Dead, Restart, RestartFails, vars
  <2> QED
    BY <2>1, <2>2, <2>3, <2>4, <2>5, <2>6, <2>7 DEF Next, CStep, AStep, FaultStep
<1>3. DurableInv => IdleIsDurable
  BY DEF DurableInv, IdleIsDurable
<1> QED
  BY <1>1, <1>2, <1>3, PTL DEF Spec

-----------------------------------------------------------------------------
(* The versions along the way of a record: C holds none newer than the     *)
(* tables, A has read none older than C holds, and a batch has one version *)
(* of each row, since the two SELECTs read different tables.  No request   *)
(* outlives its sender.                                                    *)
VersionInv ==
    /\ late = {}
    /\ pc = "photos" => \A x \in batch : x[1][1] = "weight_info"
    /\ \A x, y \in batch : x[1] = y[1] => x = y
    /\ \A x \in batch : x[2] <= src[x[1]]
    /\ \A k \in Keys : cdb[k] # NoRecord =>
         /\ cdb[k][2] <= src[cdb[k][1]]
         /\ \A x \in batch : x[1] = cdb[k][1] => cdb[k][2] <= x[2]

(* What the upsert leaves under a key is what it held or a record of the   *)
(* payload (insertPayload).                                                *)
LEMMA InsertKeeps ==
    ASSUME TypeOK, NEW recs \in SUBSET Records, insertPayload(recs), NEW k \in Keys
    PROVE  cdb'[k] = cdb[k] \/ cdb'[k] \in recs
<1>1. CASE Winner(k, recs) = {}
  BY <1>1 DEF insertPayload
<1>2. CASE Winner(k, recs) # {}
  <2>1. (CHOOSE x \in Winner(k, recs) : TRUE) \in Winner(k, recs)
    BY <1>2
  <2>2. Winner(k, recs) \subseteq recs
    BY DEF Winner
  <2> QED
    BY <1>2, <2>1, <2>2 DEF insertPayload
<1> QED
  BY <1>1, <1>2

(* What a SELECT reads are the current versions, one per row, of rows of   *)
(* its table (fetchAll).                                                   *)
LEMMA SnapshotVersions ==
    ASSUME NEW e, NEW x \in Snapshot(Top(e))
    PROVE  x[1] \in Rows /\ x[1][1] = e /\ x = <<x[1], src[x[1]]>>
<1>1. PICK r \in Top(e) : x = <<r, src[r]>>
  BY DEF Snapshot
<1>2. r \in Rows /\ r[1] = e
  BY DEF Top, Pending
<1> QED
  BY <1>1, <1>2

(* Every step keeps the versions in order and takes no record of C back,   *)
(* if no request outlives its sender.                                      *)
LEMMA VersionStep ==
    ASSUME "late" \notin Faults, IInv, VersionInv, [Next]_vars
    PROVE  /\ VersionInv'
           /\ \A k \in Keys : cdb[k] # NoRecord =>
                /\ cdb'[k] # NoRecord
                /\ cdb'[k][1] = cdb[k][1] => cdb'[k][2] >= cdb[k][2]
<1> DEFINE Advance ==
      \A k \in Keys : cdb[k] # NoRecord =>
        /\ cdb'[k] # NoRecord
        /\ cdb'[k][1] = cdb[k][1] => cdb'[k][2] >= cdb[k][2]
<1>t. TypeOK
  BY DEF IInv
<1>r. \A x \in Records : x[1] \in Rows /\ x[2] \in Int /\ x # NoRecord
  BY SentinelAssumption DEF Records, Versions
<1>b. batch \subseteq Records
  BY <1>t DEF TypeOK
<1>c. \A k \in Keys : cdb[k] # NoRecord => cdb[k] \in Records
  BY <1>t DEF TypeOK
<1>s. \A r \in Rows : src[r] \in Int
  BY <1>t DEF TypeOK
<1>a. ASSUME UNCHANGED cdb PROVE Advance
  <2> SUFFICES ASSUME NEW k \in Keys, cdb[k] # NoRecord PROVE cdb[k][2] >= cdb[k][2]
    BY <1>a
  <2> QED
    BY <1>c, <1>r
<1>1. ASSUME UNCHANGED <<src, cdb, late>>, batch' = batch \/ batch' = {}, pc' # "photos"
      PROVE  VersionInv' /\ Advance
  BY <1>1, <1>a DEF VersionInv
<1>2. ASSUME NEW r \in Rows, AppWrite(r) PROVE VersionInv' /\ Advance
  <2>1. UNCHANGED <<cdb, pc, batch, late>> /\ \A u \in Rows : src'[u] \in Int /\ src[u] <= src'[u]
    BY <1>2, <1>t DEF AppWrite, TypeOK
  <2>2. \A x \in batch : x[2] <= src'[x[1]]
    <3> SUFFICES ASSUME NEW x \in batch PROVE x[2] <= src'[x[1]]
      OBVIOUS
    <3>1. x[1] \in Rows /\ x[2] \in Int /\ x[2] <= src[x[1]]
      BY <1>b, <1>r DEF VersionInv
    <3> QED
      BY <1>s, <2>1, <3>1
  <2>3. \A k \in Keys : cdb[k] # NoRecord => cdb[k][2] <= src'[cdb[k][1]]
    <3> SUFFICES ASSUME NEW k \in Keys, cdb[k] # NoRecord PROVE cdb[k][2] <= src'[cdb[k][1]]
      OBVIOUS
    <3>1. cdb[k][1] \in Rows /\ cdb[k][2] \in Int /\ cdb[k][2] <= src[cdb[k][1]]
      BY <1>c, <1>r DEF VersionInv
    <3> QED
      BY <1>s, <2>1, <3>1
  <2> QED
    BY <1>a, <2>1, <2>2, <2>3 DEF VersionInv
<1>3. CASE CHandlePost
  <2>1. /\ batch \in SUBSET Records /\ insertPayload(batch)
        /\ UNCHANGED <<src, pc, batch, late>>
    BY <1>3, <1>b DEF CHandlePost
  <2>2. \A k \in Keys : cdb'[k] = cdb[k] \/ cdb'[k] \in batch
    BY <1>t, <2>1, InsertKeeps
  <2>3. Advance
    <3> SUFFICES ASSUME NEW k \in Keys, cdb[k] # NoRecord
                 PROVE  /\ cdb'[k] # NoRecord
                        /\ cdb'[k][1] = cdb[k][1] => cdb'[k][2] >= cdb[k][2]
      OBVIOUS
    <3>1. CASE cdb'[k] = cdb[k]
      BY <1>c, <1>r, <3>1
    <3>2. CASE cdb'[k] \in batch
      <4>1. cdb'[k] # NoRecord /\ cdb'[k][2] \in Int /\ cdb[k][2] \in Int
        BY <1>b, <1>c, <1>r, <3>2
      <4> QED
        BY <3>2, <4>1 DEF VersionInv
    <3> QED
      BY <2>2, <3>1, <3>2
  <2>4. ASSUME NEW k \in Keys, cdb'[k] # NoRecord
        PROVE  /\ cdb'[k][2] <= src[cdb'[k][1]]
               /\ \A x \in batch : x[1] = cdb'[k][1] => cdb'[k][2] <= x[2]
    <3>1. CASE cdb'[k] = cdb[k]
      BY <2>4, <3>1 DEF VersionInv
    <3>2. CASE cdb'[k] \in batch
      <4>1. cdb'[k][2] \in Int
        BY <1>b, <1>r, <3>2
      <4>2. \A x \in batch : x[1] = cdb'[k][1] => x = cdb'[k]
        BY <3>2 DEF VersionInv
      <4> QED
        BY <3>2, <4>1, <4>2 DEF VersionInv
    <3> QED
      BY <2>2, <3>1, <3>2
  <2>5. VersionInv'
    BY <2>1, <2>4 DEF VersionInv
  <2> QED
    BY <2>3, <2>5
<1>4. ~CHandleLate
  BY DEF CHandleLate, VersionInv
<1>5. ASSUME NEW read, \A x \in read : x[1] \in Rows /\ x = <<x[1], src[x[1]]>>
      PROVE  /\ \A x \in read : x[2] <= src[x[1]]
             /\ \A x, y \in read : x[1] = y[1] => x = y
             /\ \A k \in Keys : cdb[k] # NoRecord =>
                  \A x \in read : x[1] = cdb[k][1] => cdb[k][2] <= x[2]
  <2>1. \A x \in read : x[2] = src[x[1]] /\ x[2] \in Int
    BY <1>5, <1>s
  <2>2. \A x \in read : x[2] <= src[x[1]]
    BY <2>1
  <2>3. \A x, y \in read : x[1] = y[1] => x = y
    BY <1>5
  <2> QED
    BY <2>1, <2>2, <2>3 DEF VersionInv
<1>6. CASE FetchInfo
  <2>1. batch' = Snapshot(Top("weight_info")) /\ UNCHANGED <<src, cdb, late>>
    BY <1>6 DEF FetchInfo
  <2>2. \A x \in batch' : x[1] \in Rows /\ x[1][1] = "weight_info" /\ x = <<x[1], src[x[1]]>>
    BY <2>1, SnapshotVersions
  <2>3. VersionInv'
    BY <1>5, <2>1, <2>2 DEF VersionInv
  <2> QED
    BY <1>a, <2>1, <2>3
<1>7. CASE FetchPhotos
  <2> DEFINE photos == Snapshot(Top("weight_photo"))
  <2>1. /\ pc = "photos" /\ pc' # "photos" /\ UNCHANGED <<src, cdb, late>>
        /\ batch' \subseteq batch \cup photos
    BY <1>7 DEF FetchPhotos, EndCycle
  <2>2. \A x \in photos : x[1] \in Rows /\ x[1][1] = "weight_photo" /\ x = <<x[1], src[x[1]]>>
    BY SnapshotVersions
  <2> HIDE DEF photos
  <2>3. /\ \A x \in photos : x[2] <= src[x[1]]
        /\ \A x, y \in photos : x[1] = y[1] => x = y
        /\ \A k \in Keys : cdb[k] # NoRecord =>
             \A x \in photos : x[1] = cdb[k][1] => cdb[k][2] <= x[2]
    BY <1>5, <2>2
  <2>4. \A x \in batch, y \in photos : x[1] # y[1]
    BY <2>1, <2>2 DEF VersionInv
  <2>5. \A x, y \in batch' : x[1] = y[1] => x = y
    BY <2>1, <2>3, <2>4 DEF VersionInv
  <2>6. \A x \in batch' : x[2] <= src[x[1]]
    BY <2>1, <2>3 DEF VersionInv
  <2>7. \A k \in Keys : cdb[k] # NoRecord =>
           /\ cdb[k][2] <= src[cdb[k][1]]
           /\ \A x \in batch' : x[1] = cdb[k][1] => cdb[k][2] <= x[2]
    BY <2>1, <2>3 DEF VersionInv
  <2>8. VersionInv'
    BY <2>1, <2>5, <2>6, <2>7 DEF VersionInv
  <2> QED
    BY <1>a, <2>1, <2>8
<1>8. ASSUME Abandon PROVE late' = late
  BY <1>8 DEF Abandon
<1>9. CASE PostLost \/ Crash \/ PowerLoss
  <2>1. UNCHANGED <<src, cdb, late>> /\ batch' = {} /\ pc' # "photos"
    BY <1>8, <1>9 DEF PostLost, Crash, PowerLoss, EndCycle, Dead
  <2> QED
    BY <1>1, <2>1
<1>10. CASE FetchError \/ PostAnswered \/ PostRefused \/ AppendFails \/ AppendSync
  <2>1. UNCHANGED <<src, cdb, late>> /\ (batch' = batch \/ batch' = {}) /\ pc' # "photos"
    BY <1>10 DEF FetchError, PostAnswered, PostRefused, AppendFails, AppendSync, EndCycle
  <2> QED
    BY <1>1, <2>1
<1>11. CASE AppendEntry \/ CRefusePost \/ Restart \/ RestartFails \/ UNCHANGED vars
  <2>1. UNCHANGED <<src, cdb, late, batch>> /\ (pc' = pc \/ pc' # "photos")
    BY <1>11 DEF AppendEntry, CRefusePost, Restart, RestartFails, vars
  <2> QED
    BY <1>a, <2>1 DEF VersionInv
<1> QED
  BY <1>2, <1>3, <1>4, <1>6, <1>7, <1>9, <1>10, <1>11 DEF Next, CStep, AStep, FaultStep

(* The version C holds of a row never goes back, whatever keys C derives   *)
(* and whatever is resent, if a request dies with its sender; a request    *)
(* that outlives it breaks this (insertPayload, syncOnce).                 *)
THEOREM VersionSafety ==
    ASSUME "late" \notin Faults
    PROVE  Spec => VersionsAdvance
<1> DEFINE Advance ==
      \A k \in Keys : cdb[k] # NoRecord =>
        /\ cdb'[k] # NoRecord
        /\ cdb'[k][1] = cdb[k][1] => cdb'[k][2] >= cdb[k][2]
<1>1. Init => VersionInv
  BY DEF Init, VersionInv
<1>2. IInv /\ VersionInv /\ [Next]_vars => VersionInv'
  BY VersionStep
<1>3. IInv /\ VersionInv /\ [Next]_vars => [Advance]_vars
  BY VersionStep
<1> QED
  BY <1>1, <1>2, <1>3, Invariance, PTL DEF Spec, VersionsAdvance
=============================================================================
