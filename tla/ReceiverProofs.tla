--------------------------- MODULE ReceiverProofs ---------------------------
(* Safety of C's handlers, for any number of them, any nonces, any window  *)
(* and minimum age.                                                        *)
EXTENDS Receiver, FiniteSetTheorems, TLAPS

(* Every request that was let in is remembered until it expires.           *)
Remembers ==
    \A a \in admitted :
        a.until < clock \/ (nonces[a.nonce] # None /\ nonces[a.nonce] >= a.until)

(* Only nonces that were let in are remembered.                            *)
RemembersUsed == \A n \in Nonces : nonces[n] # None => \E a \in admitted : a.nonce = n

(* A cutoff waiting for its DELETE is at most too early.                   *)
CutoffPast == \A h \in Handlers : pc[h] = "deleting" => cutoff[h] <= clock - MinAge

IInv == TypeOK /\ Remembers /\ RemembersUsed /\ CutoffPast

(* What the textual order of times says about the times themselves         *)
(* (timeString).                                                           *)
LEMMA TextOrder ==
    ASSUME NEW a \in Int, NEW b \in Int, TextBefore(a, b)
    PROVE  a < b + 2
BY DEF TextBefore

(* A finished handler keeps neither request nor cutoff.                    *)
LEMMA AnswerType ==
    ASSUME TypeOK, NEW h \in Handlers, Answer(h)
    PROVE  /\ pc' \in [Handlers -> {"idle", "verified", "authorized", "deleting"}]
           /\ req' \in [Handlers -> Request \cup {None}]
           /\ \A g \in Handlers : pc'[g] = "verified" => req'[g] # None
           /\ cutoff' \in [Handlers -> Int]
           /\ \A g \in Handlers : pc'[g] = "deleting" => pc[g] = "deleting" /\ cutoff'[g] = cutoff[g]
BY DEF TypeOK, Answer, Goto

(* The types hold in every step.                                           *)
LEMMA TypeStep == TypeOK /\ [Next]_vars => TypeOK'
<1> SUFFICES ASSUME TypeOK, [Next]_vars PROVE TypeOK'
    OBVIOUS
<1> USE BoundsAssumption
<1>1. CASE Tick
    BY <1>1 DEF Tick, TypeOK, Times, Row, handlerVars, Request
<1>2. CASE Restart
    BY <1>2 DEF Restart, TypeOK, Times
<1>3. ASSUME NEW h \in Handlers, TooLarge(h) PROVE TypeOK'
    BY <1>3, AnswerType DEF TooLarge, TypeOK
<1>4. ASSUME NEW h \in Handlers, Verify(h) PROVE TypeOK'
    <2>1. UNCHANGED <<clock, recs, nonces, admitted, restarts>>
        BY <1>4 DEF Verify
    <2>2. CASE Answer(h)
        BY <2>1, <2>2, AnswerType DEF TypeOK
    <2>3. ASSUME NEW n \in Nonces, NEW ts \in Timestamps, Goto(h, "verified"), UNCHANGED cutoff,
                 req' = [req EXCEPT ![h] = [nonce |-> n, ts |-> ts]]
          PROVE  TypeOK'
        <3>1. [nonce |-> n, ts |-> ts] \in Request /\ [nonce |-> n, ts |-> ts] # None
            BY NoneAssumption DEF Timestamps, Request
        <3> QED
            BY <2>1, <2>3, <3>1 DEF Goto, TypeOK
    <2> QED
        BY <1>4, <2>2, <2>3 DEF Verify
<1>5. ASSUME NEW h \in Handlers, Add(h) PROVE TypeOK'
    <2> DEFINE n == req[h].nonce
               until == Expiry(req[h].ts)
               kept == [m \in Nonces |-> IF Remembered(m) THEN nonces[m] ELSE None]
    <2>1. n \in Nonces /\ until \in Int /\ req[h].ts + Skew \in Int
        BY <1>5 DEF Add, TypeOK, Request, Expiry
    <2>2. kept \in [Nonces -> Int \cup {None}]
        BY DEF TypeOK
    <2>3. CASE Answer(h) /\ nonces' = kept /\ UNCHANGED admitted
        BY <1>5, <2>2, <2>3, AnswerType DEF Add, TypeOK
    <2>4. CASE /\ nonces' = [kept EXCEPT ![n] = until]
               /\ Goto(h, "authorized")
               /\ admitted' = admitted \cup {[nonce |-> n, until |-> req[h].ts + Skew]}
               /\ req' = [req EXCEPT ![h] = None]
               /\ UNCHANGED cutoff
        <3>1. nonces' \in [Nonces -> Int \cup {None}]
            BY <2>1, <2>2, <2>4
        <3>2. admitted' \subseteq [nonce : Nonces, until : Int]
            BY <2>1, <2>4 DEF TypeOK
        <3> QED
            BY <1>5, <2>4, <3>1, <3>2 DEF Add, Goto, TypeOK
    <2> QED
        BY <1>5, <2>3, <2>4 DEF Add
<1>6. ASSUME NEW h \in Handlers, BadRequest(h) PROVE TypeOK'
    BY <1>6, AnswerType DEF BadRequest, TypeOK
<1>7. ASSUME NEW h \in Handlers, Post(h) PROVE TypeOK'
    <2>1. recs' \in [Keys -> Row \cup {None}]
        BY <1>7 DEF Post, TypeOK, Row
    <2> QED
        BY <1>7, <2>1, AnswerType DEF Post, TypeOK
<1>8. ASSUME NEW h \in Handlers, Query(h) PROVE TypeOK'
    BY <1>8, AnswerType DEF Query, TypeOK
<1>9. ASSUME NEW h \in Handlers, Cutoff(h) PROVE TypeOK'
    BY <1>9 DEF Cutoff, Goto, TypeOK, Times
<1>10. ASSUME NEW h \in Handlers, Delete(h) PROVE TypeOK'
    <2>1. recs' \in [Keys -> Row \cup {None}]
        BY <1>10 DEF Delete, TypeOK
    <2> QED
        BY <1>10, <2>1, AnswerType DEF Delete, TypeOK
<1>11. ASSUME NEW h \in Handlers, DatabaseFails(h) PROVE TypeOK'
    BY <1>11, AnswerType DEF DatabaseFails, TypeOK
<1>12. CASE UNCHANGED vars
    BY <1>12 DEF vars, handlerVars, TypeOK
<1> QED
    BY <1>1, <1>2, <1>3, <1>4, <1>5, <1>6, <1>7, <1>8, <1>9, <1>10, <1>11, <1>12
    DEF Next, Step

(* The empty server satisfies the invariant.                               *)
LEMMA InitIInv == Init => IInv
BY BoundsAssumption DEF Init, IInv, TypeOK, Remembers, RemembersUsed, CutoffPast, Times

(* The values Add works with.                                              *)
LEMMA AddTypes ==
    ASSUME TypeOK, NEW h \in Handlers, Add(h)
    PROVE  /\ req[h].nonce \in Nonces /\ req[h].ts + Skew \in Int
           /\ nonces \in [Nonces -> Int \cup {None}] /\ clock \in Int /\ None \notin Int
BY BoundsAssumption, NoneAssumption DEF Add, TypeOK, Request, Times

(* Add keeps every other nonce that has not expired.                       *)
LEMMA AddOthers ==
    ASSUME TypeOK, NEW h \in Handlers, Add(h), NEW m \in Nonces, m # req[h].nonce
    PROVE  nonces'[m] = IF Remembered(m) THEN nonces[m] ELSE None
BY AddTypes DEF Add

(* Add refuses a nonce that has not expired, and otherwise lets it in.     *)
LEMMA AddOwn ==
    ASSUME TypeOK, NEW h \in Handlers, Add(h)
    PROVE  \/ /\ Remembered(req[h].nonce)
              /\ nonces'[req[h].nonce] = nonces[req[h].nonce]
              /\ admitted' = admitted
           \/ /\ ~Remembered(req[h].nonce)
              /\ nonces'[req[h].nonce] = req[h].ts + Skew
              /\ admitted' = admitted \cup {[nonce |-> req[h].nonce, until |-> req[h].ts + Skew]}
BY AddTypes DEF Add, Expiry

(* Memory and history agree after every step.                              *)
LEMMA NonceStep == IInv /\ [Next]_vars => Remembers' /\ RemembersUsed'
<1> SUFFICES ASSUME IInv, [Next]_vars PROVE Remembers' /\ RemembersUsed'
    OBVIOUS
<1>1. CASE UNCHANGED <<nonces, admitted>>
    <2>1. clock \in Int /\ clock' \in Int /\ clock' >= clock
        BY BoundsAssumption
        DEF IInv, TypeOK, Times, Next, Step, Tick, Restart, TooLarge, Verify, Add, BadRequest,
            Post, Query, Cutoff, Delete, DatabaseFails, vars
    <2>2. \A a \in admitted : a.until \in Int
        BY DEF IInv, TypeOK
    <2> QED
        BY <1>1, <2>1, <2>2 DEF IInv, Remembers, RemembersUsed
<1>2. CASE Restart
    BY <1>2 DEF Restart, Remembers, RemembersUsed
<1>3. ASSUME NEW h \in Handlers, Add(h) PROVE Remembers' /\ RemembersUsed'
    <2>1. clock' = clock
        BY <1>3 DEF Add
    <2>2. \A a \in admitted : a.nonce \in Nonces /\ a.until \in Int
        BY DEF IInv, TypeOK
    <2>3. Remembers'
        <3> SUFFICES ASSUME NEW a \in admitted', ~ a.until < clock
                     PROVE  nonces'[a.nonce] # None /\ nonces'[a.nonce] >= a.until
            BY <2>1 DEF Remembers
        <3>1. CASE a \in admitted
            <4>1. nonces[a.nonce] # None /\ nonces[a.nonce] >= a.until
                BY <3>1 DEF IInv, Remembers
            <4> QED
                BY <1>3, <2>2, <3>1, <4>1, AddTypes, AddOthers, AddOwn DEF IInv, Remembered
        <3>2. CASE a \notin admitted
            BY <1>3, <3>2, AddTypes, AddOwn DEF IInv
        <3> QED
            BY <3>1, <3>2
    <2>4. RemembersUsed'
        <3> SUFFICES ASSUME NEW n \in Nonces, nonces'[n] # None
                     PROVE  \E a \in admitted' : a.nonce = n
            BY DEF RemembersUsed
        <3>1. CASE nonces[n] # None
            BY <1>3, <3>1, AddOwn DEF IInv, RemembersUsed
        <3>2. CASE nonces[n] = None
            <4>1. n = req[h].nonce
                BY <1>3, <3>2, AddOthers DEF IInv
            <4>2. [nonce |-> n, until |-> req[h].ts + Skew] \in admitted'
                BY <1>3, <3>2, <4>1, AddOwn DEF IInv, Remembered
            <4> QED
                BY <4>2
        <3> QED
            BY <3>1, <3>2
    <2> QED
        BY <2>3, <2>4
<1> QED
    BY <1>1, <1>2, <1>3
    DEF Next, Step, Tick, TooLarge, Verify, BadRequest, Post, Query, Cutoff, Delete, DatabaseFails, vars

(* A cutoff only gets older.                                               *)
LEMMA CutoffStep == IInv /\ [Next]_vars => CutoffPast'
<1> SUFFICES ASSUME IInv, [Next]_vars, NEW g \in Handlers, pc'[g] = "deleting"
             PROVE  cutoff'[g] <= clock' - MinAge
    BY DEF CutoffPast
<1>1. clock \in Int /\ MinAge \in Int /\ cutoff[g] \in Int
    BY BoundsAssumption DEF IInv, TypeOK, Times
<1>2. CASE pc[g] = "deleting" /\ cutoff'[g] = cutoff[g] /\ clock' \in {clock, clock + 1}
    BY <1>1, <1>2 DEF IInv, CutoffPast
<1>3. CASE \E h \in Handlers : Cutoff(h)
    BY <1>1, <1>3 DEF Cutoff, Goto, IInv, TypeOK, CutoffPast
<1>4. CASE Restart
    BY <1>4 DEF Restart
<1>5. CASE Tick \/ UNCHANGED vars
    BY <1>2, <1>5 DEF Tick, vars, handlerVars
<1>6. ASSUME NEW h \in Handlers, UNCHANGED clock, Answer(h) PROVE cutoff'[g] <= clock' - MinAge
    BY <1>2, <1>6, AnswerType DEF IInv
<1>7. ASSUME NEW h \in Handlers, UNCHANGED <<clock, cutoff>>,
             Goto(h, "verified") \/ Goto(h, "authorized")
      PROVE  cutoff'[g] <= clock' - MinAge
    BY <1>2, <1>7 DEF Goto, IInv, TypeOK
<1> QED
    BY <1>3, <1>4, <1>5, <1>6, <1>7
    DEF Next, Step, TooLarge, Verify, Add, BadRequest, Post, Query, Delete, DatabaseFails

(* The invariant of C: types, a complete and exact memory of nonces, and   *)
(* cutoffs that do not lie ahead (verifySignature, nonceStore,             *)
(* deleteRecord).                                                          *)
THEOREM Invariance == Spec => []IInv
<1>1. IInv /\ [Next]_vars => IInv'
    BY TypeStep, NonceStep, CutoffStep DEF IInv
<1> QED
    BY <1>1, InitIInv, PTL DEF Spec

(* Every variable of C keeps its type.                                     *)
THEOREM TypeCorrect == Spec => []TypeOK
<1>1. IInv => TypeOK
    BY DEF IInv
<1> QED
    BY <1>1, Invariance, PTL

(* A nonce is let in again only after its last use has expired             *)
(* (nonceStore.Add).                                                       *)
THEOREM NonceSafety == Spec => NonceOnce
<1> DEFINE Once(h) ==
        pc[h] = "verified" /\ pc'[h] = "authorized" =>
          \A a \in admitted : a.nonce = req[h].nonce => a.until < clock
<1>1. IInv /\ [Next]_vars => \A h \in Handlers : Once(h)
    <2> SUFFICES ASSUME IInv, [Next]_vars, NEW h \in Handlers,
                        pc[h] = "verified", pc'[h] = "authorized",
                        NEW a \in admitted, a.nonce = req[h].nonce
                 PROVE  a.until < clock
        OBVIOUS
    <2>1. Add(h) /\ Goto(h, "authorized")
        BY DEF IInv, TypeOK, Next, Step, Tick, Restart, TooLarge, Verify, Add, BadRequest, Post,
               Query, Cutoff, Delete, DatabaseFails, Answer, Goto, vars, handlerVars
    <2>2. ~Remembered(req[h].nonce)
        BY <2>1 DEF Add, Answer, Goto, IInv, TypeOK
    <2>3. a.until \in Int /\ clock \in Int /\ nonces[a.nonce] \in Int \cup {None}
        BY DEF IInv, TypeOK, Times
    <2> QED
        BY <2>2, <2>3, NoneAssumption DEF IInv, Remembers, Remembered
<1>2. IInv /\ [Next]_vars => [\A h \in Handlers : Once(h)]_vars
    BY <1>1
<1> QED
    BY <1>2, Invariance, PTL DEF Spec, NonceOnce

(* A genuine request is refused for its nonce only after a genuine use of  *)
(* it (verifySignature).                                                   *)
THEOREM RefusalSafety == Spec => RefusedOnlyIfUsed
<1> DEFINE Used(h) ==
        pc[h] = "verified" /\ pc'[h] = "idle" /\ restarts' = restarts =>
          \E a \in admitted : a.nonce = req[h].nonce
<1>1. IInv /\ [Next]_vars => \A h \in Handlers : Used(h)
    <2> SUFFICES ASSUME IInv, [Next]_vars, NEW h \in Handlers,
                        pc[h] = "verified", pc'[h] = "idle", restarts' = restarts
                 PROVE  \E a \in admitted : a.nonce = req[h].nonce
        OBVIOUS
    <2>1. Add(h)
        BY DEF IInv, TypeOK, Next, Step, Tick, Restart, TooLarge, Verify, Add, BadRequest, Post,
               Query, Cutoff, Delete, DatabaseFails, Answer, Goto, vars, handlerVars
    <2>2. nonces[req[h].nonce] # None
        BY <2>1 DEF Add, Remembered, Goto, IInv, TypeOK
    <2> QED
        BY <2>1, <2>2, AddTypes DEF IInv, RemembersUsed
<1>2. IInv /\ [Next]_vars => [\A h \in Handlers : Used(h)]_vars
    BY <1>1
<1> QED
    BY <1>2, Invariance, PTL DEF Spec, RefusedOnlyIfUsed

(* No row is deleted a second or more before its time (deleteRecord).      *)
THEOREM DeletionSafety == Spec => DeletedOldEnough
<1> DEFINE Old(k) ==
        recs[k] # None /\ recs'[k] = None => RecordTime(recs[k]) < clock - MinAge + 2
<1>1. IInv /\ [Next]_vars => \A k \in Keys : Old(k)
    <2> SUFFICES ASSUME IInv, [Next]_vars, NEW k \in Keys, recs[k] # None, recs'[k] = None
                 PROVE  RecordTime(recs[k]) < clock - MinAge + 2
        OBVIOUS
    <2>1. ASSUME NEW h \in Handlers, Post(h) PROVE FALSE
        BY <2>1, NoneAssumption DEF Post, IInv, TypeOK, Row
    <2>2. PICK h \in Handlers : Delete(h)
        BY <2>1 DEF Next, Step, Tick, Restart, TooLarge, Verify, Add, BadRequest, Query, Cutoff,
                    DatabaseFails, vars
    <2>3. TextBefore(RecordTime(recs[k]), cutoff[h])
        BY <2>2 DEF Delete, Deletable, IInv, TypeOK
    <2>4. RecordTime(recs[k]) \in Int
        <3>1. recs[k].source \in SourceTimes /\ recs[k].ingested \in Int
            BY BoundsAssumption DEF IInv, TypeOK, Row, Times
        <3> QED
            BY <3>1, SourceAssumption DEF RecordTime
    <2>5. cutoff[h] \in Int /\ clock \in Int /\ MinAge \in Int /\ cutoff[h] <= clock - MinAge
        BY <2>2, BoundsAssumption DEF Delete, IInv, TypeOK, Times, CutoffPast
    <2>6. RecordTime(recs[k]) < cutoff[h] + 2
        BY <2>3, <2>4, <2>5, TextOrder
    <2> QED
        BY <2>4, <2>5, <2>6
<1>2. IInv /\ [Next]_vars => [\A k \in Keys : Old(k)]_vars
    BY <1>1
<1> QED
    BY <1>2, Invariance, PTL DEF Spec, DeletedOldEnough

-----------------------------------------------------------------------------
(* Queries: ORDER BY is a strict total order of the rows, so that the rows *)
(* ahead of a row number it, and LIMIT and OFFSET cut numbers into pages.  *)

Rank(rows, k) == Cardinality({j \in rows : Ahead(j, k)})

(* The textual order of times is a strict total order (timeString).        *)
LEMMA TextTotal ==
    ASSUME NEW a \in Int, NEW b \in Int, NEW c \in Int
    PROVE  /\ ~TextBefore(a, a)
           /\ TextBefore(a, b) \/ a = b \/ TextBefore(b, a)
           /\ TextBefore(a, b) /\ TextBefore(b, c) => TextBefore(a, c)
<1>1. ~TextBefore(a, a)
    BY DEF TextBefore
<1>2. TextBefore(a, b) \/ a = b \/ TextBefore(b, a)
    BY DEF TextBefore
<1>3. TextBefore(a, b) /\ TextBefore(b, c) => TextBefore(a, c)
    BY DEF TextBefore
<1> QED
    BY <1>1, <1>2, <1>3

(* Every row has a time to be ordered by.                                  *)
LEMMA RecordTimeType ==
    ASSUME TypeOK, NEW k \in Keys, recs[k] # None
    PROVE  RecordTime(recs[k]) \in Int
<1>1. recs[k].source \in SourceTimes /\ recs[k].ingested \in Int
    BY BoundsAssumption DEF TypeOK, Row, Times
<1> QED
    BY <1>1, SourceAssumption DEF RecordTime

(* So is the order of the rows of a query, which the key completes         *)
(* (ORDER BY ... DESC, record_key DESC).                                   *)
LEMMA AheadTotal ==
    ASSUME TypeOK, NEW rows \in SUBSET Keys, \A k \in rows : recs[k] # None
    PROVE  /\ \A k \in rows : ~Ahead(k, k)
           /\ \A j, k \in rows : Ahead(j, k) \/ j = k \/ Ahead(k, j)
           /\ \A i, j, k \in rows : Ahead(i, j) /\ Ahead(j, k) => Ahead(i, k)
<1>1. \A k \in rows : RecordTime(recs[k]) \in Int /\ k \in Int
    BY RecordTimeType, KeysAssumption
<1>2. \A k \in rows : ~Ahead(k, k)
    BY <1>1, TextTotal DEF Ahead
<1>3. \A j, k \in rows : Ahead(j, k) \/ j = k \/ Ahead(k, j)
    BY <1>1, TextTotal DEF Ahead
<1>4. ASSUME NEW i \in rows, NEW j \in rows, NEW k \in rows, Ahead(i, j), Ahead(j, k)
      PROVE  Ahead(i, k)
    <2>1. /\ RecordTime(recs[i]) \in Int /\ RecordTime(recs[j]) \in Int
          /\ RecordTime(recs[k]) \in Int /\ i \in Int /\ j \in Int /\ k \in Int
        BY <1>1
    <2> QED
        BY <1>4, <2>1, TextTotal DEF Ahead
<1> QED
    BY <1>2, <1>3, <1>4

(* The numbers rise with the order of the query, no two rows share one,    *)
(* and each is below the number of keys.                                   *)
LEMMA Ranks ==
    ASSUME TypeOK, NEW rows \in SUBSET Keys, \A k \in rows : recs[k] # None
    PROVE  /\ \A k \in rows : Rank(rows, k) \in 0 .. Cardinality(Keys) - 1
           /\ \A j, k \in rows : Ahead(j, k) => Rank(rows, j) < Rank(rows, k)
           /\ \A j, k \in rows : Rank(rows, j) = Rank(rows, k) => j = k
<1> DEFINE Front(k) == {j \in rows : Ahead(j, k)}
<1>1. /\ \A k \in rows : ~Ahead(k, k)
      /\ \A j, k \in rows : Ahead(j, k) \/ j = k \/ Ahead(k, j)
      /\ \A i, j, k \in rows : Ahead(i, j) /\ Ahead(j, k) => Ahead(i, k)
    BY AheadTotal
<1>2. /\ IsFiniteSet(rows) /\ Cardinality(rows) \in Nat /\ Cardinality(Keys) \in Nat
      /\ Cardinality(rows) <= Cardinality(Keys)
    BY KeysAssumption, FS_Subset, FS_CardinalityType
<1>3. \A k \in rows : IsFiniteSet(Front(k)) /\ Cardinality(Front(k)) \in Nat
    <2> SUFFICES ASSUME NEW k \in rows
                 PROVE  IsFiniteSet(Front(k)) /\ Cardinality(Front(k)) \in Nat
        OBVIOUS
    <2>1. Front(k) \in SUBSET rows
        OBVIOUS
    <2> HIDE DEF Front
    <2> QED
        BY <1>2, <2>1, FS_Subset, FS_CardinalityType
<1>4. ASSUME NEW S, IsFiniteSet(S), NEW x \in S, NEW T \in SUBSET (S \ {x})
      PROVE  Cardinality(T) < Cardinality(S)
    <2>1. IsFiniteSet(S \ {x}) /\ Cardinality(S \ {x}) = Cardinality(S) - 1
        BY <1>4, FS_RemoveElement
    <2>2. IsFiniteSet(T) /\ Cardinality(T) <= Cardinality(S \ {x})
        BY <1>4, <2>1, FS_Subset
    <2>3. Cardinality(S) \in Nat /\ Cardinality(T) \in Nat
        BY <1>4, <2>2, FS_CardinalityType
    <2> QED
        BY <2>1, <2>2, <2>3
<1>5. \A k \in rows : Cardinality(Front(k)) < Cardinality(rows)
    <2> SUFFICES ASSUME NEW k \in rows PROVE Cardinality(Front(k)) < Cardinality(rows)
        OBVIOUS
    <2>1. Front(k) \in SUBSET (rows \ {k})
        BY <1>1
    <2> HIDE DEF Front
    <2> QED
        BY <1>2, <1>4, <2>1
<1>6. \A j, k \in rows : Ahead(j, k) => Cardinality(Front(j)) < Cardinality(Front(k))
    <2> SUFFICES ASSUME NEW j \in rows, NEW k \in rows, Ahead(j, k)
                 PROVE  Cardinality(Front(j)) < Cardinality(Front(k))
        OBVIOUS
    <2>1. j \in Front(k) /\ Front(j) \in SUBSET (Front(k) \ {j})
        BY <1>1
    <2> HIDE DEF Front
    <2> QED
        BY <1>3, <1>4, <2>1
<1>7. \A k \in rows : Rank(rows, k) = Cardinality(Front(k))
    BY DEF Rank
<1> HIDE DEF Front
<1>8. \A k \in rows : Rank(rows, k) \in 0 .. Cardinality(Keys) - 1
    BY <1>2, <1>3, <1>5, <1>7
<1>9. \A j, k \in rows : Ahead(j, k) => Rank(rows, j) < Rank(rows, k)
    BY <1>6, <1>7
<1>10. \A j, k \in rows : Rank(rows, j) = Rank(rows, k) => j = k
    BY <1>1, <1>3, <1>7, <1>9
<1> QED
    BY <1>8, <1>9, <1>10

(* Division cuts the numbers into intervals of the page size.              *)
LEMMA PageOf ==
    ASSUME NEW n \in Nat, NEW m \in Nat, n <= m, NEW d \in Nat \ {0}
    PROVE  /\ n \div d \in 0 .. m \div d
           /\ n \in (n \div d) * d .. (n \div d) * d + d - 1
OBVIOUS

(* The interval of a later page starts behind an earlier one.              *)
LEMMA PagesApart ==
    ASSUME NEW i \in Nat, NEW j \in Nat, i < j, NEW d \in Nat \ {0}
    PROVE  i * d + d - 1 < j * d
OBVIOUS

(* A page is no longer than the limit (LIMIT ?).                           *)
LEMMA PageSize ==
    ASSUME TypeOK, NEW rows \in SUBSET Keys, \A k \in rows : recs[k] # None,
           NEW low \in Nat, NEW page \in SUBSET rows,
           \A k \in page : Rank(rows, k) \in low .. low + Limit - 1
    PROVE  Cardinality(page) <= Limit
<1> DEFINE numbers == low .. low + Limit - 1
           number == [k \in page |-> Rank(rows, k)]
<1>1. number \in [page -> numbers]
    OBVIOUS
<1>2. \A j, k \in page : number[j] = number[k] => j = k
    BY Ranks
<1>3. number \in Injection(page, numbers)
    BY <1>1, <1>2 DEF Injection, IsInjective
<1>4. IsFiniteSet(numbers) /\ Cardinality(numbers) = Limit
    BY BoundsAssumption, FS_Interval
<1> HIDE DEF numbers, number
<1> QED
    BY <1>3, <1>4, FS_Injection

(* Every page of every query over every table: the pages are disjoint,     *)
(* complete, within the limit, and in order up to the second the textual   *)
(* comparison of times leaves open (queryRecords).                         *)
LEMMA TypedPagesAgree == TypeOK => PagesAgree
<1> SUFFICES ASSUME TypeOK PROVE PagesAgree
    OBVIOUS
<1> SUFFICES ASSUME NEW from \in SourceTimes, NEW to \in SourceTimes
    PROVE LET last == (Cardinality(Keys) - 1) \div Limit
              page == [i \in 0 .. last |-> queryRecords(from, to, Limit, i * Limit)]
          IN  /\ UNION {page[i] : i \in 0 .. last} = Matching(from, to)
              /\ \A i \in 0 .. last :
                  /\ Cardinality(page[i]) <= Limit
                  /\ \A j \in i + 1 .. last :
                      /\ page[i] \cap page[j] = {}
                      /\ \A k \in page[i], l \in page[j] :
                          RecordTime(recs[l]) < RecordTime(recs[k]) + 2
    BY DEF PagesAgree
<1> DEFINE last == (Cardinality(Keys) - 1) \div Limit
           rows == Matching(from, to)
           page == [i \in 0 .. last |-> queryRecords(from, to, Limit, i * Limit)]
<1>1. Limit \in Nat \ {0} /\ Cardinality(Keys) \in Nat
    BY BoundsAssumption, KeysAssumption, FS_CardinalityType
<1>2. rows \in SUBSET Keys /\ \A k \in rows : recs[k] # None
    BY DEF Matching
<1>3. /\ \A k \in rows : Rank(rows, k) \in 0 .. Cardinality(Keys) - 1
      /\ \A j, k \in rows : Ahead(j, k) => Rank(rows, j) < Rank(rows, k)
      /\ \A j, k \in rows : Rank(rows, j) = Rank(rows, k) => j = k
    <2> HIDE DEF rows
    <2> QED
        BY <1>2, Ranks
<1>4. \A i \in 0 .. last :
         page[i] = {k \in rows : Rank(rows, k) \in i * Limit .. i * Limit + Limit - 1}
    BY DEF queryRecords, Rank
<1>5. last \in Int
    BY <1>1
<1> HIDE DEF rows, page
<1>6. \A k \in rows : \E i \in 0 .. last : k \in page[i]
    <2> SUFFICES ASSUME NEW k \in rows PROVE \E i \in 0 .. last : k \in page[i]
        OBVIOUS
    <2> DEFINE n == Rank(rows, k)
    <2>1. n \in Nat /\ Cardinality(Keys) - 1 \in Nat /\ n <= Cardinality(Keys) - 1
        BY <1>1, <1>3
    <2> HIDE DEF n
    <2>2. /\ n \div Limit \in 0 .. last
          /\ n \in (n \div Limit) * Limit .. (n \div Limit) * Limit + Limit - 1
        BY <1>1, <2>1, PageOf
    <2>3. k \in page[n \div Limit]
        BY <1>4, <2>2 DEF n
    <2> QED
        BY <2>2, <2>3
<1> HIDE DEF last
<1>7. UNION {page[i] : i \in 0 .. last} = rows
    BY <1>4, <1>6
<1>8. ASSUME NEW i \in 0 .. last PROVE Cardinality(page[i]) <= Limit
    <2>1. i * Limit \in Nat
        BY <1>1, <1>5
    <2>2. page[i] \in SUBSET rows
        BY <1>4
    <2>3. \A k \in page[i] : Rank(rows, k) \in i * Limit .. i * Limit + Limit - 1
        BY <1>4
    <2> QED
        BY <1>2, <2>1, <2>2, <2>3, PageSize
<1>9. ASSUME NEW i \in 0 .. last, NEW j \in i + 1 .. last, NEW k \in page[i], NEW l \in page[j]
      PROVE  k # l /\ RecordTime(recs[l]) < RecordTime(recs[k]) + 2
    <2>1. i \in Nat /\ j \in Nat /\ i < j /\ j \in 0 .. last
        BY <1>5
    <2>2. /\ k \in rows /\ Rank(rows, k) \in i * Limit .. i * Limit + Limit - 1
          /\ l \in rows /\ Rank(rows, l) \in j * Limit .. j * Limit + Limit - 1
        BY <1>4, <2>1
    <2>3. Rank(rows, k) < Rank(rows, l)
        <3>1. i * Limit + Limit - 1 < j * Limit
            BY <1>1, <2>1, PagesApart
        <3>2. i * Limit \in Int /\ j * Limit \in Int /\ Limit \in Int
            BY <1>1, <2>1
        <3> QED
            BY <2>2, <3>1, <3>2
    <2>4. Rank(rows, k) \in Int /\ Rank(rows, l) \in Int
        BY <1>3, <2>2
    <2>5. k # l
        BY <2>3, <2>4
    <2>6. ~Ahead(l, k)
        BY <1>3, <2>2, <2>3, <2>4
    <2>7. Ahead(k, l)
        BY <1>2, <2>2, <2>5, <2>6, AheadTotal
    <2>8. RecordTime(recs[k]) \in Int /\ RecordTime(recs[l]) \in Int
        BY <1>2, <2>2, RecordTimeType
    <2>9. RecordTime(recs[l]) < RecordTime(recs[k]) + 2
        BY <2>7, <2>8, TextOrder DEF Ahead
    <2> QED
        BY <2>5, <2>9
<1>10. \A i \in 0 .. last : \A j \in i + 1 .. last :
          /\ page[i] \cap page[j] = {}
          /\ \A k \in page[i], l \in page[j] : RecordTime(recs[l]) < RecordTime(recs[k]) + 2
    BY <1>9
<1> QED
    BY <1>7, <1>8, <1>10 DEF last, rows, page

(* Reading a table page by page misses no record, repeats none and stays   *)
(* in order, for any table size, page size and filter, as long as nothing  *)
(* is written in between (queryRecords).                                   *)
THEOREM PagingSafety == Spec => []PagesAgree
BY TypeCorrect, TypedPagesAgree, PTL
=============================================================================
