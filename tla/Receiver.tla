------------------------------ MODULE Receiver ------------------------------
(***************************************************************************)
(* Machine C on its own (cmd/receiver/main.go): concurrent HTTP handlers   *)
(* that authorize a request, remember its nonce in memory and then write,  *)
(* query or delete rows of wds_receive_records.                            *)
(*                                                                         *)
(* The clock counts half seconds.  Timestamps of requests, the signature   *)
(* window and the minimum age are whole seconds, the clock is not; times   *)
(* are stored and compared as RFC3339Nano text, which leaves out a zero    *)
(* fraction.  verifySignature reads the clock once for the window and      *)
(* nonceStore.Add once more, and deleteRecord reads it before its DELETE   *)
(* is executed, so each of these is a step of its own.                     *)
(*                                                                         *)
(* What a request asks for plays no part before it is authorized, and is   *)
(* chosen then.  An id in a DELETE stands for the key that has it.         *)
(***************************************************************************)
EXTENDS Integers, FiniteSets

CONSTANTS
    Keys,         \* record keys, in their order
    Nonces,
    Handlers,     \* requests C serves at once
    Skew,         \* SIGN_SKEW_SECONDS, in half seconds
    MinAge,       \* MIN_DELETE_AGE_HOURS, in half seconds
    Limit,        \* rows of one page of a query
    SourceTimes,  \* times the records carry, None for one without
    MaxTime,      \* bound: the last clock value
    MaxRestarts,  \* bound: restarts of C
    None          \* no row, no time

ASSUME KeysAssumption == Keys \subseteq Int /\ IsFiniteSet(Keys)
ASSUME BoundsAssumption ==
    /\ Skew \in Nat /\ MinAge \in Nat /\ Limit \in Nat \ {0}
    /\ MaxTime \in Nat /\ MaxRestarts \in Nat
ASSUME SourceAssumption == SourceTimes \subseteq Int \cup {None}
Times == 0 .. MaxTime
Row == [source : SourceTimes, ingested : Times]
Request == [nonce : Nonces, ts : Int]

ASSUME NoneAssumption == None \notin Int \cup Row \cup Request

VARIABLES
    clock,
    recs,      \* wds_receive_records
    nonces,    \* nonceStore.items: the expiry of each nonce, or None
    pc,        \* of each handler
    req,       \* nonce and timestamp of the request each handler serves
    cutoff,    \* deleteRecord: the time before which a record may be deleted
    admitted,  \* history: requests this process let in, until when valid
    restarts

handlerVars == <<pc, req, cutoff>>
vars == <<clock, recs, nonces, handlerVars, admitted, restarts>>

TypeOK ==
    /\ clock \in Times
    /\ recs \in [Keys -> Row \cup {None}]
    /\ nonces \in [Nonces -> Int \cup {None}]
    /\ pc \in [Handlers -> {"idle", "verified", "authorized", "deleting"}]
    /\ req \in [Handlers -> Request \cup {None}]
    /\ \A h \in Handlers : pc[h] = "verified" => req[h] # None
    /\ cutoff \in [Handlers -> Int]
    /\ admitted \subseteq [nonce : Nonces, until : Int]
    /\ restarts \in 0 .. MaxRestarts

Init ==
    /\ clock = 0
    /\ recs = [k \in Keys |-> None]
    /\ nonces = [n \in Nonces |-> None]
    /\ pc = [h \in Handlers |-> "idle"]
    /\ req = [h \in Handlers |-> None]
    /\ cutoff = [h \in Handlers |-> 0]
    /\ admitted = {}
    /\ restarts = 0

Tick ==
    /\ clock < MaxTime
    /\ clock' = clock + 1
    /\ UNCHANGED <<recs, nonces, handlerVars, admitted, restarts>>

-----------------------------------------------------------------------------
(* Times as text.                                                          *)

(* "...:01.5Z" < "...:01Z", since '.' comes before 'Z'.                    *)
TextBefore(a, b) == a \div 2 < b \div 2 \/ (a \div 2 = b \div 2 /\ a % 2 > b % 2)

(* COALESCE(source_time, ingested_at)                                      *)
RecordTime(row) == IF row.source = None THEN row.ingested ELSE row.source

-----------------------------------------------------------------------------
(* Authorization.                                                          *)

Goto(h, label) == pc' = [pc EXCEPT ![h] = label]

(* A handler has answered, with whatever status, and serves no request.    *)
Answer(h) ==
    /\ Goto(h, "idle")
    /\ req' = [req EXCEPT ![h] = None]
    /\ cutoff' = [cutoff EXCEPT ![h] = 0]

(* 413: readBody, before anything else of handlePost.                      *)
TooLarge(h) ==
    /\ pc[h] = "idle"
    /\ Answer(h)
    /\ UNCHANGED <<clock, recs, nonces, admitted, restarts>>

(* Timestamps come in whole seconds, ahead of C's clock or behind it.      *)
Timestamps == {t \in -Skew .. MaxTime + Skew : t % 2 = 0}

InWindow(ts) == clock - ts <= Skew /\ ts - clock <= Skew

(* Fault variant: the nonce is remembered before the signature is checked. *)
VerifyNotesFirst(h) ==
    /\ pc[h] = "idle"
    /\ \E n \in Nonces, ts \in Timestamps :
        \/ /\ InWindow(ts)
           /\ Goto(h, "verified")
           /\ req' = [req EXCEPT ![h] = [nonce |-> n, ts |-> ts]]
           /\ UNCHANGED <<cutoff, nonces>>
        \/ /\ InWindow(ts)
           /\ nonces' = [nonces EXCEPT ![n] = ts + Skew]
           /\ Answer(h)
    /\ UNCHANGED <<clock, recs, admitted, restarts>>

(* authorize and verifySignature, up to the nonce: the request is genuine  *)
(* and its timestamp lies in the window, or its token or signature is      *)
(* wrong or missing or its timestamp outside, and the answer is 401.       *)
Verify(h) ==
    /\ pc[h] = "idle"
    /\ \/ \E n \in Nonces, ts \in Timestamps :
            /\ InWindow(ts)
            /\ Goto(h, "verified")
            /\ req' = [req EXCEPT ![h] = [nonce |-> n, ts |-> ts]]
            /\ UNCHANGED cutoff
       \/ Answer(h)
    /\ UNCHANGED <<clock, recs, nonces, admitted, restarts>>

(* Fault variant: the nonce is dropped before the window closes.           *)
ExpiryAtTimestamp(ts) == ts

(* ts.Add(s.cfg.signSkew)                                                  *)
Expiry(ts) == ts + Skew

(* nonceStore.Add first drops what has expired.                            *)
Remembered(n) == nonces[n] # None /\ ~ clock > nonces[n]

(* nonceStore.Add, under its lock: a nonce already there means 401.        *)
Add(h) ==
    /\ pc[h] = "verified"
    /\ LET n == req[h].nonce
           until == Expiry(req[h].ts)
           kept == [m \in Nonces |-> IF Remembered(m) THEN nonces[m] ELSE None]
       IN  \/ /\ Remembered(n)
              /\ nonces' = kept
              /\ Answer(h)
              /\ UNCHANGED admitted
           \/ /\ ~Remembered(n)
              /\ nonces' = [kept EXCEPT ![n] = until]
              /\ Goto(h, "authorized")
              /\ admitted' = admitted \cup {[nonce |-> n, until |-> req[h].ts + Skew]}
              /\ req' = [req EXCEPT ![h] = None]
              /\ UNCHANGED cutoff
    /\ UNCHANGED <<clock, recs, restarts>>

-----------------------------------------------------------------------------
(* What an authorized request does.                                        *)

(* 400: no JSON, no records, an id that is not positive, or no key.   *)
BadRequest(h) ==
    /\ pc[h] = "authorized"
    /\ Answer(h)
    /\ UNCHANGED <<clock, recs, nonces, admitted, restarts>>

(* Fault variant: a new row takes ingested_at from its record.             *)
PostSourceTime(h) ==
    /\ pc[h] = "authorized"
    /\ \E k \in Keys, s \in SourceTimes :
        recs' = [recs EXCEPT ![k] =
            [source |-> s, ingested |-> IF @ = None THEN s ELSE @.ingested]]
    /\ Answer(h)
    /\ UNCHANGED <<clock, nonces, admitted, restarts>>

(* handlePost: the records of the payload that have a key are upserted in  *)
(* one transaction; a new row gets ingested_at, an old one keeps it.       *)
Post(h) ==
    /\ pc[h] = "authorized"
    /\ \E k \in Keys, s \in SourceTimes :
        recs' = [recs EXCEPT ![k] =
            [source |-> s, ingested |-> IF @ = None THEN clock ELSE @.ingested]]
    /\ Answer(h)
    /\ UNCHANGED <<clock, nonces, admitted, restarts>>

(* handleQuery reads one page and changes nothing.                         *)
Query(h) ==
    /\ pc[h] = "authorized"
    /\ Answer(h)
    /\ UNCHANGED <<clock, recs, nonces, admitted, restarts>>

(* deleteRecord computes its cutoff and waits for the database.            *)
Cutoff(h) ==
    /\ pc[h] = "authorized"
    /\ Goto(h, "deleting")
    /\ cutoff' = [cutoff EXCEPT ![h] = clock - MinAge]
    /\ UNCHANGED <<clock, recs, nonces, req, admitted, restarts>>

(* Fault variant: the age is that of the first upload.                     *)
DeletableIngested(k, c) == recs[k] # None /\ TextBefore(recs[k].ingested, c)

Deletable(k, c) == recs[k] # None /\ TextBefore(RecordTime(recs[k]), c)

(* DELETE ... WHERE id = ? (or record_key = ?) AND ... < cutoff; the       *)
(* answer is 200 whether or not a row was deleted.                         *)
Delete(h) ==
    /\ pc[h] = "deleting"
    /\ \E k \in Keys :
        recs' = [recs EXCEPT ![k] = IF Deletable(k, cutoff[h]) THEN None ELSE @]
    /\ Answer(h)
    /\ UNCHANGED <<clock, nonces, admitted, restarts>>

(* 500: the database fails, or the context ends; nothing has changed.      *)
DatabaseFails(h) ==
    /\ pc[h] \in {"authorized", "deleting"}
    /\ Answer(h)
    /\ UNCHANGED <<clock, recs, nonces, admitted, restarts>>

(* C stops and starts again: handlers and nonces are gone, rows are not.   *)
Restart ==
    /\ restarts < MaxRestarts
    /\ restarts' = restarts + 1
    /\ nonces' = [n \in Nonces |-> None]
    /\ admitted' = {}
    /\ pc' = [h \in Handlers |-> "idle"]
    /\ req' = [h \in Handlers |-> None]
    /\ cutoff' = [h \in Handlers |-> 0]
    /\ UNCHANGED <<clock, recs>>

-----------------------------------------------------------------------------
Step(h) ==
    \/ TooLarge(h) \/ Verify(h) \/ Add(h)
    \/ BadRequest(h) \/ Post(h) \/ Query(h) \/ Cutoff(h) \/ Delete(h) \/ DatabaseFails(h)

Next == Tick \/ Restart \/ \E h \in Handlers : Step(h)

Spec == Init /\ [][Next]_vars

-----------------------------------------------------------------------------
(* queryRecords: the rows that match, a page of them.                      *)

(* source_time >= from and source_time <= to; a row without one does not   *)
(* match such a filter.                                                    *)
Matching(from, to) ==
    {k \in Keys :
        /\ recs[k] # None
        /\ from # None => recs[k].source # None /\ ~TextBefore(recs[k].source, from)
        /\ to # None => recs[k].source # None /\ ~TextBefore(to, recs[k].source)}

(* Fault variant: ORDER BY the time alone, and rows of one time tie.       *)
AheadByTime(j, k) == TextBefore(RecordTime(recs[k]), RecordTime(recs[j]))

(* ORDER BY COALESCE(source_time, ingested_at) DESC, record_key DESC       *)
Ahead(j, k) ==
    \/ TextBefore(RecordTime(recs[k]), RecordTime(recs[j]))
    \/ RecordTime(recs[k]) = RecordTime(recs[j]) /\ j > k

(* LIMIT ? OFFSET ?                                                        *)
queryRecords(from, to, limit, offset) ==
    LET rows == Matching(from, to)
    IN  {k \in rows : Cardinality({j \in rows : Ahead(j, k)}) \in offset .. offset + limit - 1}

-----------------------------------------------------------------------------
(* A nonce is let in a second time only after the first use has expired:   *)
(* the README's "not twice within one process and the validity period",    *)
(* also for handlers that pass the window check together, and for a        *)
(* handler that passes it just before the end and reaches Add after it     *)
(* (verifySignature, nonceStore.Add).                                      *)
NonceOnce ==
    [][\A h \in Handlers :
         pc[h] = "verified" /\ pc'[h] = "authorized" =>
           \A a \in admitted : a.nonce = req[h].nonce => a.until < clock]_vars

(* A genuine request is refused for its nonce only if a genuine one with   *)
(* that nonce was let in before: requests that fail the token or signature *)
(* check use up no nonce (verifySignature).                                *)
RefusedOnlyIfUsed ==
    [][\A h \in Handlers :
         pc[h] = "verified" /\ pc'[h] = "idle" /\ restarts' = restarts =>
           \E a \in admitted : a.nonce = req[h].nonce]_vars

(* No row is deleted a second or more before it has reached the minimum    *)
(* age, although times are compared as text and the cutoff is computed     *)
(* before the row may be written again (deleteRecord).                     *)
DeletedOldEnough ==
    [][\A k \in Keys : recs[k] # None /\ recs'[k] = None =>
         RecordTime(recs[k]) < clock - MinAge + 2]_vars

(* Pages of one query do not overlap, leave nothing out and are no longer  *)
(* than asked for, and nothing on an earlier page is a second older than   *)
(* something on a later one (queryRecords).                                *)
PagesAgree ==
    \A from, to \in SourceTimes :
        LET last == (Cardinality(Keys) - 1) \div Limit
            page == [i \in 0 .. last |-> queryRecords(from, to, Limit, i * Limit)]
        IN  /\ UNION {page[i] : i \in 0 .. last} = Matching(from, to)
            /\ \A i \in 0 .. last :
                /\ Cardinality(page[i]) <= Limit
                /\ \A j \in i + 1 .. last :
                    /\ page[i] \cap page[j] = {}
                    /\ \A k \in page[i], l \in page[j] :
                        RecordTime(recs[l]) < RecordTime(recs[k]) + 2
=============================================================================
