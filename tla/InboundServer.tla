--------------------------- MODULE InboundServer ----------------------------
(***************************************************************************)
(* The receive server of the Rust program: put_weighing_data (server.rs)   *)
(* with insert_inbound_payload (db/mod.rs), and the sync engines of other  *)
(* machines that upload to it and mark what it acknowledges.               *)
(*                                                                         *)
(* A request is read from its connection, which nothing hurries, before it *)
(* is handled; the handler then keeps it over two awaits, the INSERT and   *)
(* the answer.  The payload is always logged; storing it as well is        *)
(* best-effort.                                                            *)
(***************************************************************************)
EXTENDS Integers, FiniteSets, CloudAck

CONSTANTS
    Handlers,     \* requests that may be under way at once
    Batches,      \* the batches the engines send
    Serials,      \* records with a serialNo, as the SQL Server engine sends them
    MaxRequests,  \* bound: requests in one behaviour
    MaxFaults     \* bound: faults in one behaviour

(* An engine sends records of its own kind only, and no empty batch.       *)
ASSUME BatchesAssumption ==
    \A b \in Batches : b # {} /\ (b \subseteq Serials \/ b \cap Serials = {})
ASSUME ServerBoundsAssumption == MaxRequests \in Nat /\ MaxFaults \in Nat

VARIABLES
    server,     \* the task of run_http_server
    pool,       \* whether AppState.db is Some
    handler,    \* where each request is
    held,       \* its batch
    persisted,  \* records in inbound_payloads
    lost,       \* records whose INSERT failed, or was cut off: in the log only
    answered,   \* history: records of requests that were answered with 200
    marked,     \* records the engines have marked as uploaded
    requests,
    faults

handlerVars == <<handler, held>>
storeVars == <<persisted, lost>>
senderVars == <<answered, marked>>
inboundVars == <<server, pool, handlerVars, storeVars, senderVars, requests, faults>>

Records == UNION Batches

InboundTypeOK ==
    /\ server \in {"off", "starting", "up", "draining", "down"}
    /\ pool \in BOOLEAN
    /\ handler \in [Handlers -> {"idle", "reading", "insert", "answer"}]
    /\ held \in [Handlers -> Batches \cup {{}}]
    /\ \A h \in Handlers : handler[h] = "idle" <=> held[h] = {}
    /\ persisted \subseteq Records /\ lost \subseteq Records
    /\ answered \subseteq Records /\ marked \subseteq Records
    /\ requests \in 0 .. MaxRequests /\ faults \in 0 .. MaxFaults

InboundInit ==
    /\ server = "off" /\ pool = FALSE
    /\ handler = [h \in Handlers |-> "idle"] /\ held = [h \in Handlers |-> {}]
    /\ persisted = {} /\ lost = {} /\ answered = {} /\ marked = {}
    /\ requests = 0 /\ faults = 0

Fault == faults < MaxFaults /\ faults' = faults + 1
Busy == {h \in Handlers : handler[h] # "idle"}

Finish(hs) ==
    /\ handler' = [h \in Handlers |-> IF h \in hs THEN "idle" ELSE handler[h]]
    /\ held' = [h \in Handlers |-> IF h \in hs THEN {} ELSE held[h]]

-----------------------------------------------------------------------------
(* The first bytes of a request arrive; its headers and its body follow as *)
(* its sender pleases.                                                     *)
RequestBegins(h) ==
    /\ server = "up" /\ requests < MaxRequests /\ handler[h] = "idle"
    /\ \E b \in Batches : held' = [held EXCEPT ![h] = b]
    /\ handler' = [handler EXCEPT ![h] = "reading"]
    /\ requests' = requests + 1
    /\ UNCHANGED <<server, pool, storeVars, senderVars, faults>>

(* A request that is too large, no JSON, without a valid token where one   *)
(* is required, or without records: 413, 4xx, 401 or 400, and no effect.   *)
Refuse(h) ==
    /\ handler[h] = "reading"
    /\ Finish({h})
    /\ UNCHANGED <<server, pool, storeVars, senderVars, requests, faults>>

(* Fault variant: the payload is stored by a task of its own, without      *)
(* waiting for it.                                                         *)
PutDetached(h) ==
    /\ handler[h] = "reading"
    /\ handler' = [handler EXCEPT ![h] = "answer"]
    /\ UNCHANGED <<server, pool, held, storeVars, senderVars, requests, faults>>

(* put_weighing_data, called with the whole body, up to its first await:   *)
(* the payload is in the log.                                              *)
put_weighing_data(h) ==
    /\ handler[h] = "reading"
    /\ handler' = [handler EXCEPT ![h] = IF pool THEN "insert" ELSE "answer"]
    /\ UNCHANGED <<server, pool, held, storeVars, senderVars, requests, faults>>

(* A failing INSERT is logged and does not change the answer.              *)
insert_inbound_payload(h) ==
    /\ handler[h] = "insert"
    /\ \/ persisted' = persisted \cup held[h] /\ UNCHANGED <<lost, faults>>
       \/ lost' = lost \cup held[h] /\ Fault /\ UNCHANGED persisted
    /\ handler' = [handler EXCEPT ![h] = "answer"]
    /\ UNCHANGED <<server, pool, held, senderVars, requests>>

(* Fault variant: serial numbers that were stored before are not listed.   *)
ListedNew(b) == (b \cap Serials) \ persisted

(* accepted_serial_nos; failed_serial_nos is always empty.                 *)
accepted_serial_nos(b) == b \cap Serials

(* What the sending engine marks.  The local engine looks for accepted_ids *)
(* and failed_ids, which this answer does not have.                        *)
Marks(b) ==
    IF b \subseteq Serials THEN Accepted(b, [acc |-> accepted_serial_nos(b), fail |-> {}])
                           ELSE Accepted(b, [acc |-> {}, fail |-> {}])

PutResponse(h) ==
    /\ handler[h] = "answer"
    /\ answered' = answered \cup held[h]
    /\ marked' = marked \cup Marks(held[h])
    /\ Finish({h})
    /\ UNCHANGED <<server, pool, storeVars, requests, faults>>

(* Whatever an INSERT that is under way when its handler goes away does.   *)
CutOff(hs) ==
    \E kept \in SUBSET {h \in hs : handler[h] = "insert"} :
        persisted' = persisted \cup UNION {held[h] : h \in kept}

(* The sender closes the connection, on its timeout or because it is gone, *)
(* and the request is dropped wherever it is.                              *)
SenderGivesUp(h) ==
    /\ handler[h] # "idle"
    /\ Fault
    /\ CutOff({h})
    /\ Finish({h})
    /\ UNCHANGED <<server, pool, lost, senderVars, requests>>

HandlerStep(h) == insert_inbound_payload(h) \/ PutResponse(h)

InboundNext ==
    \E h \in Handlers :
        \/ RequestBegins(h) \/ Refuse(h) \/ put_weighing_data(h)
        \/ HandlerStep(h) \/ SenderGivesUp(h)

-----------------------------------------------------------------------------
(* What a sender has marked as uploaded is in inbound_payloads when there  *)
(* is a database, unless the very INSERT failed: the answer never runs     *)
(* ahead of the INSERT, whatever ends the process or the connection        *)
(* (put_weighing_data).                                                    *)
MarkedKept == pool => marked \subseteq persisted \cup lost

(* A request answered with 200 lets its sender mark every record of it,    *)
(* also when it repeats or overlaps an earlier one: neither engine is left *)
(* with records that are neither accepted nor failed (put_weighing_data,   *)
(* sync_once of both engines).                                             *)
AnsweredMarked == answered \subseteq marked
=============================================================================
