--------------------------- MODULE WebSocketPush ----------------------------
(***************************************************************************)
(* One call of WebSocketClient::push_batch (client/websocket.rs) and the   *)
(* gateway it talks to: the checks before the connection, the connection,  *)
(* the batch, the frames that may come before the acknowledgement, the     *)
(* many shapes of an acknowledgement, and what the caller is told.         *)
(*                                                                         *)
(* The records of a batch are told apart only by their number.  A Result   *)
(* is a set: {v} for Ok(v) and {} for an error.                            *)
(***************************************************************************)
EXTENDS Integers

CONSTANTS
    BatchLengths,  \* numbers of records in a batch
    PayloadSizes,  \* lengths of the serialized batch
    Limits,        \* values of max_message_bytes
    WriteBuffers,  \* values of write_buffer_bytes
    FrameSizes,    \* lengths of what the gateway sends
    UsizeMax,      \* usize::MAX
    None           \* an absent field; also: no frame, or nothing decided

ASSUME SizesAssumption ==
    /\ UsizeMax \in Nat \ {0}
    /\ BatchLengths \cup PayloadSizes \cup Limits \cup WriteBuffers \subseteq 0 .. UsizeMax
    /\ FrameSizes \subseteq Nat
ASSUME NoneAssumption ==
    None \notin BOOLEAN \cup Nat \cup {"success", "failure", "odd"}

VARIABLES
    conf,    \* the client's settings and the batch of this call
    pc,
    buffer,  \* max_write_buffer_size of the connection
    inbox,   \* whether the batch has reached the gateway
    stored,  \* how many of its records the gateway has stored
    frame,   \* what the gateway has sent and the client has yet to read
    length,  \* how long the last frame was
    ack      \* what read_ack returned

vars == <<conf, pc, buffer, inbox, stored, frame, length, ack>>

-----------------------------------------------------------------------------
(* The words of status_is_success, trimmed and in any case.                *)
Words == {"success", "failure", "odd", None}

status_is_success(status) ==
    CASE status = "success" -> TRUE
      [] status = "failure" -> FALSE
      [] OTHER -> None

Verdicts == BOOLEAN \cup {None}
Or(a, b) == IF a # None THEN a ELSE b

(* Fault variant: the number of failed records is looked at, their ids are *)
(* not.                                                                    *)
AckIgnoringIds(e) ==
    IF ~(e.failed # None /\ e.failed > 0)
       /\ Or(e.accepted, Or(e.ok, Or(e.success, status_is_success(e.status)))) = TRUE
    THEN {[received |-> e.received]} ELSE {}

(* Fault variant: a verdict is read only from the first of the fields.     *)
AckFirstField(e) ==
    IF ~(e.failed # None /\ e.failed > 0) /\ e.failed_ids = 0 /\ e.accepted = TRUE
    THEN {[received |-> e.received]} ELSE {}

ack_from_envelope(e) ==
    IF ~(e.failed # None /\ e.failed > 0) /\ e.failed_ids = 0
       /\ Or(e.accepted, Or(e.ok, Or(e.success, status_is_success(e.status)))) = TRUE
    THEN {[received |-> e.received]} ELSE {}

(* A text or binary message: JSON of some kind, or nothing that decodes.   *)
(* A frame is its kind, for a message that of its JSON, with the value.    *)
parse_ack_payload(p) ==
    CASE p.kind = "bool" /\ p.value -> {[received |-> None]}
      [] p.kind = "string" /\ status_is_success(p.value) = TRUE -> {[received |-> None]}
      [] p.kind = "object" -> ack_from_envelope(p.value)
      [] OTHER -> {}

validate_ack_record_count(a, expected) == a.received # None => a.received = expected

(* Fault variant: the sum wraps around.                                    *)
ConfigWrapping(c) == {(c.write + (IF c.max = 0 THEN 1 ELSE c.max)) % (UsizeMax + 1)}

(* max_write_buffer_size.  The second maximum of the code never matters:   *)
(* the sum is larger than the write buffer already.                        *)
websocket_config(c) ==
    LET sum == c.write + (IF c.max = 0 THEN 1 ELSE c.max)
    IN  IF sum <= UsizeMax THEN {sum} ELSE {}

(* What tungstenite puts before a payload of so many bytes: two bytes, the *)
(* longer forms of the length, and the mask of a client.                   *)
header_len(size) ==
    CASE size < 126 -> 6
      [] size >= 126 /\ size < 65536 -> 8
      [] OTHER -> 14

(* A frame is refused unless the whole of it fits into the buffer.         *)
frame_len(size) == header_len(size) + size

-----------------------------------------------------------------------------
(* What a gateway that stored k of n records may answer.  The parts of an  *)
(* envelope do not contradict each other, and when something is missing,   *)
(* either the verdict is negative or one of the counts tells.              *)
Envelopes(n, k) ==
    {e \in [accepted : Verdicts, ok : Verdicts, success : Verdicts, status : Words,
            received : {None, k}, failed : {None, n - k}, failed_ids : {0, n - k}] :
        LET said == {e.accepted, e.ok, e.success, status_is_success(e.status)}
        IN  /\ ~({TRUE, FALSE} \subseteq said)
            /\ TRUE \in said /\ k # n
               => e.failed = n - k \/ e.failed_ids = n - k \/ e.received = k}

Answers(n, k) ==
    [kind : {"bool"}, value : {k = n}]
    \cup [kind : {"string"}, value : (IF k = n THEN {"success"} ELSE {"failure"}) \cup {"odd"}]
    \cup [kind : {"object"}, value : Envelopes(n, k)]
    \cup [kind : {"other"}, value : {None}]

Control == [kind : {"ping", "pong"}, value : {None}]
Closed == [kind |-> "close", value |-> None]

Ended == pc \in {"ok", "err"}

TypeOK ==
    /\ conf \in [len : BatchLengths, size : PayloadSizes, max : Limits,
                 write : WriteBuffers, request : BOOLEAN]
    /\ pc \in {"idle", "connect", "send", "read", "reply", "close", "ok", "err"}
    /\ buffer \in 0 .. UsizeMax
    /\ inbox \in BOOLEAN
    /\ stored \in 0 .. conf.len \cup {None}
    /\ \/ frame \in {None, Closed} \cup Control
       \/ stored # None /\ frame \in Answers(conf.len, stored)
    /\ length \in FrameSizes \cup {0}
    /\ ack \subseteq [received : 0 .. conf.len \cup {None}]

Init ==
    /\ conf \in [len : BatchLengths, size : PayloadSizes, max : Limits,
                 write : WriteBuffers, request : BOOLEAN]
    /\ pc = "idle"
    /\ buffer = 0
    /\ inbox = FALSE
    /\ stored = None
    /\ frame = None /\ length = 0
    /\ ack = {}

-----------------------------------------------------------------------------
(* The client.  Every wait has a timeout of its own, so each of these      *)
(* steps happens in bounded time.                                          *)

(* Serialization, the size check, build_request (an endpoint or a token    *)
(* may be malformed) and websocket_config, all before any connection.      *)
push_batch_with_ack ==
    /\ pc = "idle"
    /\ \/ /\ conf.size <= conf.max /\ conf.request
          /\ buffer' \in websocket_config(conf)
          /\ pc' = "connect"
       \/ /\ conf.size > conf.max \/ ~conf.request \/ websocket_config(conf) = {}
          /\ pc' = "err" /\ UNCHANGED buffer
    /\ UNCHANGED <<conf, inbox, stored, frame, length, ack>>

Connect ==
    /\ pc = "connect"
    /\ pc' \in {"send", "err"}
    /\ UNCHANGED <<conf, buffer, inbox, stored, frame, length, ack>>

(* The first frame of a connection must fit into the empty buffer, or it   *)
(* is refused on the spot (WriteBufferFull).  A send that fails or times   *)
(* out may still have reached the gateway, and one that succeeds may not.  *)
Send ==
    /\ pc = "send"
    /\ \/ frame_len(conf.size) <= buffer /\ inbox' \in BOOLEAN /\ pc' \in {"read", "err"}
       \/ frame_len(conf.size) > buffer /\ UNCHANGED inbox /\ pc' = "err"
    /\ UNCHANGED <<conf, buffer, stored, frame, length, ack>>

Read(result) == ack' = result /\ pc' = "close"

(* One turn of the loop of read_ack: a message is the acknowledgement, a   *)
(* ping is answered, a pong or a raw frame is skipped, a close frame ends  *)
(* it, as does the end of the stream or a broken one (also "close"), and   *)
(* any frame longer than max_message_size.  The next frame is waited for   *)
(* with a fresh timeout.                                                   *)
read_ack ==
    /\ pc = "read" /\ frame # None
    /\ \/ length > conf.max /\ Read({}) /\ UNCHANGED frame
       \/ /\ length <= conf.max
          /\ \/ frame.kind = "ping" /\ pc' = "reply" /\ frame' = None /\ UNCHANGED ack
             \/ frame.kind = "pong" /\ frame' = None /\ UNCHANGED <<pc, ack>>
             \/ frame.kind = "close" /\ Read({}) /\ UNCHANGED frame
             \/ /\ frame.kind \notin {"ping", "pong", "close"}
                /\ Read(parse_ack_payload(frame)) /\ UNCHANGED frame
    /\ UNCHANGED <<conf, buffer, inbox, stored, length>>

(* Fault variant: a timeout is taken for another frame to skip.            *)
AckTimeoutSkipped ==
    /\ pc = "read" /\ frame = None
    /\ pc' = "reply"
    /\ UNCHANGED <<conf, buffer, inbox, stored, frame, length, ack>>

AckTimeout ==
    /\ pc = "read" /\ frame = None
    /\ Read({})
    /\ UNCHANGED <<conf, buffer, inbox, stored, frame, length>>

(* If the pong fails or times out, frames not yet read are lost.           *)
SendPong ==
    /\ pc = "reply"
    /\ \/ pc' = "read" /\ UNCHANGED <<ack, frame>>
       \/ Read({}) /\ frame' = None
    /\ UNCHANGED <<conf, buffer, inbox, stored, length>>

(* Closing takes 250 ms at most and its outcome is ignored; only then is   *)
(* the acknowledgement looked at.                                          *)
Close ==
    /\ pc = "close"
    /\ pc' = IF \E a \in ack : validate_ack_record_count(a, conf.len) THEN "ok" ELSE "err"
    /\ UNCHANGED <<conf, buffer, inbox, stored, frame, length, ack>>

-----------------------------------------------------------------------------
(* The gateway, which may do nothing at all.  What it sends once the       *)
(* client has stopped reading is lost.  Control frames are short.          *)
GatewayStores ==
    /\ inbox /\ stored = None
    /\ stored' \in 0 .. conf.len
    /\ UNCHANGED <<conf, pc, buffer, inbox, frame, length, ack>>

GatewaySends ==
    /\ pc \in {"read", "reply"} /\ frame = None
    /\ length' \in FrameSizes
    /\ \/ frame' \in Control \cup {Closed} /\ length' < 126
       \/ stored # None /\ frame' \in Answers(conf.len, stored)
    /\ UNCHANGED <<conf, pc, buffer, inbox, stored, ack>>

ClientStep ==
    push_batch_with_ack \/ Connect \/ Send \/ read_ack \/ AckTimeout \/ SendPong \/ Close

Next == ClientStep \/ GatewayStores \/ GatewaySends \/ (Ended /\ UNCHANGED vars)

Spec == Init /\ [][Next]_vars

(* Timers fire, so the client's current wait ends; the gateway owes        *)
(* nothing.                                                                *)
FairSpec == Spec /\ WF_vars(ClientStep)

-----------------------------------------------------------------------------
(* push_batch returns Ok only for a batch the gateway has stored entirely, *)
(* whichever form of acknowledgement it uses and whichever of the verdict, *)
(* the counts and the ids tells of a missing record (parse_ack_payload,    *)
(* ack_from_envelope, validate_ack_record_count).                          *)
OkMeansStored == pc = "ok" => stored = conf.len

(* The forms of a positive acknowledgement the client supports.            *)
Affirms(p) ==
    \/ p.kind = "bool" /\ p.value
    \/ p.kind = "string" /\ p.value = "success"
    \/ p.kind = "object" /\ (TRUE \in {p.value.accepted, p.value.ok, p.value.success}
                              \/ p.value.status = "success")

(* An acknowledgement within max_message_bytes that affirms the batch in   *)
(* any of the forms the client supports, from a gateway that stored it     *)
(* all, is not turned into an error, which would have the batch sent again *)
(* (read_ack, ack_from_envelope).                                          *)
CompleteIsOk ==
    pc = "err" /\ stored = conf.len /\ frame # None /\ length <= conf.max => ~Affirms(frame)

(* The limit of the write buffer exceeds its threshold, as tungstenite     *)
(* demands, and a batch that passed the size check is not refused for want *)
(* of room, its frame header included, if the configured threshold is no   *)
(* smaller than that header, up to the largest usize (websocket_config).   *)
PayloadFits ==
    pc \in {"connect", "send"} =>
        /\ buffer > conf.write
        /\ conf.write >= header_len(conf.size) => frame_len(conf.size) <= buffer

(* The call returns, unless the gateway keeps sending control frames: each *)
(* of them starts the timeout anew (read_ack).                             *)
Returns == <>Ended \/ []<>(frame \in Control)
=============================================================================
