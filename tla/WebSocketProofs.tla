-------------------------- MODULE WebSocketProofs ---------------------------
(***************************************************************************)
(* Proofs about WebSocketPush, for any batch, payload, limits, and any     *)
(* gateway that does not contradict itself.                                *)
(***************************************************************************)
EXTENDS WebSocketPush, TLAPS

(* What read_ack makes of an answer: nothing if it is too long.            *)
Understood(p, len) == IF len > conf.max THEN {} ELSE parse_ack_payload(p)

(* Where an acknowledgement comes from: the frame read last.               *)
AckInv ==
    /\ pc \in {"idle", "connect", "send"} => frame = None
    /\ pc \in {"idle", "connect", "send", "read", "reply"} => ack = {}
    /\ pc \in {"close", "ok", "err"} =>
        \/ frame \in {None, Closed} \cup Control /\ ack = {}
        \/ /\ stored # None /\ frame \in Answers(conf.len, stored)
           /\ ack = Understood(frame, length)

(* The buffer of a connection has room for the batch, without its header,  *)
(* on top of the threshold.                                                *)
RoomInv ==
    pc \in {"connect", "send"} => buffer > conf.write /\ buffer - conf.write >= conf.size

IInv == TypeOK /\ AckInv /\ RoomInv /\ OkMeansStored /\ CompleteIsOk

-----------------------------------------------------------------------------
(* Verdicts are read in a fixed order; one of them is the first that is    *)
(* there.                                                                  *)
LEMMA OrTrue ==
    ASSUME NEW a, NEW b, Or(a, b) = TRUE
    PROVE  a = TRUE \/ b = TRUE
BY Zenon DEF Or

(* If none of the verdicts is negative, one that is positive is found.     *)
LEMMA OrFinds ==
    ASSUME NEW a \in {TRUE, None}, NEW b \in {TRUE, None}
    PROVE  /\ Or(a, b) \in {TRUE, None}
           /\ a = TRUE \/ b = TRUE => Or(a, b) = TRUE
<1>1. None # TRUE
  BY NoneAssumption, Zenon
<1>2. CASE a = TRUE
  BY <1>1, <1>2, Zenon DEF Or
<1>3. CASE a = None
  BY <1>1, <1>3, Zenon DEF Or
<1> QED
  BY <1>2, <1>3, Zenon

(* An envelope that is taken for an acknowledgement and passes the check   *)
(* of its count tells of a batch stored entirely (ack_from_envelope).      *)
LEMMA EnvelopeSound ==
    ASSUME NEW n \in Nat, NEW k \in 0 .. n, NEW e \in Envelopes(n, k),
           NEW a \in ack_from_envelope(e), validate_ack_record_count(a, n)
    PROVE  k = n
<1> DEFINE said == {e.accepted, e.ok, e.success, status_is_success(e.status)}
           verdict == Or(e.accepted, Or(e.ok, Or(e.success, status_is_success(e.status))))
<1>0. None \notin Nat
  BY NoneAssumption
<1>1. /\ ~(e.failed # None /\ e.failed > 0) /\ e.failed_ids = 0 /\ verdict = TRUE
      /\ a = [received |-> e.received]
  BY DEF ack_from_envelope
<1>2. TRUE \in said
  BY <1>1, OrTrue
<1>3. TRUE \in said /\ k # n => e.failed = n - k \/ e.failed_ids = n - k \/ e.received = k
  BY DEF Envelopes
<1>4. e.received # None => e.received = n
  BY <1>1 DEF validate_ack_record_count
<1> HIDE DEF said, verdict
<1>5. SUFFICES ASSUME k # n PROVE FALSE
  OBVIOUS
<1>6. n - k \in Nat /\ n - k > 0 /\ k \in Nat
  BY <1>5
<1> QED
  BY <1>0, <1>1, <1>2, <1>3, <1>4, <1>5, <1>6

(* An envelope with a positive verdict about a complete batch is taken for *)
(* an acknowledgement (ack_from_envelope).                                 *)
LEMMA EnvelopeComplete ==
    ASSUME NEW n \in Nat, NEW e \in Envelopes(n, n),
           \/ TRUE \in {e.accepted, e.ok, e.success}
           \/ e.status = "success"
    PROVE  \E a \in ack_from_envelope(e) : validate_ack_record_count(a, n)
<1> DEFINE s == status_is_success(e.status)
           said == {e.accepted, e.ok, e.success, s}
           verdict == Or(e.accepted, Or(e.ok, Or(e.success, s)))
<1>1. /\ e.accepted \in Verdicts /\ e.ok \in Verdicts /\ e.success \in Verdicts
      /\ e.status \in Words /\ e.received \in {None, n}
      /\ e.failed \in {None, n - n} /\ e.failed_ids \in {0, n - n}
      /\ ~({TRUE, FALSE} \subseteq said)
  BY DEF Envelopes
<1>2. s \in Verdicts /\ (e.status = "success" => s = TRUE)
  BY <1>1 DEF status_is_success, Words, Verdicts
<1>3. TRUE \in said
  BY <1>2
<1>4. said \subseteq {TRUE, None}
  BY <1>1, <1>2, <1>3, Zenon DEF Verdicts
<1>5. verdict = TRUE
  <2> HIDE DEF s
  <2>1. /\ e.accepted \in {TRUE, None} /\ e.ok \in {TRUE, None} /\ e.success \in {TRUE, None}
        /\ s \in {TRUE, None}
        /\ e.accepted = TRUE \/ e.ok = TRUE \/ e.success = TRUE \/ s = TRUE
    BY <1>3, <1>4
  <2> QED
    BY <2>1, OrFinds
<1>6. n - n = 0
  OBVIOUS
<1>7. ~(e.failed # None /\ e.failed > 0) /\ e.failed_ids = 0
  BY <1>1, <1>6
<1>8. ack_from_envelope(e) = {[received |-> e.received]}
  BY <1>5, <1>7 DEF ack_from_envelope
<1> QED
  BY <1>1, <1>8 DEF validate_ack_record_count

(* The same for every form of acknowledgement (parse_ack_payload).         *)
LEMMA AnswerSound ==
    ASSUME NEW n \in Nat, NEW k \in 0 .. n, NEW p \in Answers(n, k),
           NEW a \in parse_ack_payload(p), validate_ack_record_count(a, n)
    PROVE  k = n
<1>1. CASE p \in [kind : {"bool"}, value : {k = n}]
  <2>1. p.kind = "bool" /\ p.value = (k = n)
    BY <1>1
  <2>2. p.value
    BY <2>1 DEF parse_ack_payload
  <2> QED
    BY <2>1, <2>2, Zenon
<1>2. CASE p \in [kind : {"string"},
                  value : (IF k = n THEN {"success"} ELSE {"failure"}) \cup {"odd"}]
  <2>1. p.kind = "string" /\ (k # n => p.value \in {"failure", "odd"})
    BY <1>2
  <2>2. status_is_success(p.value) = TRUE
    BY <2>1 DEF parse_ack_payload
  <2>3. None # TRUE
    BY NoneAssumption, Zenon
  <2> QED
    BY <2>1, <2>2, <2>3 DEF status_is_success
<1>3. CASE p \in [kind : {"object"}, value : Envelopes(n, k)]
  <2>1. p.kind = "object" /\ p.value \in Envelopes(n, k)
    BY <1>3
  <2>2. parse_ack_payload(p) = ack_from_envelope(p.value)
    BY <2>1 DEF parse_ack_payload
  <2> QED
    BY <2>1, <2>2, EnvelopeSound
<1>4. CASE p \in [kind : {"other"}, value : {None}]
  BY <1>4 DEF parse_ack_payload
<1> QED
  BY <1>1, <1>2, <1>3, <1>4 DEF Answers

(* And every form affirms a complete batch (parse_ack_payload).            *)
LEMMA AnswerComplete ==
    ASSUME NEW n \in Nat, NEW p \in Answers(n, n), Affirms(p)
    PROVE  \E a \in parse_ack_payload(p) : validate_ack_record_count(a, n)
<1>1. CASE p \in [kind : {"bool"}, value : {n = n}]
  <2>1. p.kind = "bool" /\ p.value
    BY <1>1 DEF Affirms
  <2>2. parse_ack_payload(p) = {[received |-> None]}
    BY <2>1 DEF parse_ack_payload
  <2> QED
    BY <2>2 DEF validate_ack_record_count
<1>2. CASE p.kind = "string"
  <2>1. p.value = "success"
    BY <1>2 DEF Affirms
  <2>2. status_is_success(p.value) = TRUE
    BY <2>1 DEF status_is_success
  <2>3. parse_ack_payload(p) = {[received |-> None]}
    BY <1>2, <2>2 DEF parse_ack_payload
  <2> QED
    BY <2>3 DEF validate_ack_record_count
<1>3. CASE p \in [kind : {"object"}, value : Envelopes(n, n)]
  <2>1. p.kind = "object" /\ p.value \in Envelopes(n, n)
    BY <1>3
  <2>2. parse_ack_payload(p) = ack_from_envelope(p.value)
    BY <2>1 DEF parse_ack_payload
  <2>3. TRUE \in {p.value.accepted, p.value.ok, p.value.success} \/ p.value.status = "success"
    BY <2>1 DEF Affirms
  <2> QED
    BY <2>1, <2>2, <2>3, EnvelopeComplete
<1>4. CASE p.kind = "other"
  BY <1>4 DEF Affirms
<1> QED
  BY <1>1, <1>2, <1>3, <1>4 DEF Answers

(* What is read from an answer is a count of the batch, or nothing.        *)
LEMMA ParseType ==
    ASSUME NEW n \in Nat, NEW k \in 0 .. n, NEW p \in Answers(n, k)
    PROVE  parse_ack_payload(p) \subseteq [received : 0 .. n \cup {None}]
<1>1. CASE p \in [kind : {"object"}, value : Envelopes(n, k)]
  <2>1. p.kind = "object" /\ p.value \in Envelopes(n, k)
    BY <1>1
  <2>2. p.value.received \in {None, k}
    BY <2>1 DEF Envelopes
  <2>3. parse_ack_payload(p) = ack_from_envelope(p.value)
    BY <2>1 DEF parse_ack_payload
  <2> QED
    BY <2>2, <2>3 DEF ack_from_envelope
<1>2. CASE p.kind # "object"
  BY <1>2 DEF parse_ack_payload
<1> QED
  BY <1>1, <1>2 DEF Answers

(* The kinds of an answer, and no answer among the other frames.           *)
LEMMA AnswerKinds ==
    ASSUME NEW n, NEW k, NEW p \in Answers(n, k)
    PROVE  p.kind \in {"bool", "string", "object", "other"}
BY DEF Answers

(* Control and close frames affirm nothing.                                *)
LEMMA OnlyAnswersAffirm ==
    ASSUME NEW p, p.kind \in {"ping", "pong", "close"}
    PROVE  ~Affirms(p)
<1>1. p.kind # "bool" /\ p.kind # "string" /\ p.kind # "object"
  OBVIOUS
<1> QED
  BY <1>1, Zenon DEF Affirms

-----------------------------------------------------------------------------
(* The initial state satisfies the invariant.                              *)
LEMMA InitIInv == Init => IInv
<1> SUFFICES ASSUME Init PROVE IInv
  OBVIOUS
<1>1. inbox \in BOOLEAN
  BY Zenon DEF Init
<1>2. TypeOK
  BY <1>1, SizesAssumption DEF Init, TypeOK
<1> QED
  BY <1>2 DEF Init, IInv, AckInv, RoomInv, OkMeansStored, CompleteIsOk

(* Every step of the client or the gateway keeps the invariant.            *)
LEMMA StepIInv == IInv /\ [Next]_vars => IInv'
<1> SUFFICES ASSUME IInv, [Next]_vars PROVE IInv'
  OBVIOUS
<1>t. TypeOK /\ AckInv /\ RoomInv /\ OkMeansStored /\ CompleteIsOk
  BY DEF IInv
<1>n. /\ conf.len \in Nat /\ conf.size \in 0 .. UsizeMax /\ conf.max \in 0 .. UsizeMax
      /\ conf.write \in 0 .. UsizeMax /\ UsizeMax \in Nat
      /\ None \notin Nat /\ length \in Nat
  BY <1>t, SizesAssumption, NoneAssumption DEF TypeOK
<1>f. frame # None => \/ frame \in {Closed} \cup Control
                      \/ stored # None /\ frame \in Answers(conf.len, stored)
  BY <1>t DEF TypeOK
<1>1. CASE push_batch_with_ack
  <2>1. pc = "idle" /\ frame = None /\ UNCHANGED <<conf, inbox, stored, frame, length, ack>>
    BY <1>1, <1>t DEF push_batch_with_ack, AckInv
  <2>2. CASE pc' = "err" /\ UNCHANGED buffer
    BY <1>1, <1>t, <2>1, <2>2 DEF IInv, TypeOK, AckInv, RoomInv, OkMeansStored, CompleteIsOk
  <2>3. CASE /\ conf.size <= conf.max /\ buffer' \in websocket_config(conf)
             /\ pc' = "connect"
    <3> DEFINE sum == conf.write + (IF conf.max = 0 THEN 1 ELSE conf.max)
    <3>1. sum <= UsizeMax /\ buffer' = sum
      BY <2>3 DEF websocket_config
    <3>2. buffer' \in 0 .. UsizeMax /\ RoomInv'
      BY <1>n, <2>1, <2>3, <3>1 DEF RoomInv
    <3> QED
      BY <1>t, <2>1, <2>3, <3>2 DEF IInv, TypeOK, AckInv, OkMeansStored, CompleteIsOk
  <2> QED
    BY <1>1, <2>2, <2>3 DEF push_batch_with_ack
<1>2. CASE Connect \/ Send
  <2>1. /\ pc \in {"connect", "send"} /\ pc' \in {"send", "read", "err"}
        /\ UNCHANGED <<conf, buffer, stored, frame, length, ack>> /\ frame = None /\ ack = {}
    BY <1>2, <1>t DEF Connect, Send, AckInv
  <2>2. inbox' \in BOOLEAN
    BY <1>2, <1>t DEF Connect, Send, TypeOK
  <2>3. TypeOK'
    BY <1>t, <2>1, <2>2 DEF TypeOK
  <2> QED
    BY <1>t, <2>1, <2>3 DEF IInv, AckInv, RoomInv, OkMeansStored, CompleteIsOk
<1>3. ASSUME pc \in {"read", "reply"}, UNCHANGED <<conf, buffer, inbox, stored, length>>,
             pc' = "close",
             \/ frame' \in {None, Closed} \cup Control /\ ack' = {}
             \/ /\ stored # None /\ frame' \in Answers(conf.len, stored)
                /\ ack' = Understood(frame', length)
      PROVE  IInv'
  <2>1. ack' \subseteq [received : 0 .. conf.len \cup {None}]
    <3>1. CASE ack' = {}
      BY <3>1
    <3>2. CASE /\ stored # None /\ frame' \in Answers(conf.len, stored)
               /\ ack' = Understood(frame', length)
      <4>1. stored \in 0 .. conf.len
        BY <1>t, <3>2 DEF TypeOK
      <4> QED
        BY <1>n, <3>2, <4>1, ParseType DEF Understood
    <3> QED
      BY <1>3, <3>1, <3>2
  <2>2. TypeOK'
    BY <1>3, <1>t, <2>1 DEF TypeOK
  <2>3. AckInv'
    BY <1>3 DEF AckInv, Understood
  <2> QED
    BY <1>3, <2>2, <2>3 DEF IInv, RoomInv, OkMeansStored, CompleteIsOk
<1>4. ASSUME pc \in {"read", "reply"}, pc' \in {"read", "reply"},
             UNCHANGED <<conf, buffer, inbox, stored, ack>>,
             length' \in {length} \cup FrameSizes,
             \/ frame' \in {None, Closed, frame} \cup Control
             \/ stored # None /\ frame' \in Answers(conf.len, stored)
      PROVE  IInv'
  <2>1. TypeOK'
    BY <1>4, <1>t, <1>f DEF TypeOK
  <2> QED
    BY <1>4, <1>t, <2>1 DEF IInv, AckInv, RoomInv, OkMeansStored, CompleteIsOk
<1>5. CASE read_ack
  <2>1. pc = "read" /\ frame # None /\ UNCHANGED <<conf, buffer, inbox, stored, length>>
    BY <1>5 DEF read_ack
  <2>5. CASE length > conf.max /\ Read({}) /\ UNCHANGED frame
    BY <1>3, <1>f, <2>1, <2>5 DEF Read, Understood
  <2>2. CASE \/ frame.kind = "ping" /\ pc' = "reply" /\ frame' = None /\ UNCHANGED ack
             \/ frame.kind = "pong" /\ frame' = None /\ UNCHANGED <<pc, ack>>
    BY <1>4, <2>1, <2>2
  <2>3. CASE frame.kind = "close" /\ Read({}) /\ UNCHANGED frame
    <3>1. frame = Closed
      BY <1>f, <2>1, <2>3, AnswerKinds DEF Control
    <3> QED
      BY <1>3, <2>1, <2>3, <3>1 DEF Read
  <2>4. CASE /\ length <= conf.max /\ frame.kind \notin {"ping", "pong", "close"}
             /\ Read(parse_ack_payload(frame)) /\ UNCHANGED frame
    <3>1. stored # None /\ frame \in Answers(conf.len, stored)
      BY <1>f, <2>1, <2>4 DEF Control, Closed
    <3>2. ~(length > conf.max)
      BY <1>n, <2>4
    <3>3. parse_ack_payload(frame) = Understood(frame, length)
      BY <3>2 DEF Understood
    <3> QED
      BY <1>3, <2>1, <2>4, <3>1, <3>3 DEF Read
  <2> QED
    BY <1>5, <2>2, <2>3, <2>4, <2>5 DEF read_ack
<1>6. CASE AckTimeout
  BY <1>3, <1>6 DEF AckTimeout, Read
<1>7. CASE SendPong
  <2>1. pc = "reply" /\ UNCHANGED <<conf, buffer, inbox, stored, length>>
    BY <1>7 DEF SendPong
  <2>2. CASE pc' = "read" /\ UNCHANGED <<ack, frame>>
    BY <1>4, <2>1, <2>2
  <2>3. CASE Read({}) /\ frame' = None
    BY <1>3, <2>1, <2>3 DEF Read
  <2> QED
    BY <1>7, <2>2, <2>3 DEF SendPong
<1>8. CASE Close
  <2>1. /\ pc = "close" /\ pc' \in {"ok", "err"}
        /\ pc' = IF \E a \in ack : validate_ack_record_count(a, conf.len) THEN "ok" ELSE "err"
        /\ UNCHANGED <<conf, buffer, inbox, stored, frame, length, ack>>
    BY <1>8 DEF Close
  <2>2. TypeOK' /\ RoomInv'
    BY <1>t, <2>1 DEF TypeOK, RoomInv
  <2>3. AckInv'
    BY <1>t, <2>1 DEF AckInv, Understood
  <2>4. \/ frame \in {None, Closed} \cup Control /\ ack = {}
        \/ /\ stored \in 0 .. conf.len /\ frame \in Answers(conf.len, stored)
           /\ ack = Understood(frame, length)
    BY <1>t, <2>1 DEF AckInv, TypeOK
  <2>5. OkMeansStored'
    <3> SUFFICES ASSUME pc' = "ok" PROVE stored = conf.len
      BY <2>1 DEF OkMeansStored
    <3>1. PICK a \in ack : validate_ack_record_count(a, conf.len)
      BY <2>1
    <3>2. /\ stored \in 0 .. conf.len /\ frame \in Answers(conf.len, stored)
          /\ a \in parse_ack_payload(frame)
      BY <2>4, <3>1 DEF Understood
    <3> QED
      BY <1>n, <3>1, <3>2, AnswerSound
  <2>6. CompleteIsOk'
    <3> SUFFICES ASSUME pc' = "err", stored = conf.len, frame # None, length <= conf.max,
                        Affirms(frame)
                 PROVE  FALSE
      BY <2>1 DEF CompleteIsOk, Affirms
    <3>1. frame \notin {Closed} \cup Control
      BY OnlyAnswersAffirm DEF Closed, Control
    <3>2. frame \in Answers(conf.len, conf.len) /\ ack = parse_ack_payload(frame)
      BY <1>n, <2>4, <3>1 DEF Understood
    <3> QED
      BY <1>n, <2>1, <3>2, AnswerComplete
  <2> QED
    BY <2>2, <2>3, <2>5, <2>6 DEF IInv
<1>9. CASE GatewayStores
  <2>1. /\ stored = None /\ stored' \in 0 .. conf.len
        /\ UNCHANGED <<conf, pc, buffer, inbox, frame, length, ack>>
    BY <1>9 DEF GatewayStores
  <2>2. frame \in {None, Closed} \cup Control
    BY <1>f, <2>1
  <2>3. TypeOK'
    BY <1>t, <2>1, <2>2 DEF TypeOK
  <2>4. CompleteIsOk'
    <3>1. frame # None => ~Affirms(frame)
      BY <2>2, OnlyAnswersAffirm DEF Closed, Control
    <3> QED
      BY <2>1, <3>1 DEF CompleteIsOk, Affirms
  <2>5. pc # "ok"
    BY <1>n, <1>t, <2>1 DEF OkMeansStored
  <2> QED
    BY <1>t, <2>1, <2>2, <2>3, <2>4, <2>5 DEF IInv, AckInv, RoomInv, OkMeansStored
<1>10. CASE GatewaySends
  BY <1>4, <1>10 DEF GatewaySends
<1>11. CASE UNCHANGED vars
  <2>1. TypeOK' /\ RoomInv' /\ AckInv'
    BY <1>t, <1>11 DEF vars, TypeOK, RoomInv, AckInv, Understood
  <2>2. OkMeansStored' /\ CompleteIsOk'
    BY <1>t, <1>11 DEF vars, OkMeansStored, CompleteIsOk, Affirms
  <2> QED
    BY <2>1, <2>2 DEF IInv
<1> QED
  BY <1>1, <1>2, <1>5, <1>6, <1>7, <1>8, <1>9, <1>10, <1>11 DEF Next, ClientStep

-----------------------------------------------------------------------------
(* The inductive invariant holds in every behaviour of a call.             *)
THEOREM Invariance == Spec => []IInv
BY InitIInv, StepIInv, PTL DEF Spec

(* Every variable of a call keeps its type, the write buffer within usize  *)
(* (websocket_config).                                                     *)
THEOREM TypeCorrect == Spec => []TypeOK
BY Invariance, PTL DEF IInv

(* push_batch returns Ok only for a batch stored entirely                  *)
(* (parse_ack_payload, validate_ack_record_count).                         *)
THEOREM OkSafety == Spec => []OkMeansStored
BY Invariance, PTL DEF IInv

(* No affirmation of a complete batch becomes an error                     *)
(* (ack_from_envelope).                                                    *)
THEOREM CompleteSafety == Spec => []CompleteIsOk
BY Invariance, PTL DEF IInv

(* The write buffer holds the frame of every batch that passed the size    *)
(* check, if its threshold is no smaller than the frame's header           *)
(* (websocket_config).                                                     *)
THEOREM RoomSafety == Spec => []PayloadFits
<1>1. IInv => PayloadFits
  <2> SUFFICES ASSUME IInv, pc \in {"connect", "send"}
               PROVE  /\ buffer > conf.write
                      /\ conf.write >= header_len(conf.size) => frame_len(conf.size) <= buffer
    BY DEF PayloadFits
  <2>1. conf.size \in Nat /\ conf.write \in Nat /\ buffer \in Nat
    BY SizesAssumption DEF IInv, TypeOK
  <2>2. buffer > conf.write /\ buffer - conf.write >= conf.size
    BY DEF IInv, RoomInv
  <2>3. header_len(conf.size) \in Nat
    BY <2>1 DEF header_len
  <2> QED
    BY <2>1, <2>2, <2>3 DEF frame_len
<1> QED
  BY <1>1, Invariance, PTL
=============================================================================
