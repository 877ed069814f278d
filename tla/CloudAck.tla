------------------------------ MODULE CloudAck ------------------------------
(***************************************************************************)
(* What the Rust engines learn from a 2xx answer of the cloud endpoint.    *)
(* Both sync engines read it the same way: two empty lists (and a 204)     *)
(* accept the whole batch, otherwise only the accepted list counts.        *)
(***************************************************************************)
EXTENDS FiniteSets

(* The answers an endpoint that stored exactly `kept` of `sent` may give:  *)
(* both lists, either of them, or, when it kept everything, none.          *)
Replies(sent, kept) ==
    {[acc |-> kept, fail |-> sent \ kept]}
    \cup (IF kept # {} THEN {[acc |-> kept, fail |-> {}]} ELSE {})
    \cup (IF kept # sent THEN {[acc |-> {}, fail |-> sent \ kept]} ELSE {})
    \cup (IF kept = sent THEN {[acc |-> {}, fail |-> {}]} ELSE {})

(* Fault variant: an empty accepted list alone accepts the batch.          *)
AcceptedUnlessListed(sent, reply) ==
    IF reply.acc = {} THEN sent ELSE reply.acc

Accepted(sent, reply) ==
    IF reply.acc = {} /\ reply.fail = {} THEN sent ELSE reply.acc
=============================================================================
