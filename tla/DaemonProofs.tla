---------------------------- MODULE DaemonProofs ----------------------------
(***************************************************************************)
(* Proofs about Daemon and InboundServer, for any configurations, requests *)
(* at once, batches and faults.                                            *)
(***************************************************************************)
EXTENDS Daemon, TLAPS

(* How many cycles run in each phase: jobs exist only once the scheduler   *)
(* does, and then the mutex counts them.                                   *)
CycleInv ==
    /\ phase = "syncing" => running = 1
    /\ phase = "manual" => running \in {0, 1}
    /\ phase = "ready" => running = IF locked THEN 1 ELSE 0
    /\ phase # "ready" => ~locked /\ waiting = 0
    /\ phase \notin {"ready", "syncing", "manual"} => running = 0

(* The pool is chosen before the first request; serve has no schedule.     *)
PhaseInv ==
    /\ phase \in {"load", "engine", "server"} => server = "off"
    /\ server = "off" => marked = {} /\ \A h \in Handlers : handler[h] = "idle"
    /\ cmd = "serve" => phase \in {"load", "server", "serving"} \cup Ended

(* An answer under way vouches for an INSERT that has been tried.          *)
TriedInv ==
    pool => \A h \in Handlers : handler[h] = "answer" => held[h] \subseteq persisted \cup lost

IInv ==
    /\ TypeOK /\ CycleInv /\ PhaseInv /\ TriedInv
    /\ MarkedKept /\ AnsweredMarked

-----------------------------------------------------------------------------
(* A sender marks what it sent, of whichever kind its records are          *)
(* (accepted_serial_nos, Accepted).                                        *)
LEMMA MarksAll ==
    ASSUME NEW b
    PROVE  Marks(b) = b
BY DEF Marks, Accepted, accepted_serial_nos

(* What the end of handlers leaves of an INSERT is a part of their batch.  *)
LEMMA CutOffKeeps ==
    ASSUME InboundTypeOK, NEW hs \in SUBSET Handlers, CutOff(hs)
    PROVE  persisted \subseteq persisted' /\ persisted' \subseteq Records
<1>1. PICK kept \in SUBSET {h \in hs : handler[h] = "insert"} :
          persisted' = persisted \cup UNION {held[h] : h \in kept}
  BY DEF CutOff
<1>2. \A h \in Handlers : held[h] \subseteq Records
  BY DEF InboundTypeOK, Records
<1> QED
  BY <1>1, <1>2 DEF InboundTypeOK

(* Handlers that end are idle and hold nothing.                            *)
LEMMA FinishType ==
    ASSUME InboundTypeOK, NEW hs \in SUBSET Handlers, Finish(hs)
    PROVE  /\ handler' \in [Handlers -> {"idle", "reading", "insert", "answer"}]
           /\ held' \in [Handlers -> Batches \cup {{}}]
           /\ \A h \in Handlers : handler'[h] = "idle" <=> held'[h] = {}
           /\ \A h \in Handlers : handler'[h] # "idle" => handler'[h] = handler[h] /\ held'[h] = held[h]
BY DEF InboundTypeOK, Finish

-----------------------------------------------------------------------------
(* The part of the invariant that is about the server.                     *)
InboundInv ==
    /\ InboundTypeOK /\ TriedInv /\ MarkedKept /\ AnsweredMarked
    /\ server = "off" => marked = {} /\ \A h \in Handlers : handler[h] = "idle"

(* A request, taken in, stored, answered or given up, keeps it.            *)
LEMMA InboundStep ==
    ASSUME InboundInv, InboundNext
    PROVE  InboundInv' /\ server' = server
<1> USE ServerBoundsAssumption
<1>t. InboundTypeOK /\ TriedInv /\ MarkedKept /\ AnsweredMarked
  BY DEF InboundInv
<1>1. ASSUME NEW h \in Handlers, RequestBegins(h)
      PROVE  InboundInv' /\ server' = server
  <2>1. PICK b \in Batches : held' = [held EXCEPT ![h] = b]
    BY <1>1 DEF RequestBegins
  <2>2. b # {} /\ handler' = [handler EXCEPT ![h] = "reading"]
    BY <1>1, <2>1, BatchesAssumption DEF RequestBegins
  <2>3. /\ server = "up" /\ requests' = requests + 1 /\ requests < MaxRequests
        /\ UNCHANGED <<server, pool, persisted, lost, answered, marked, faults>>
    BY <1>1 DEF RequestBegins, storeVars, senderVars
  <2>4. InboundTypeOK'
    BY <1>t, <2>1, <2>2, <2>3 DEF InboundTypeOK
  <2>5. TriedInv'
    BY <1>t, <2>1, <2>2, <2>3 DEF TriedInv, InboundTypeOK
  <2> QED
    BY <1>t, <2>3, <2>4, <2>5 DEF InboundInv, MarkedKept, AnsweredMarked
<1>2. ASSUME NEW h \in Handlers, put_weighing_data(h)
      PROVE  InboundInv' /\ server' = server
  <2>1. /\ handler[h] = "reading"
        /\ handler' = [handler EXCEPT ![h] = IF pool THEN "insert" ELSE "answer"]
        /\ UNCHANGED <<server, pool, held, persisted, lost, answered, marked, requests, faults>>
    BY <1>2 DEF put_weighing_data, storeVars, senderVars
  <2>2. server # "off"
    BY <2>1 DEF InboundInv
  <2>3. InboundTypeOK'
    BY <1>t, <2>1 DEF InboundTypeOK
  <2>4. TriedInv'
    BY <1>t, <2>1 DEF TriedInv, InboundTypeOK
  <2> QED
    BY <1>t, <2>1, <2>2, <2>3, <2>4 DEF InboundInv, MarkedKept, AnsweredMarked
<1>6. ASSUME NEW h \in Handlers, Refuse(h)
      PROVE  InboundInv' /\ server' = server
  <2>1. /\ handler[h] = "reading" /\ Finish({h}) /\ {h} \in SUBSET Handlers
        /\ UNCHANGED <<server, pool, persisted, lost, answered, marked, requests, faults>>
    BY <1>6 DEF Refuse, storeVars, senderVars
  <2>2. server # "off"
    BY <2>1 DEF InboundInv
  <2>3. InboundTypeOK'
    BY <1>t, <2>1, FinishType DEF InboundTypeOK
  <2>4. TriedInv'
    BY <1>t, <2>1, FinishType DEF TriedInv
  <2> QED
    BY <1>t, <2>1, <2>2, <2>3, <2>4 DEF InboundInv, MarkedKept, AnsweredMarked
<1>3. ASSUME NEW h \in Handlers, insert_inbound_payload(h)
      PROVE  InboundInv' /\ server' = server
  <2>1. /\ handler[h] = "insert" /\ handler' = [handler EXCEPT ![h] = "answer"]
        /\ UNCHANGED <<server, pool, held, answered, marked, requests>>
    BY <1>3 DEF insert_inbound_payload, senderVars
  <2>2. /\ persisted \subseteq persisted' /\ lost \subseteq lost'
        /\ persisted' \cup lost' = persisted \cup lost \cup held[h]
        /\ faults' \in 0 .. MaxFaults
    BY <1>3, <1>t DEF insert_inbound_payload, Fault, InboundTypeOK
  <2>3. held[h] \subseteq Records
    BY <1>t DEF InboundTypeOK, Records
  <2>4. InboundTypeOK'
    BY <1>t, <2>1, <2>2, <2>3 DEF InboundTypeOK
  <2>5. TriedInv'
    BY <1>t, <2>1, <2>2 DEF TriedInv, InboundTypeOK
  <2>6. server # "off"
    BY <2>1 DEF InboundInv
  <2> QED
    BY <1>t, <2>1, <2>2, <2>4, <2>5, <2>6 DEF InboundInv, MarkedKept, AnsweredMarked
<1>4. ASSUME NEW h \in Handlers, PutResponse(h)
      PROVE  InboundInv' /\ server' = server
  <2>1. /\ handler[h] = "answer" /\ Finish({h}) /\ {h} \in SUBSET Handlers
        /\ answered' = answered \cup held[h] /\ marked' = marked \cup held[h]
        /\ UNCHANGED <<server, pool, persisted, lost, requests, faults>>
    BY <1>4, MarksAll DEF PutResponse, storeVars
  <2>2. held[h] \subseteq Records
    BY <1>t DEF InboundTypeOK, Records
  <2>3. InboundTypeOK'
    BY <1>t, <2>1, <2>2, FinishType DEF InboundTypeOK
  <2>4. TriedInv'
    BY <1>t, <2>1, FinishType DEF TriedInv
  <2>5. MarkedKept' /\ AnsweredMarked'
    BY <1>t, <2>1 DEF MarkedKept, AnsweredMarked, TriedInv
  <2>6. server # "off"
    BY <2>1 DEF InboundInv
  <2> QED
    BY <2>1, <2>3, <2>4, <2>5, <2>6 DEF InboundInv
<1>5. ASSUME NEW h \in Handlers, SenderGivesUp(h)
      PROVE  InboundInv' /\ server' = server
  <2>1. /\ handler[h] # "idle" /\ Finish({h}) /\ CutOff({h}) /\ {h} \in SUBSET Handlers
        /\ faults' \in 0 .. MaxFaults
        /\ UNCHANGED <<server, pool, lost, answered, marked, requests>>
    BY <1>5, <1>t DEF SenderGivesUp, senderVars, Fault, InboundTypeOK
  <2>2. persisted \subseteq persisted' /\ persisted' \subseteq Records
    BY <1>t, <2>1, CutOffKeeps
  <2>3. InboundTypeOK'
    BY <1>t, <2>1, <2>2, FinishType DEF InboundTypeOK
  <2>4. TriedInv'
    BY <1>t, <2>1, <2>2, FinishType DEF TriedInv
  <2>5. MarkedKept' /\ AnsweredMarked'
    BY <1>t, <2>1, <2>2 DEF MarkedKept, AnsweredMarked
  <2>6. server # "off"
    BY <2>1 DEF InboundInv
  <2> QED
    BY <2>1, <2>3, <2>4, <2>5, <2>6 DEF InboundInv
<1> QED
  BY <1>1, <1>2, <1>3, <1>4, <1>5, <1>6 DEF InboundNext, HandlerStep

-----------------------------------------------------------------------------
(* The initial state satisfies the invariant.                              *)
LEMMA InitIInv == Init => IInv
<1> SUFFICES ASSUME Init PROVE IInv
  OBVIOUS
<1>b. {pool, locked, hooked, hung} \subseteq BOOLEAN
  BY Zenon DEF Init, InboundInit
<1>h. \A h \in Handlers : handler[h] = "idle" /\ held[h] = {}
  BY DEF Init, InboundInit
<1>1. InboundTypeOK
  BY <1>b, <1>h, ServerBoundsAssumption DEF Init, InboundInit, InboundTypeOK
<1>2. TypeOK
  BY <1>b, <1>1, DaemonBoundsAssumption DEF Init, TypeOK
<1>3. CycleInv /\ PhaseInv
  BY DEF Init, InboundInit, CycleInv, PhaseInv
<1>4. TriedInv /\ MarkedKept /\ AnsweredMarked
  BY DEF Init, InboundInit, TriedInv, MarkedKept, AnsweredMarked
<1> QED
  BY <1>2, <1>3, <1>4 DEF IInv

(* The end of the process, wherever its tasks are: what was answered has   *)
(* been stored or tried.                                                   *)
LEMMA EndIInv ==
    ASSUME IInv, NEW p \in Ended, EndProcess(p),
           faults' \in 0 .. MaxFaults, signals' \in 0 .. MaxSignals
    PROVE  IInv'
<1>t. InboundTypeOK /\ TypeOK
  BY DEF IInv, TypeOK
<1>1. /\ phase' = p /\ server' = "down" /\ CutOff(Busy) /\ Finish(Handlers)
      /\ running' = 0 /\ locked' = FALSE /\ waiting' = 0 /\ hung' = FALSE
      /\ UNCHANGED <<pool, lost, answered, marked, requests, cmd, cfg, hooked>>
  BY DEF EndProcess, senderVars
<1>2. persisted \subseteq persisted' /\ persisted' \subseteq Records
  BY <1>t, <1>1, CutOffKeeps DEF Busy
<1>3. \A h \in Handlers : handler'[h] = "idle"
  BY <1>1 DEF Finish
<1>4. InboundTypeOK'
  BY <1>t, <1>1, <1>2, FinishType DEF InboundTypeOK
<1>b. hung' \in BOOLEAN /\ locked' \in BOOLEAN
  BY <1>1, Zenon
<1>5. TypeOK'
  BY <1>t, <1>1, <1>4, <1>b, DaemonBoundsAssumption DEF TypeOK
<1>6. CycleInv' /\ PhaseInv'
  BY <1>1 DEF CycleInv, PhaseInv, Ended
<1>7. TriedInv' /\ MarkedKept' /\ AnsweredMarked'
  BY <1>1, <1>2, <1>3 DEF IInv, TriedInv, MarkedKept, AnsweredMarked
<1> QED
  BY <1>5, <1>6, <1>7 DEF IInv

(* A step of the main task that leaves the server alone.                   *)
LEMMA MainStep ==
    ASSUME IInv, UNCHANGED <<inboundVars, cmd, cfg>>,
           hooked' \in BOOLEAN, hung' \in BOOLEAN, signals' \in 0 .. MaxSignals,
           running' \in Nat, locked' \in BOOLEAN, waiting' \in 0 .. MaxWaiting,
           phase' \in {"load", "engine", "server", "startup", "syncing", "scheduler",
                       "serving", "ready", "manual"} \cup Ended,
           CycleInv',
           phase' \in {"load", "engine", "server"} => server = "off",
           cmd = "serve" => phase' \in {"load", "server", "serving"} \cup Ended
    PROVE  IInv'
<1> USE DEF inboundVars, handlerVars, storeVars, senderVars
<1>1. InboundTypeOK'
  BY DEF IInv, TypeOK, InboundTypeOK
<1>2. TypeOK'
  BY <1>1 DEF IInv, TypeOK
<1>3. PhaseInv'
  BY DEF IInv, PhaseInv
<1>4. TriedInv' /\ MarkedKept' /\ AnsweredMarked'
  BY DEF IInv, TriedInv, MarkedKept, AnsweredMarked
<1> QED
  BY <1>2, <1>3, <1>4 DEF IInv

-----------------------------------------------------------------------------
(* Every step of the process keeps the invariant.                          *)
LEMMA StepIInv == IInv /\ [Next]_vars => IInv'
<1> SUFFICES ASSUME IInv, [Next]_vars PROVE IInv'
  OBVIOUS
<1> USE ServerBoundsAssumption, DaemonBoundsAssumption
<1>t. /\ TypeOK /\ InboundTypeOK /\ CycleInv /\ PhaseInv /\ TriedInv
      /\ MarkedKept /\ AnsweredMarked
  BY DEF IInv, TypeOK
<1>f. Fault => faults' \in 0 .. MaxFaults
  BY <1>t DEF Fault, InboundTypeOK
<1>c. cmd \in {"run", "serve", "sync_now"}
  BY <1>t, CommandsAssumption DEF TypeOK
<1> DEFINE Phases == {"load", "engine", "server", "startup", "syncing", "scheduler",
                      "serving", "ready", "manual"} \cup Ended
<1>1. ASSUME NEW p \in Phases, Goto(p),
             p \in {"load", "engine", "server"} => server = "off",
             p # "ready" /\ p # "syncing" /\ running = 0 /\ waiting = 0 /\ ~locked,
             cmd = "serve" => p \in {"load", "server", "serving"} \cup Ended
      PROVE  IInv'
  <2>1. CycleInv'
    BY <1>1 DEF Goto, cycleVars, CycleInv
  <2> QED
    BY <1>1, <1>t, <2>1, MainStep DEF Goto, cycleVars, signalVars, TypeOK
<1>2. CASE Load
  <2>1. running = 0 /\ waiting = 0 /\ ~locked /\ server = "off"
    BY <1>2, <1>t DEF Load, CycleInv, PhaseInv
  <2> QED
    BY <1>1, <1>2, <2>1 DEF Load, Ended
<1>3. CASE build_engine
  <2>1. running = 0 /\ waiting = 0 /\ ~locked /\ server = "off" /\ cmd # "serve"
    BY <1>3, <1>t DEF build_engine, CycleInv, PhaseInv, Ended
  <2>2. CASE Built \/ Goto("failed")
    BY <1>1, <2>1, <2>2 DEF Built, Ended
  <2>3. CASE /\ Fault /\ phase' = "failed"
             /\ UNCHANGED <<server, pool, handlerVars, storeVars, senderVars, requests,
                            cmd, cfg, cycleVars, signalVars>>
    <3>1. InboundTypeOK'
      BY <1>t, <1>f, <2>3 DEF InboundTypeOK, handlerVars, storeVars, senderVars
    <3>2. TypeOK'
      BY <1>t, <2>3, <3>1 DEF TypeOK, cycleVars, signalVars, Ended
    <3>3. CycleInv' /\ PhaseInv'
      BY <1>t, <2>1, <2>3
      DEF CycleInv, PhaseInv, cycleVars, handlerVars, senderVars, Ended
    <3>4. TriedInv' /\ MarkedKept' /\ AnsweredMarked'
      BY <1>t, <2>3 DEF TriedInv, MarkedKept, AnsweredMarked,
         handlerVars, storeVars, senderVars, signalVars
    <3> QED
      BY <3>2, <3>3, <3>4 DEF IInv
  <2> QED
    BY <1>3, <2>2, <2>3 DEF build_engine
<1>4. CASE StartServer
  <2>1. /\ running = 0 /\ waiting = 0 /\ ~locked /\ server = "off" /\ marked = {}
        /\ \A h \in Handlers : handler[h] = "idle"
    BY <1>4, <1>t DEF StartServer, CycleInv, PhaseInv
  <2>2. /\ pool' \in BOOLEAN /\ faults' \in 0 .. MaxFaults /\ server' \in {"off", "starting"}
        /\ phase' = IF cmd = "serve" THEN "serving" ELSE "startup"
        /\ UNCHANGED <<handler, held, persisted, lost, answered, marked, requests,
                       cmd, cfg, running, locked, waiting, hung, hooked, signals>>
    <3>1. pool' \in BOOLEAN
      <4>1. CASE UNCHANGED pool
        BY <1>t, <4>1 DEF InboundTypeOK
      <4>2. CASE open_persist_pool
        <5>1. pool' = cfg.persist \/ pool' = FALSE
          BY <4>2 DEF open_persist_pool
        <5>2. cfg.persist \in BOOLEAN
          BY <1>t, ConfigsAssumption DEF TypeOK, Config
        <5> QED
          BY <5>1, <5>2, Zenon
      <4> QED
        BY <1>4, <4>1, <4>2 DEF StartServer
    <3>2. faults' \in 0 .. MaxFaults
      BY <1>4, <1>t, <1>f DEF StartServer, open_persist_pool, InboundTypeOK
    <3> QED
      BY <1>4, <2>1, <3>1, <3>2
      DEF StartServer, handlerVars, storeVars, senderVars, cycleVars, signalVars
  <2>3. InboundTypeOK'
    BY <1>t, <2>2 DEF InboundTypeOK
  <2>4. TypeOK'
    BY <1>t, <2>2, <2>3 DEF TypeOK
  <2>5. CycleInv' /\ PhaseInv'
    BY <1>t, <2>1, <2>2 DEF CycleInv, PhaseInv, Ended
  <2>6. TriedInv' /\ MarkedKept' /\ AnsweredMarked'
    BY <1>t, <2>1, <2>2 DEF TriedInv, MarkedKept, AnsweredMarked
  <2> QED
    BY <2>4, <2>5, <2>6 DEF IInv
<1>5. CASE StartupSync
  <2>1. /\ cmd # "serve" /\ ~locked /\ waiting = 0
        /\ phase = "startup" => running = 0
        /\ phase = "syncing" => running = 1
    BY <1>5, <1>t DEF StartupSync, PhaseInv, CycleInv, Ended
  <2>2. UNCHANGED <<inboundVars, cmd, cfg, locked, waiting, hung, signalVars>>
    BY <1>5 DEF StartupSync
  <2>3. \/ phase' = "syncing" /\ running' = 1
        \/ phase' = "scheduler" /\ running' = 0
    BY <1>5, <2>1 DEF StartupSync
  <2>4. CycleInv'
    BY <2>1, <2>2, <2>3 DEF CycleInv
  <2> QED
    BY <1>t, <2>1, <2>2, <2>3, <2>4, MainStep DEF signalVars, TypeOK
<1>6. CASE sync_now
  <2>1. cmd # "serve" /\ ~locked /\ waiting = 0
    BY <1>6, <1>t DEF sync_now, PhaseInv, CycleInv, Ended
  <2>2. UNCHANGED <<inboundVars, cmd, cfg, locked, waiting, hung, signalVars>>
    BY <1>6 DEF sync_now
  <2>3. \/ phase' = "manual" /\ running' = 1
        \/ phase' \in {"stopped", "failed"} /\ running' = 0
    BY <1>6 DEF sync_now
  <2>4. CycleInv'
    BY <2>1, <2>2, <2>3 DEF CycleInv
  <2> QED
    BY <1>t, <2>1, <2>2, <2>3, <2>4, MainStep DEF signalVars, TypeOK, Ended
<1>7. CASE start_scheduler
  <2>1. cmd # "serve" /\ ~locked /\ waiting = 0 /\ running = 0
    BY <1>7, <1>t DEF start_scheduler, PhaseInv, CycleInv, Ended
  <2>2. CASE /\ phase' = "ready" /\ hooked' = TRUE
             /\ UNCHANGED <<inboundVars, cmd, cfg, cycleVars, signals>>
    <3>1. CycleInv'
      BY <2>1, <2>2 DEF CycleInv, cycleVars
    <3>2. hooked' \in BOOLEAN
      BY <2>2, Zenon
    <3> QED
      BY <1>t, <2>1, <2>2, <3>1, <3>2, MainStep DEF cycleVars, TypeOK
  <2>3. CASE EndProcess("failed") /\ UNCHANGED <<faults, signals>>
    BY <1>t, <2>3, EndIInv DEF Ended, TypeOK, InboundTypeOK
  <2> QED
    BY <1>7, <2>2, <2>3 DEF start_scheduler
<1>8. CASE run_http_server
  <2>1. server = "starting"
    BY <1>8 DEF run_http_server
  <2>2. /\ server' \in {"up", "down"} /\ faults' \in 0 .. MaxFaults
        /\ phase' = phase \/ (cmd = "serve" /\ phase' = "failed")
        /\ UNCHANGED <<pool, handler, held, persisted, lost, answered, marked, requests,
                       cmd, cfg, running, locked, waiting, hung, signals>>
    BY <1>8, <1>t, <1>f
    DEF run_http_server, InboundTypeOK, handlerVars, storeVars, senderVars, cycleVars, signalVars
  <2>h. hooked' \in BOOLEAN
    <3>1. hooked' = TRUE \/ hooked' = hooked
      BY <1>8 DEF run_http_server, signalVars
    <3> QED
      BY <1>t, <3>1, Zenon DEF TypeOK
  <2>3. InboundTypeOK'
    BY <1>t, <2>2 DEF InboundTypeOK
  <2>4. TypeOK'
    BY <1>t, <2>2, <2>3, <2>h DEF TypeOK, Ended
  <2>5. phase \notin {"load", "engine", "server"}
    BY <1>t, <2>1 DEF PhaseInv
  <2>6. CycleInv' /\ PhaseInv'
    BY <1>t, <2>2, <2>5 DEF CycleInv, PhaseInv, Ended
  <2>7. TriedInv' /\ MarkedKept' /\ AnsweredMarked'
    BY <1>t, <2>2 DEF TriedInv, MarkedKept, AnsweredMarked
  <2> QED
    BY <2>4, <2>6, <2>7 DEF IInv
<1>9. ASSUME server \in {"up", "draining"}, server' \in {"up", "draining", "down"},
             UNCHANGED <<pool, handlerVars, storeVars, senderVars, requests, faults,
                         cmd, cfg, phase, cycleVars, hooked>>,
             signals' \in 0 .. MaxSignals
      PROVE  IInv'
  <2> USE DEF handlerVars, storeVars, senderVars, cycleVars
  <2>1. InboundTypeOK'
    BY <1>9, <1>t DEF InboundTypeOK
  <2>2. TypeOK'
    BY <1>9, <1>t, <2>1 DEF TypeOK
  <2>3. CycleInv' /\ PhaseInv'
    BY <1>9, <1>t DEF CycleInv, PhaseInv
  <2>4. TriedInv' /\ MarkedKept' /\ AnsweredMarked'
    BY <1>9, <1>t DEF TriedInv, MarkedKept, AnsweredMarked
  <2> QED
    BY <2>2, <2>3, <2>4 DEF IInv
<1>10. CASE Drained
  <2>1. CASE EndProcess("stopped") /\ UNCHANGED <<faults, signals>>
    BY <1>t, <2>1, EndIInv DEF Ended, TypeOK, InboundTypeOK
  <2> QED
    BY <1>9, <1>10, <1>t, <2>1 DEF Drained, signalVars, TypeOK
<1>11. CASE CtrlC
  <2>s. signals' \in 0 .. MaxSignals
    BY <1>11, <1>t DEF CtrlC, TypeOK
  <2>1. CASE EndProcess("killed") /\ UNCHANGED faults
    BY <1>t, <2>s, <2>1, EndIInv DEF Ended, InboundTypeOK
  <2>2. CASE EndProcess("stopped") /\ UNCHANGED faults
    BY <1>t, <2>s, <2>2, EndIInv DEF Ended, InboundTypeOK
  <2>3. CASE /\ server' = IF server = "up" THEN "draining" ELSE server
             /\ UNCHANGED <<pool, handlerVars, storeVars, senderVars, requests, faults,
                            cmd, cfg, phase, cycleVars, hooked>>
    <3>1. CASE server = "up"
      BY <1>9, <2>s, <2>3, <3>1
    <3>2. CASE server # "up"
      <4>1. UNCHANGED <<inboundVars, cmd, cfg, phase, cycleVars, hooked>>
        BY <2>3, <3>2 DEF inboundVars
      <4>2. CycleInv'
        BY <1>t, <4>1 DEF CycleInv, cycleVars
      <4> QED
        BY <1>t, <2>s, <4>1, <4>2, MainStep DEF cycleVars, TypeOK, PhaseInv
    <3> QED
      BY <3>1, <3>2
  <2> QED
    BY <1>11, <2>1, <2>2, <2>3 DEF CtrlC
<1>12. CASE Killed
  BY <1>12, <1>t, <1>f, EndIInv DEF Killed, Ended, TypeOK
<1>16. CASE Hang \/ HangEnds
  <2>1. /\ faults' \in 0 .. MaxFaults
        /\ UNCHANGED <<server, pool, handler, held, persisted, lost, answered, marked, requests,
                       cmd, cfg, phase, running, locked, waiting, hooked, signals>>
    BY <1>16, <1>t, <1>f DEF Hang, HangEnds, inboundVars, handlerVars, storeVars, senderVars,
       signalVars, InboundTypeOK
  <2>2. hung' \in BOOLEAN
    <3>1. hung' = TRUE \/ hung' = FALSE
      BY <1>16 DEF Hang, HangEnds
    <3> QED
      BY <3>1, Zenon
  <2>3. InboundTypeOK'
    BY <1>t, <2>1 DEF InboundTypeOK
  <2>4. TypeOK'
    BY <1>t, <2>1, <2>2, <2>3 DEF TypeOK
  <2>5. CycleInv' /\ PhaseInv'
    BY <1>t, <2>1 DEF CycleInv, PhaseInv
  <2>6. TriedInv' /\ MarkedKept' /\ AnsweredMarked'
    BY <1>t, <2>1 DEF TriedInv, MarkedKept, AnsweredMarked
  <2> QED
    BY <2>4, <2>5, <2>6 DEF IInv
<1>13. CASE Tick \/ JobBegins \/ JobEnds
  <2>1. phase = "ready" /\ cmd # "serve"
    BY <1>13, <1>t DEF Tick, JobBegins, JobEnds, CycleInv, PhaseInv, Ended
  <2>2. UNCHANGED <<inboundVars, cmd, cfg, phase, hung, signalVars>>
    BY <1>13 DEF Tick, JobBegins, JobEnds
  <2>3. /\ waiting' \in 0 .. MaxWaiting
        /\ running' = IF locked' THEN 1 ELSE 0
    BY <1>13, <1>t, <2>1 DEF Tick, JobBegins, JobEnds, CycleInv, TypeOK
  <2>4. locked' \in BOOLEAN
    <3>1. locked' = TRUE \/ locked' = FALSE \/ locked' = locked
      BY <1>13 DEF Tick, JobBegins, JobEnds
    <3> QED
      BY <1>t, <3>1, Zenon DEF TypeOK
  <2>5. CycleInv'
    BY <2>1, <2>2, <2>3 DEF CycleInv
  <2>6. running' \in Nat
    BY <2>3
  <2> QED
    BY <1>t, <2>1, <2>2, <2>3, <2>4, <2>5, <2>6, MainStep DEF signalVars, TypeOK
<1>14. CASE InboundNext /\ UNCHANGED <<cmd, cfg, phase, cycleVars, signalVars>>
  <2>1. InboundInv
    BY <1>t DEF InboundInv, PhaseInv
  <2>2. InboundInv' /\ server' = server
    BY <1>14, <2>1, InboundStep
  <2>3. TypeOK'
    BY <1>14, <1>t, <2>2 DEF TypeOK, InboundInv, cycleVars, signalVars
  <2>4. CycleInv' /\ PhaseInv'
    BY <1>14, <1>t, <2>2 DEF CycleInv, PhaseInv, InboundInv, cycleVars, signalVars
  <2> QED
    BY <2>2, <2>3, <2>4 DEF IInv, InboundInv
<1>15. CASE UNCHANGED vars
  <2>1. CycleInv'
    BY <1>15, <1>t DEF vars, cycleVars, CycleInv
  <2> QED
    BY <1>15, <1>t, <2>1, MainStep DEF vars, cycleVars, signalVars, TypeOK, PhaseInv
<1> QED
  BY <1>2, <1>3, <1>4, <1>5, <1>6, <1>7, <1>8, <1>10, <1>11, <1>12, <1>13, <1>14, <1>15, <1>16
  DEF Next, Startup, Jobs

-----------------------------------------------------------------------------
(* The inductive invariant holds in every behaviour of the process.        *)
THEOREM Invariance == Spec => []IInv
BY InitIInv, StepIInv, PTL DEF Spec

(* Every variable of the process keeps its type.                           *)
THEOREM TypeCorrect == Spec => []TypeOK
BY Invariance, PTL DEF IInv

(* One process never runs two cycles at once (run_daemon,                  *)
(* start_scheduler).                                                       *)
THEOREM CycleSafety == Spec => []OneCycle
<1>1. IInv => OneCycle
  BY DEF IInv, TypeOK, CycleInv, OneCycle
<1> QED
  BY <1>1, Invariance, PTL

(* What senders have marked is stored, or its INSERT was tried             *)
(* (put_weighing_data).                                                    *)
THEOREM KeptSafety == Spec => []MarkedKept
BY Invariance, PTL DEF IInv

(* Senders mark all that was answered (put_weighing_data, sync_once).      *)
THEOREM AnswerSafety == Spec => []AnsweredMarked
BY Invariance, PTL DEF IInv
=============================================================================
