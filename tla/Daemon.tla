------------------------------- MODULE Daemon -------------------------------
(***************************************************************************)
(* The life of one process of the Rust program (main.rs): the commands     *)
(* run, serve and sync-now from loading the configuration to the exit,     *)
(* with the receive server as a task of its own, the cycle at the start,   *)
(* the cron jobs behind their mutex, and Ctrl-C.                           *)
(*                                                                         *)
(* What a cycle does is in SqlServerSync and LocalSync; here it begins and *)
(* ends.                                                                   *)
(***************************************************************************)
EXTENDS InboundServer

CONSTANTS
    Configs,     \* configurations, see Config
    Commands,    \* commands the process may be started with
    MaxWaiting,  \* bound: jobs waiting for the mutex
    MaxSignals   \* bound: how often Ctrl-C is pressed

(* AppConfig, reduced to what a decision of the start-up depends on.       *)
Text == {"", "placeholder", "given"}

Config ==
    [loads : BOOLEAN,                \* the file and the environment deserialize
     source : {"sqlserver", "local"},
     host : Text, username : Text, password : Text,
     table : {"name", "not a name"},
     enabled : BOOLEAN, persist : BOOLEAN, bind : BOOLEAN,
     sync_on_start : BOOLEAN,
     cron : BOOLEAN,                 \* the expression parses
     scheduler : BOOLEAN]            \* tokio_cron_scheduler can be set up and started

ASSUME ConfigsAssumption == Configs \subseteq Config
ASSUME CommandsAssumption == Commands \subseteq {"run", "serve", "sync_now"}
ASSUME DaemonBoundsAssumption == MaxWaiting \in Nat /\ MaxSignals \in Nat

VARIABLES
    cmd, cfg,
    phase,    \* where the main task is
    running,  \* cycles under way
    locked,   \* the mutex around the engine
    waiting,  \* jobs that wait for it
    hung,     \* the cycle under way waits for a database that does not answer
    hooked,   \* a handler for Ctrl-C has been installed
    signals   \* how often Ctrl-C was pressed

cycleVars == <<running, locked, waiting, hung>>
signalVars == <<hooked, signals>>
vars == <<inboundVars, cmd, cfg, phase, cycleVars, signalVars>>

Ended == {"stopped", "failed", "killed"}

TypeOK ==
    /\ InboundTypeOK
    /\ cmd \in Commands /\ cfg \in Configs
    /\ phase \in {"load", "engine", "server", "startup", "syncing", "scheduler",
                  "serving", "ready", "manual"} \cup Ended
    /\ running \in Nat /\ locked \in BOOLEAN /\ waiting \in 0 .. MaxWaiting
    /\ hung \in BOOLEAN
    /\ hooked \in BOOLEAN /\ signals \in 0 .. MaxSignals

Init ==
    /\ InboundInit
    /\ cmd \in Commands /\ cfg \in Configs
    /\ phase = "load"
    /\ running = 0 /\ locked = FALSE /\ waiting = 0 /\ hung = FALSE
    /\ hooked = FALSE /\ signals = 0

(* The process is gone: the runtime drops every task where it stands.      *)
EndProcess(p) ==
    /\ phase' = p
    /\ server' = "down"
    /\ CutOff(Busy) /\ Finish(Handlers)
    /\ running' = 0 /\ locked' = FALSE /\ waiting' = 0 /\ hung' = FALSE
    /\ UNCHANGED <<pool, lost, senderVars, requests, cmd, cfg, hooked>>

-----------------------------------------------------------------------------
(* Starting up.                                                            *)

validate(c) ==
    /\ c.host \notin {"", "placeholder"}
    /\ c.username # ""
    /\ c.password \notin {"", "placeholder"}

validate_identifier(name) == name = "name"

Goto(p) == phase' = p /\ UNCHANGED <<inboundVars, cmd, cfg, cycleVars, signalVars>>

(* AppConfig::load, then the command's own way.                            *)
Load ==
    /\ phase = "load"
    /\ \/ cfg.loads /\ Goto(IF cmd = "serve" THEN "server" ELSE "engine")
       \/ ~cfg.loads /\ Goto("failed")

Built == Goto(IF cmd = "run" THEN "server" ELSE "manual")

(* build_engine: the SQL Server engine connects only in its cycles, the    *)
(* local one opens the cache now (db::connect, with the migrations).       *)
build_engine ==
    /\ phase = "engine"
    /\ \/ cfg.source = "sqlserver" /\ validate(cfg) /\ validate_identifier(cfg.table) /\ Built
       \/ /\ cfg.source = "sqlserver" /\ ~(validate(cfg) /\ validate_identifier(cfg.table))
          /\ Goto("failed")
       \/ cfg.source = "local" /\ Built
       \/ /\ cfg.source = "local" /\ Fault /\ phase' = "failed"
          /\ UNCHANGED <<server, pool, handlerVars, storeVars, senderVars, requests,
                         cmd, cfg, cycleVars, signalVars>>

(* open_persist_pool: without the database the server runs all the same.   *)
open_persist_pool ==
    \/ pool' = cfg.persist /\ UNCHANGED faults
    \/ cfg.persist /\ pool' = FALSE /\ Fault

(* serve awaits the server, run spawns it if it is enabled.                *)
StartServer ==
    /\ phase = "server"
    /\ \/ /\ cmd = "serve" \/ cfg.enabled
          /\ open_persist_pool /\ server' = "starting"
       \/ cmd = "run" /\ ~cfg.enabled /\ UNCHANGED <<pool, faults, server>>
    /\ phase' = IF cmd = "serve" THEN "serving" ELSE "startup"
    /\ UNCHANGED <<handlerVars, storeVars, senderVars, requests, cmd, cfg, cycleVars, signalVars>>

(* Fault variant: run ends with its server, as serve does.                 *)
BindFailureFatal ==
    /\ server = "starting"
    /\ \/ /\ cfg.bind /\ server' = "up" /\ hooked' = TRUE
          /\ UNCHANGED <<pool, handlerVars, storeVars, senderVars, requests, faults,
                         cmd, cfg, phase, cycleVars, signals>>
       \/ EndProcess("failed") /\ Fault /\ UNCHANGED signals
       \/ ~cfg.bind /\ EndProcess("failed") /\ UNCHANGED <<faults, signals>>

(* run_http_server: the address parses and can be bound, and the server    *)
(* listens for Ctrl-C; or it cannot, which ends serve but is only logged   *)
(* by run.                                                                 *)
run_http_server ==
    /\ server = "starting"
    /\ \/ /\ cfg.bind /\ server' = "up" /\ hooked' = TRUE
          /\ UNCHANGED <<pool, handlerVars, storeVars, senderVars, requests, faults,
                         cmd, cfg, phase, cycleVars, signals>>
       \/ /\ \/ Fault
             \/ ~cfg.bind /\ UNCHANGED faults
          /\ server' = "down"
          /\ phase' = IF cmd = "serve" THEN "failed" ELSE phase
          /\ UNCHANGED <<pool, handlerVars, storeVars, senderVars, requests,
                         cmd, cfg, cycleVars, signalVars>>

(* Fault variant: the scheduler is started before the first cycle has run. *)
StartupConcurrent ==
    /\ phase = "startup"
    /\ phase' = "scheduler"
    /\ running' = IF cfg.sync_on_start THEN running + 1 ELSE running
    /\ UNCHANGED <<inboundVars, cmd, cfg, locked, waiting, hung, signalVars>>

(* The cycle at the start, whose failure is logged only; and the one of    *)
(* sync-now, whose failure is the process's.                               *)
StartupSync ==
    \/ /\ phase = "startup"
       /\ phase' = IF cfg.sync_on_start THEN "syncing" ELSE "scheduler"
       /\ running' = IF cfg.sync_on_start THEN running + 1 ELSE running
       /\ UNCHANGED <<inboundVars, cmd, cfg, locked, waiting, hung, signalVars>>
    \/ /\ phase = "syncing" /\ ~hung
       /\ phase' = "scheduler" /\ running' = running - 1
       /\ UNCHANGED <<inboundVars, cmd, cfg, locked, waiting, hung, signalVars>>

sync_now ==
    /\ phase = "manual"
    /\ \/ running = 0 /\ running' = 1 /\ UNCHANGED phase
       \/ running = 1 /\ ~hung /\ running' = 0 /\ phase' \in {"stopped", "failed"}
    /\ UNCHANGED <<inboundVars, cmd, cfg, locked, waiting, hung, signalVars>>

(* start_scheduler; from now on the main task waits for Ctrl-C.  A cron    *)
(* expression that does not parse is noticed only here; and whatever fails *)
(* in here ends the daemon.                                                *)
start_scheduler ==
    /\ phase = "scheduler"
    /\ \/ /\ cfg.cron /\ cfg.scheduler /\ phase' = "ready" /\ hooked' = TRUE
          /\ UNCHANGED <<inboundVars, cmd, cfg, cycleVars, signals>>
       \/ /\ ~(cfg.cron /\ cfg.scheduler)
          /\ EndProcess("failed") /\ UNCHANGED <<faults, signals>>

-----------------------------------------------------------------------------
(* The scheduler.                                                          *)
Tick ==
    /\ phase = "ready" /\ waiting < MaxWaiting
    /\ waiting' = waiting + 1
    /\ UNCHANGED <<inboundVars, cmd, cfg, phase, running, locked, hung, signalVars>>

JobBegins ==
    /\ waiting > 0 /\ ~locked
    /\ waiting' = waiting - 1 /\ locked' = TRUE /\ running' = running + 1
    /\ UNCHANGED <<inboundVars, cmd, cfg, phase, hung, signalVars>>

(* Whether the cycle failed or not, the guard is dropped.                  *)
JobEnds ==
    /\ locked /\ ~hung
    /\ locked' = FALSE /\ running' = running - 1
    /\ UNCHANGED <<inboundVars, cmd, cfg, phase, waiting, hung, signalVars>>

(* The SQL Server, or the network to it, goes silent: connect, login,      *)
(* SELECT and UPDATE wait without a timeout.                               *)
Hang ==
    /\ running > 0 /\ cfg.source = "sqlserver" /\ ~hung
    /\ Fault
    /\ hung' = TRUE
    /\ UNCHANGED <<server, pool, handlerVars, storeVars, senderVars, requests,
                   cmd, cfg, phase, running, locked, waiting, signalVars>>

(* It may answer after all, or the connection break.                       *)
HangEnds ==
    /\ hung
    /\ hung' = FALSE
    /\ UNCHANGED <<inboundVars, cmd, cfg, phase, running, locked, waiting, signalVars>>

-----------------------------------------------------------------------------
(* Fault variant: a handler is installed, but nobody waits for it in the   *)
(* server.                                                                 *)
CtrlCUnheard ==
    /\ phase \notin Ended /\ signals < MaxSignals
    /\ signals' = signals + 1
    /\ \/ ~hooked /\ EndProcess("killed") /\ UNCHANGED faults
       \/ hooked /\ phase = "ready" /\ EndProcess("stopped") /\ UNCHANGED faults
       \/ /\ hooked /\ phase # "ready"
          /\ UNCHANGED <<inboundVars, cmd, cfg, phase, cycleVars, hooked>>

(* Ctrl-C reaches those who listen at this moment: the server, and the     *)
(* main task once it is ready, which returns at once.  Before anybody has  *)
(* ever listened it kills the process.                                     *)
CtrlC ==
    /\ phase \notin Ended /\ signals < MaxSignals
    /\ signals' = signals + 1
    /\ \/ ~hooked /\ EndProcess("killed") /\ UNCHANGED faults
       \/ hooked /\ phase = "ready" /\ EndProcess("stopped") /\ UNCHANGED faults
       \/ /\ hooked /\ phase # "ready"
          /\ server' = IF server = "up" THEN "draining" ELSE server
          /\ UNCHANGED <<pool, handlerVars, storeVars, senderVars, requests, faults,
                         cmd, cfg, phase, cycleVars, hooked>>

(* with_graceful_shutdown: the server ends when its last request has, one  *)
(* still being read included; with it ends the serve command.              *)
Drained ==
    /\ server = "draining" /\ Busy = {}
    /\ \/ cmd = "serve" /\ EndProcess("stopped") /\ UNCHANGED <<faults, signals>>
       \/ /\ cmd = "run" /\ server' = "down"
          /\ UNCHANGED <<pool, handlerVars, storeVars, senderVars, requests, faults,
                         cmd, cfg, phase, cycleVars, signalVars>>

Killed ==
    /\ phase \notin Ended
    /\ Fault
    /\ EndProcess("killed") /\ UNCHANGED signals

-----------------------------------------------------------------------------
Startup == Load \/ build_engine \/ StartServer \/ StartupSync \/ sync_now \/ start_scheduler
Jobs == JobBegins \/ JobEnds

Next ==
    \/ Startup \/ run_http_server \/ Drained
    \/ Tick \/ Jobs \/ Hang \/ HangEnds
    \/ InboundNext /\ UNCHANGED <<cmd, cfg, phase, cycleVars, signalVars>>
    \/ CtrlC \/ Killed
    \/ phase \in Ended \cup {"serving"} /\ UNCHANGED vars

Spec == Init /\ [][Next]_vars

(* The tasks of a process go on, and the cron schedule fires again and     *)
(* again.  A cycle ends, since the retries have a budget and the HTTP      *)
(* client a timeout, unless it is hung: nothing makes a silent database    *)
(* answer (HangEnds).  A handler ends once it has its request, since the   *)
(* INSERT waits for a local file only; nothing makes a sender finish its   *)
(* request (put_weighing_data, Refuse) or give it up.                      *)
FairSpec ==
    /\ Spec
    /\ WF_vars(Startup) /\ WF_vars(run_http_server) /\ WF_vars(Drained)
    /\ WF_vars(Tick) /\ WF_vars(Jobs)
    /\ \A h \in Handlers :
        WF_vars(HandlerStep(h) /\ UNCHANGED <<cmd, cfg, phase, cycleVars, signalVars>>)

-----------------------------------------------------------------------------
(* One process never runs two cycles at once, although the cycle at the    *)
(* start takes no lock and jobs pile up behind a long one (run_daemon,     *)
(* start_scheduler).                                                       *)
OneCycle == running <= 1

(* Once its engine is built, a daemon goes on running scheduled cycles for *)
(* ever, whether or not its server, the server's database or a cycle fail, *)
(* unless its cron expression does not parse or its scheduler cannot be    *)
(* set up, it is stopped, or one cycle waits for a silent database for     *)
(* ever (run_daemon, start_scheduler).                                     *)
ComesToSync ==
    <>(cmd = "run" /\ phase = "server" /\ cfg.cron /\ cfg.scheduler)
    => \/ []<>locked /\ []<>~locked
       \/ <>(phase \in {"stopped", "killed"})
       \/ <>[]hung

(* A serve process that is told to stop stops, however many requests it    *)
(* has to read and to answer first, unless the sender of one of them never *)
(* finishes it.  A daemon need not: Ctrl-C during its first cycle reaches  *)
(* only its server (shutdown_signal, run_daemon).                          *)
StopsOnSignal ==
    \/ (signals > 0 /\ cmd = "serve") ~> (phase \in Ended)
    \/ \E h \in Handlers : <>[](handler[h] = "reading")
=============================================================================
