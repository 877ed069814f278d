------------------------------ MODULE MCDaemon ------------------------------
(* Instances of Daemon for TLC: a working configuration and what differs   *)
(* from it in one or two settings.                                         *)
EXTENDS Daemon

Working ==
    [loads |-> TRUE, source |-> "sqlserver", host |-> "given", username |-> "given",
     password |-> "given", table |-> "name", enabled |-> TRUE, persist |-> TRUE,
     bind |-> TRUE, sync_on_start |-> TRUE, cron |-> TRUE,
     scheduler |-> TRUE]

Some ==
    {Working, [Working EXCEPT !.loads = FALSE],
     [Working EXCEPT !.source = "local"],
     [Working EXCEPT !.host = "placeholder"], [Working EXCEPT !.username = ""],
     [Working EXCEPT !.password = ""], [Working EXCEPT !.table = "not a name"],
     [Working EXCEPT !.enabled = FALSE], [Working EXCEPT !.persist = FALSE],
     [Working EXCEPT !.bind = FALSE], [Working EXCEPT !.sync_on_start = FALSE],
     [Working EXCEPT !.cron = FALSE],
     [Working EXCEPT !.scheduler = FALSE]}

(* Two overlapping batches of the SQL Server engine, one of the local one. *)
SomeBatches == {{"s1"}, {"s1", "s2"}, {"l1"}}
=============================================================================
