# TLA+ model of weighing-data-sync

The repository moves weighing records from a SQL Server on site to other
machines, in two ways that share no code:

* the **Rust daemon** (`src/src/`) reads rows from SQL Server, or from a local
  SQLite cache, and uploads them in batches to a cloud endpoint;
* three **Go programs** (`src/cmd/`) form a chain: A reads SQL Server and uploads
  to C, C stores in SQLite or MySQL, B polls C into its own MySQL and can ask C
  to delete what it has.

Nothing runs inside one transaction from end to end. Every link acknowledges,
every process can die between an effect and its record of it, and all repeats
rely on upserts by key. That is what the modules below are about. Paths are
relative to the directory that holds `src/` and `tla/`.

## Inventory

| Component | State | Operations | Interacts with | Hard behaviours | What makes it correct |
| --- | --- | --- | --- | --- | --- |
| A, uploader (`src/cmd/uploader/main.go`) | `stateStore.done`, the JSONL state file | `syncOnce`: two `SELECT TOP`, filter, POST, `append`; `loadState` at start | reads SQL Server, POSTs to C | lost answers, crash or power loss during an append, a batch full of confirmed rows | only committed rows are confirmed; every row is in the end confirmed |
| C, receiver (`src/cmd/receiver/main.go`) | `wds_receive_records`, `wds_receive_batches`, nonces in memory | `handlePost`/`insertPayload`, `handleQuery`/`queryRecords`, `handleDelete*`/`deleteRecord`, `authorize` | called by A and B | concurrent handlers, a request whose sender has gone, age cutoff | one atomic upsert per payload; versions do not go back; only old records are deleted |
| B, replicator (`src/cmd/replicator/main.go`) | three replica tables, `wds_c_delete_queue` (MySQL) | `fetchLoop`/`storeRecord`, `deleteLoop`/`deletePending` | GETs and DELETEs on C | two loops over one queue, stale ids, a DELETE executed late | nothing is deleted that B lacks; everything C gets arrives at B |
| SQL Server engine (`src/src/sync/sqlserver_engine.rs`, `src/src/source/sqlserver.rs`) | none; `isUploadCloud` in the source table | `sync_once`: `fetch_pending`, `row_to_record`, upload, `mark_uploaded` | SQL Server, cloud | edits during a cycle, partial acceptance, chunked write-back, rows that do not convert, waits without a timeout | only delivered rows are marked; all rows in the end are; decimals keep their value |
| Local engine (`src/src/sync/engine.rs`, `src/src/db/`) | `weighing_records` | `insert_record`, `sync_once`, `mark_synced`, `mark_failed` | SQLite, cloud | overlapping cycles, other processes, refused records, times sorted as text | `synced` means stored in the cloud, and is final; older readings go first |
| Retry (`src/src/sync/retry.rs`, `error.rs`) | delay, elapsed time | `retry_transient` | wraps both uploads | overflow, zero delays, exhausted budget | bounded in time, never spins |
| Daemon (`src/src/main.rs`, `src/src/config.rs`) | phase of the main task, a mutex around the engine | `run`, `serve`, `sync-now`: configuration, `build_engine`, server task, first cycle, cron jobs, Ctrl-C | runs the engines and the server | jobs pile up behind a long cycle, or behind one that never ends; parts of the start fail; signals at any moment | one cycle at a time; cycles go on for ever; stops when told |
| Inbound server (`src/src/server.rs`) | `inbound_payloads`, requests under way | `put_weighing_data`, graceful shutdown | called by engines of other machines | storage is best-effort, senders stall, connections break, the process ends during an INSERT | what a sender marks was stored or tried; senders mark what was answered |
| WebSocket client (`src/src/client/websocket.rs`) | none | `push_batch` | a gateway | many forms of acknowledgement, timeouts, control frames, sizes near `usize::MAX`, frame headers | Ok means stored; the call returns |
| Entities, Windows integration, scripts, images | - | - | - | - | no behaviour to check |

`PROJECT.json` lists the same parts with their status, the hazards with their
lines, and the source lines of each definition.

## Modules

```
Delivery                                        what every uploader promises
Uploader <- MCUploader, UploaderProofs          A, with C's ingest; implements Delivery
Replicator <- MCReplicator, ReplicatorProofs    B, with C's table, query and delete;
                                                implements Delivery
Receiver <- MCReceiver, ReceiverProofs          C, its concurrent handlers
CloudAck, SourceRow <- SqlServerSync            Rust daemon on SQL Server; implements Delivery
    <- MCSqlServerSync, SqlServerProofs
CloudAck, CacheRow <- LocalSync                 daemon and sync-now on SQLite; implements Delivery
    <- MCLocalSync, LocalProofs
RetryTransient <- MCRetryTransient, RetryProofs
WebSocketPush <- MCWebSocketPush, WebSocketProofs
CloudAck <- InboundServer <- Daemon             one process from start to exit, with its server
    <- MCDaemon, DaemonProofs
```

In the Go chain a record's content is a **version number**: a file line, a
payload or an SQL row carries a key and a version and nothing else. The Rust
engines convert what they read, so `SourceRow` and `CacheRow` keep as much of a
row as the conversion can get wrong. Signatures and logging do not appear.

Operators whose comment begins with "Fault variant" are plausible mistakes; no
specification uses them. Each stands in for the operator it varies to show that a
property notices (`"mutants"` in `PROJECT.json`).

### Uploader

| State | Code |
| --- | --- |
| `src` | pending rows of `tbl_weightInfo` and `tbl_weightPhoto`, 0 for a row not there yet |
| `cdb`, `stored` | `wds_receive_records` by record key; history of everything C committed |
| `pc`, `batch`, `todo` | progress, `records`/`pending` and `entries` of `syncOnce` |
| `call`, `late` | the POST A waits for; requests A gave up on that C may yet process |
| `done`, `file`, `synced` | `stateStore.done`, lines of the file, how many survive a power failure |

A row is a pair of entity type and number, which is at once its primary key, its
state key and the record key `entity:pk` A expects to be acknowledged. `CKey` is
the key C computes from the row (`extractRecordKey`); it differs when
`SQLSERVER_INFO_PRIMARY_KEY` is not `serialNo`. The two SELECTs are two steps,
since the application writes between them; C's transaction is one step. An
append writes line by line, and a failure or a power loss in between leaves the
lines so far, possibly with an undecodable fragment `Torn`. C's 500 after a
commit whose answer the database lost is the case `call = "stored"` of
`PostLost`. Soft deletion of a source row is left out: a row that leaves the
pending set only shortens the SELECT.

### Replicator

C's `recs` maps a key to id, version, `ingested_at` and optional `source_time`;
`nextId` is its AUTOINCREMENT. B's `repl` stands for the replica table and the
business table, written in one transaction with `queue`. `fetched` and `jobs`
are what the two loops hold between their statements; each MySQL statement or
HTTP call is a step, so the loops interleave freely. `strays` are DELETEs that B
gave up on. The clock counts units in which only record ages matter; the
seconds of `retryDelay` are the flag `due`, which may turn true at any moment.

### Receiver

C by itself: `recs` is `wds_receive_records` with the two times of a row, `nonces`
is `nonceStore.items`, and each handler has a `pc`, the nonce and timestamp of its
request, and the cutoff of its DELETE. `admitted` is a history of the requests
this process let in. The clock counts half seconds, the least that tells a whole
second from a fraction: `verifySignature` compares whole seconds with the running
clock, and stored times are compared as text, where "01Z" sorts after "01.5Z"
(`TextBefore`). The window check and `nonceStore.Add` each read the clock, as do
the computation of a cutoff and the later DELETE, so time may pass between them. A
request is genuine or not; what it asks for is chosen once it is authorized. C's
table appears three times, each time with what the neighbour in that module can
tell apart: versions (`Uploader`), ids and ages (`Replicator`), times (`Receiver`).

### SqlServerSync, SourceRow, CloudAck

`CloudAck` is what both engines make of a 2xx answer, and the answers an honest
endpoint may give. `SqlServerSync` has one process: the scheduler's mutex admits
one cycle at a time (`Daemon`). `stamp` orders rows by `updateTime`. Of an attempt
that fails any part may have been stored; it is repeated or ends the cycle, as
`retry_transient` decides. A request processed after its sender gave up would
only affect the order of versions at the cloud, which is looked at in `Uploader`.
Connect, login, SELECT and UPDATE have no timeout: `pc = "hung"` is a cycle that waits
for a silent database. Nothing obliges it to end (`HangEnds`), and it holds the mutex.
`SourceRow` is `row_to_record`: a cell is a column type and a value, a decimal an
integer and a scale that become sign, integer part and fraction of so many digits
(`format_numeric`), a time loses its fraction of a second, binary columns all but
their length. A row without serial number or with a value that does not convert
is refused, which fails the whole fetch. Two columns stand for all others.

### LocalSync, CacheRow

`LocalSync` has the jobs of a daemon, which share `mutex`, and `sync-now`
processes, which do not; a record never changes, so the cloud is a set of ids.
`CacheRow` is the way of a reading into the table and back: `new_kg`/`new_lb`
refuse negative and infinite weights, `to_rfc3339` writes as many groups of the
fraction as are not zero, SQLite compares that text, and `TryFrom` refuses a row
with an unknown unit or a malformed id or time, which only another tool writes.
Text is a sequence of numbers that compares like the characters.

### InboundServer, Daemon

`InboundServer` has the requests of `put_weighing_data`. One is first read from its
connection (`"reading"`), for as long as its sender likes, since nothing limits the
time a body takes; then the handler is called and holds its batch over two awaits,
the INSERT and the answer. Each of these can be cut off, by the sender or by the end
of the process, and an INSERT under way then may or may not have happened
(`CutOff`). `lost` are the records whose INSERT failed, which the code logs and
answers all the same. The senders are the two engines of other machines: the SQL
Server engine finds its serial numbers in the answer, the local one finds neither of
its lists, which accepts the batch (`Marks`, over `CloudAck`). Too large, malformed,
empty or unauthorized requests are one refusal without effect. A graceful shutdown
waits for every request, the ones still being read included (`Drained`).

`Daemon` adds the process around it: `phase` is where the main task is, `cfg` the
settings a decision depends on, `locked`, `waiting` and `running` the mutex, the
jobs queued for it and the cycles under way. `hooked` tells whether
`tokio::signal::ctrl_c` has been polled by anyone, before which the signal kills
the process. A cycle only begins and ends here, or hangs on a silent SQL Server
(`hung`). Everything that can fail in `start_scheduler`, the cron expression or the
scheduler, ends the daemon.

### WebSocketPush

One call of `push_batch`, and a gateway. `frame` is what the gateway has sent and
the client has yet to read, `ack` what `read_ack` made of it. An acknowledgement is
a boolean, a string, an object with any of seven fields, or something else; it is
assumed not to contradict itself, and to mention a missing record somewhere
(`Envelopes`). Every wait has a timeout; a send that timed out may have arrived.
`usize` is bounded by `UsizeMax`, and `websocket_config` fails when its sum exceeds
it. tungstenite compares a frame, header and payload (`frame_len`), with the limit of
the write buffer, and refuses to send one that is longer; it ends with an error when a
frame longer than `max_message_bytes` arrives.

### Delivery

Items are offered by the source, stored at the receiving side, and only then
confirmed to the source; a confirmation may be taken back. `Uploader`,
`SqlServerSync`, `LocalSync` and `Replicator` each instantiate it as `Deliver`:

| | `offered` | `stored` | `confirmed` |
| --- | --- | --- | --- |
| `Uploader` | rows in the tables | rows C has committed | `stateStore.done` |
| `SqlServerSync` | rows in the table | rows the cloud holds | `isUploadCloud` |
| `LocalSync` | records in the cache | records the cloud holds | status `synced` |
| `Replicator` | records C was sent | records B has a copy of | records C has deleted |

A's map is empty while the process is down, which withdraws the confirmations; a
restart gives back those of the file.

### RetryTransient

The loop of `retry_transient`, in milliseconds, for every combination of
configured values. Attempts last up to `MaxOp`, timers are late by up to
`MaxLate`. `DurationMax` is small in the runs so that `checked_mul` fails.

## Properties and runs

| Run | Property | Result |
| --- | --- | --- |
| `uploader_safety` | `ConfirmedCommitted`: confirmed, in memory or file, implies committed by C; `MemoryBackedByFile`: memory never ahead of the file; `ImplementsDelivery` | hold with all faults and with keys C derives differently |
| `uploader_live` | `IdleIsDurable`: between cycles every line is synced; `VersionsAdvance`: C never returns to an older version; `EventuallyConfirmed`: every row is confirmed and stays so, unless a torn line or a row without key stops A | hold if no table has more pending rows than `BATCH_SIZE`, writes succeed and abandoned requests are dropped |
| `uploader_starved` | `EventuallyConfirmed` | **violated** with one row more |
| `replicator_cleanup` | `DeletedKnown`: C deletes only what B has in some version; `JobMatchesReplica`: the queue follows C's ids; `ReplicaAdvances`: B's copies never get older; `ImplementsDelivery`: C lets a record go only in a step after B has stored it | hold with all faults |
| `replicator_live` | `ReplicaCatchesUp`: every uploaded version reaches B or is superseded there, unless C keeps a record B cannot store | holds while C has at most one page |
| `receiver` | `NonceOnce`: no nonce twice within its validity; `RefusedOnlyIfUsed`: only genuine uses use one up; `DeletedOldEnough`: nothing is deleted a second or more before the minimum age; `PagesAgree`: pages of a query fit together | hold |
| `sqlserver` | `DecimalsExact`: decimals arrive as the numbers they were; `ImplementsDelivery`; `EventuallyMarked`: every row is marked or deleted, unless a row that cannot be converted stays in the batch, or the database is silent, for ever | hold with all faults and with more good rows than a batch |
| `sqlserver_edit` | `MarkedIsCurrent` | **violated** by an edit during the upload |
| `local` | `JobsKeepMarks`: no job undoes another's mark; `OldestFirst`: no reading before an earlier one; `EventuallySynced`; `ImplementsDelivery` | hold with `sync-now` alongside, if fewer records than a batch are refused |
| `retry` | `BudgetHeld`, `BackoffBounded`, `Terminates` | hold |
| `websocket` | `OkMeansStored`: Ok only for a batch stored entirely; `CompleteIsOk`: no affirmation of a complete batch becomes an error; `PayloadFits`: the write buffer holds the frame of what passed the size check; `Returns` | hold, `PayloadFits` for a threshold no shorter than a frame header, `CompleteIsOk` for answers within `max_message_bytes` |
| `daemon` | `OneCycle`; `ComesToSync`: scheduled cycles go on for ever; `StopsOnSignal`: serve stops when told, once its requests are read and answered; `MarkedKept`: marked by a sender implies stored or a failed INSERT; `AnsweredMarked`: senders mark all that was answered | hold, unless the database or a sender stays silent for ever |

`ImplementsDelivery` contains that nothing is marked before it is stored, which
`MarkedDelivered` (`SqlServerSync`) and `SyncedInCloud` (`LocalSync`) say as
invariants; these are proved. The two violated properties state what a document of
the repository says; `"findings"` in `PROJECT.json` quotes the line and the code:

* **starved**: rows 1 and 2 pending, `BATCH_SIZE` 1. Row 1 is confirmed; from
  then on every SELECT returns row 1, which the filter drops.
* **edit**: SELECT, edit that clears the flag, upload of the old content, UPDATE.

### Known limits without a run of their own

The models contain these behaviours too; some appear when the constants named
are changed in a configuration.

* **Another key column.** With `SQLSERVER_INFO_PRIMARY_KEY` other than `serialNo`,
  C acknowledges `weight_info:<serialNo>` and A compares with its own key: nothing
  is confirmed. `CKey <- OtherKeys` in `MCUploaderLive.cfg` breaks
  `EventuallyConfirmed`; safety holds (`uploader_safety` uses these keys).
* **A late request.** C's upsert compares no times, so a request that timed out at
  A and is executed after a newer one puts the old version back. `"late"` in
  `Faults` of `MCUploaderLive.cfg` breaks `VersionsAdvance`.
* **A long response.** `doJSON` reads 1 MiB; a longer page does not decode and
  nothing of it is stored. `ResponseLimit = 1` in `MCReplicatorLive.cfg` breaks
  `ReplicaCatchesUp`.
* **Deletion of a newer version.** C's DELETE checks the age and the id, not the
  version: B stores version 1 and queues the deletion, version 2 arrives at C with
  an old source time, the DELETE removes it. `DeletedKnown` therefore speaks of
  some version.
* **Less than a second early.** Since "01Z" sorts after "01.5Z", a record can be
  deleted up to a second before it has the minimum age; `DeletedOldEnough` allows
  that second, and fails without it.
* **After a restart** C has no nonces, as its README says ("within one process").
* **A torn line.** If power fails during the write of a line, `loadState` fails on
  the fragment at every start. A stays down until somebody edits the file;
  `EventuallyConfirmed` excepts that.
* **One page.** B asks for C's newest `FETCH_BATCH_SIZE` records only. What is not
  among them, because more were uploaded between two fetches, never arrives;
  `BatchSize = 1` in `MCReplicatorLive.cfg` breaks `ReplicaCatchesUp`.
* **A silent SQL Server.** No wait for SQL Server has a timeout. One that keeps the
  connection open and does not answer holds up the first cycle, so that the scheduler is
  never started, or holds the mutex, so that every later job waits. `ComesToSync` and
  `EventuallyMarked` except a silence without end; without the exception both fail.
* **A row that does not convert.** While it is among the first `batch_size` pending rows
  no row of that page is uploaded, and those behind it only move up when it is repaired.
  `EventuallyMarked` and `EventuallySynced` except that.
* **A stalled sender.** `serve` waits for requests it is still reading, without a
  timeout, so that a sender that never finishes keeps it from stopping; `StopsOnSignal`
  excepts that.
* **A threshold shorter than a frame header.** `websocket_config` leaves room for
  `max_message_bytes` above the threshold `write_buffer_bytes`; tungstenite wants room for
  the header of 6 to 14 bytes as well. With `write_buffer_bytes` 0 a batch of exactly
  `max_message_bytes` passes the size check, and its send fails with `WriteBufferFull`.
  `PayloadFits` therefore asks for a threshold no shorter than the header, which the
  default of 128 KiB is; without that condition it fails in the run.
* **Done without deletion.** C answers 200 with `deleted=false` for a young record
  and B closes the job; the next fetch that sees the record queues it again.
* **sync-now next to a job.** Each can mark as failed what the other has marked as
  synced; the record is uploaded again. `JobsKeepMarks` therefore leaves out steps
  of `sync-now`.
* **Refused records.** The local engine reads failed records before newer ones. As
  many refused records as `batch_size` leave no room for others: `BatchSize = 1` in
  `MCLocal.cfg` breaks `EventuallySynced`.
* **An early Ctrl-C.** During the first cycle of `run` only its server listens; the
  signal ends the server, the main task waits for another one, and the daemon goes
  on without receiving. `StopsOnSignal` therefore leaves `run` out.
* **A prompt Ctrl-C.** Once `run` is ready, its main task returns at once and cuts
  off the requests its server is reading or answering; only `serve` waits for them. The
  senders repeat such requests.
* **Control frames.** Each ping or pong starts `read_ack`'s timeout anew, so a
  gateway that sends nothing else keeps the call waiting; `Returns` excepts that.
* **`mark_uploaded = false`** reads the same batch again in every cycle, as
  documented, so rows behind it are not read.

### Bounds

Every bound is a constant with `bound:` in its comment. Two rows of one table and
one of the other, with equal numbers, separate the entity types (a fourth, without
key, joins them in `uploader_live`), make a batch larger than one and let a row lie
behind another; two versions make one stale; two faults allow a failure during the
recovery from the first. Two keys and three ids let a record be deleted and return
under a new id while a job for the old one is under way; a minimum age of 0 and one
clock step reach all of that, with one fault; one record is unreadable in its first
version and readable in its second. Four rows, one of them convertible only in its
second version, with a batch of three and chunks of two, give a fetch that fails and
one that succeeds after the repair, a row behind a batch that can be uploaded, and a
chunk that is not full; a row without serial number fails the fetch in the same way.
Two handlers meet at every step of C; five half seconds with a window and a minimum
age of one second let a nonce expire and come back, and put a record and a cutoff
into the same second. Nonces do not interact, so one is enough. Three rows have
decimals with the sign before a zero, zeros after the point and a scale of 0. Four
readings of one second, with and without milliseconds and microseconds and one of
them negative, and the row of another tool fill the cache; one record is refused, in
a batch of two. `DurationMax` of 7 lets the doubling overflow after three steps,
`UsizeMax` of 140 the sum of the buffer sizes; payloads of 90 and 126 bytes have the
two shorter frame headers, and limits and answers lie at and next to them. Batches
of 0 to 2 records have every partial acceptance. Two requests at once, overlapping
and of both kinds, one Ctrl-C and one fault meet at every step of the daemon; two
waiting jobs pile up behind a third.

### Fairness

`Uploader`: weak fairness of A's own steps, since `main` loops on a ticker and the
scheduled task restarts it, and of C's answer to the request A waits for.
`Replicator`: weak fairness of each loop, both `for` loops with a timer.
`SqlServerSync` and `LocalSync`: weak fairness of the daemon's steps, since cron
fires for ever and the mutex is released at the end of every cycle; none for
`sync-now`, and none for the end of a wait for a silent SQL Server.
`RetryTransient`, `WebSocketPush`: waits have a timeout and timers fire; the gateway
owes nothing. `Daemon`: its tasks go on and cron fires. A cycle ends, since the
uploads have timeouts and the retries a budget, unless it hangs on a silent SQL
Server (`HangEnds` is not fair). A handler that has its request ends, since its
INSERT waits for a local file; a sender need not finish its request
(`put_weighing_data` and `Refuse` are not fair). The application, the clock, faults,
late requests and operators are never obliged to act. Faults are bounded in number,
so the liveness properties say "once faults stop for long enough".

## Proofs

`UploaderProofs` proves, for any rows, keys, batch size, versions and faults:

* `TypeCorrect`, `ConfirmedSafety` (`ConfirmedCommitted`), `MemorySafety`
  (`MemoryBackedByFile`) and `Implementation` (`ImplementsDelivery`);
* `DurableSafety` (`IdleIsDurable`), if neither writes fail nor the process dies
  alone; a crash between lines leaves them to the operating system;
* `VersionSafety` (`VersionsAdvance`), if no request outlives its sender, which is
  the late request among the limits above.

Neither safety property is inductive. The invariant `IInv` adds that the rows of
an acknowledgement still to be written (`todo`) are committed, and that an
answer on its way (`call = "stored"`) stands for a batch C has committed. The
argument: only C's transaction lets a row pass from read to committed; `stored`
only grows; A writes lines only for `todo`; a power loss keeps a prefix of the
file. The lemmas on `Lines` and prefixes carry the file part, `CallStep` and
`ConfirmedStep` one case per action. Assumptions: rows are pairs of an entity
type and a number, and the two sentinels are not rows or records. The refinement
needs `OfferedInv` as well: what is read, under way or committed was in the tables,
and a process that is down has no map. `VersionSafety` needs `VersionInv`: C holds
nothing newer than the tables, a batch nothing older than C, and one version of each
row, since the two SELECTs of a cycle read different tables. Without the last part
the upsert of a batch could end on the older of two versions.

`ReceiverProofs` proves `TypeCorrect`, `NonceSafety` (`NonceOnce`),
`RefusalSafety` (`RefusedOnlyIfUsed`) and `DeletionSafety` (`DeletedOldEnough`) for
any handlers, nonces, keys, window, minimum age and record times. The invariant
adds that every request let in is remembered until it expires (`Remembers`), that
nothing else is (`RemembersUsed`), and that a waiting cutoff is at most too early
(`CutoffPast`). `TextOrder` bounds the error of comparing times as text.
`PagingSafety` (`PagesAgree`) holds for any records and page size: the textual order
is strict and total (`AheadTotal`), so that no two matching rows have the same number
of rows ahead of them (`Ranks`), and LIMIT and OFFSET cut the numbers into
intervals; a page maps one to one into its interval, which bounds its size.

`ReplicatorProofs` proves `TypeCorrect`, `JobSafety` (`JobMatchesReplica`),
`DeletionSafety` (`DeletedKnown`) and `AdvanceSafety` (`ReplicaAdvances`) for any keys,
batch size, minimum age, sizes, unreadable records and faults. None is inductive. The
invariant adds that an id, wherever B has it (in a response, the queue, a loaded job,
a request given up), was given out by C and belongs to no record but the one B takes
it for (`IdsBelong`); that a loaded job has its queue row (`JobsQueued`); and that
without `ENABLE_CLEANUP` the queue is empty (`QueueNeedsCleanup`). AUTOINCREMENT is
what carries it: a record that returns gets an id nobody can know yet. Type
correctness needs the same invariant, since an UPDATE of the queue is by key.
`VersionsOrdered` puts the replica, the response and C's row in order, for
`AdvanceSafety`. From both follow `Implementation`, the hop from C to B as a
`Delivery` in which C confirms a record by letting it go, and `LossSafety`: each
record A has ever uploaded is at C or at B (`NothingLost`),
which is stated in the proof module and is not part of a run.

`RetryProofs` proves `TypeCorrect`, `BudgetSafety`, `BackoffSafety` and
`BackoffMonotone` for every configuration. Its invariant adds that a sleep under
way ends within the budget; `DoubledBounds` is the arithmetic of `checked_mul`,
`unwrap_or` and `min`. `Progress` is the part of `Terminates` that needs no fairness:
every step lowers a natural number (`Remaining`) that starts from the budget, because
a sleep is never of length 0.

`SqlServerProofs` proves `TypeCorrect`, `MarkedSafety` (`MarkedDelivered`),
`DecimalSafety` (`DecimalsExact`) and `Implementation` for any table, contents,
batch and chunk size. The invariant says that each record of a batch, and each the
cloud holds, is the record of some version of its row (`BatchStems`, `CloudStems`),
and that what is left to mark is stored (`TodoStored`). `FormatExact` is the
arithmetic of `format_numeric` for every integer and scale. It assumes that decimal
columns hold integers with a scale and that a power of ten is a positive number,
which the prover's library does not define. `UneditedCurrent` delimits the finding of
`sqlserver_edit`: without edits `MarkedIsCurrent` holds, whatever fails.

`LocalProofs` proves `TypeCorrect`, `SyncedSafety` (`SyncedInCloud`), `KeepMarks`
(`JobsKeepMarks`), `TakesOldest` (`OldestFirst`) and `Implementation` for any
records, jobs, processes and batch size. `HeldInv`: what a process holds comes from
the cache, and what it is about to mark is stored; `JobInv`: a job under way owns
the mutex, and nothing it has fetched or is about to mark as failed carries the
mark of a job. `TextOrder` shows that text written by `to_rfc3339` sorts as the
times do.

`WebSocketProofs` proves `TypeCorrect`, `OkSafety`, `CompleteSafety` and
`RoomSafety` (`PayloadFits`) for any batch, sizes and limits; it counts the frame header,
for which a threshold of that length makes room. `AckInv` ties the acknowledgement to
the frame read last; `EnvelopeSound` and `EnvelopeComplete` are the two directions
of what `ack_from_envelope` concludes from seven optional fields.

`DaemonProofs` proves `TypeCorrect`, `CycleSafety`, `KeptSafety` and
`AnswerSafety` for any configurations, batches and requests at once. `CycleInv`
counts the cycles of each phase, which is why the first cycle needs no lock;
`PhaseInv` says that the pool is chosen before the first request; `TriedInv` that
an answer under way vouches for an INSERT that has been tried. Batches are assumed
to be of one engine's kind and not empty.

Every safety property that a run expects to hold has a theorem. Liveness under
fairness is out of the prover's reach and is model-checked only:
`EventuallyConfirmed`, `ReplicaCatchesUp`, `EventuallyMarked`, `EventuallySynced`,
`Terminates`, `Returns`, `ComesToSync` and `StopsOnSignal`.

## Plan

1. A, C and B composed into a pipeline over one table of C, with manual cleanup and
   the body limit.

## Not modelled

Signing, tokens and canonical queries (cryptography; a request is genuine or
not); the Go programs' conversion of columns to JSON and of JSON to MySQL columns,
which moves every field by itself and decides nothing; logging; the values of
defaults and the factors between units; print-only and run-once modes, which take
the same steps once; schema migration; entities and the draft of data transfer
objects in `docs/sync_structs.rs`, which have no behaviour; the Windows service and
autostart, calls to the registry and the service manager; scripts and images. C's
`maxBodyBytes` appears only as a refusal of a request.
