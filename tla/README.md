# TIL90 local console: specifications

TLA+ specifications, TLC models and TLAPS proofs for the Python tools in `tools/`: a local console
that reads, monitors and reconfigures a Loadsensing TIL90 tilt sensor over a USB serial line. Paths
below are relative to the repository.

## 1. The system

| Component | State | Operations | Interacts with |
|---|---|---|---|
| UART framing, `packet_parser/frame.py` | parser state, body collected so far | `feed`, `reset`, `encode_frame` | every session makes a parser of its own |
| Decoders, `packet_parser/messages.py` | none | decode one body | framing |
| Serial sessions, `til90_cli.py`, `device_service.py` | process lock, reconnect counters, the bytes on the line | `run_query`, `run_history`, `read`, `backup`, `history`, retries | node, framing |
| Guarded restore, `device_service.apply_restore`, `config_backup.py` | plan, operations applied, rollback errors | plan, write, acknowledge, read back, compare, roll back | sessions, node |
| History import, `history_manager.py`, `monitoring_store.py` | job rows, stored records, active job, cancel event, thread | create, resume, cancel, import thread, stop | sessions, SQLite, web requests |
| Monitoring, `monitoring_service.py` | configuration, thread, stop event, last results | start, stop, update_config, ingest, polling thread | sessions, store, alerts |
| Alerts and samples, `alert_engine.py`, `monitoring_store.py` | samples, health, alerts | insert, evaluate, acknowledge, cleanup | monitoring, web requests |
| Web API, `web_service.py` | token, configuration plans (a dictionary without a lock) | some thirty endpoints, in threads of a pool: preview, apply, profile, credentials, history, monitoring, maintenance, diagnostics | all services |
| Radio profiles, `radio_configuration.py` | operations applied | apply with rollback, credentials, restore after reset | sessions |
| Maintenance, `maintenance_cli.py` | progress of one flow | reboot, factory reset, validations | sessions |
| Firmware, `firmware_service.py` | XMODEM block, attempts | send, flash | bootloader |
| Diagnostics, `deep_diagnostics.py`, `recovery_check.py`, `usb_diagnostics.py` | the readings of one run | series of read transactions, a verdict over them | sessions |
| Command line tools, browser page | none that lasts | arguments, forms, output | services |

What is hard here: the node's answers carry no reference to the request they answer, so an answer
that is late or left over can be taken for another's; a write may take effect although its
acknowledgement is lost; flows of several writes fail in the middle; request threads, the import
thread and the monitoring thread share state with few locks; the process can end between any two
database writes; the framing has no checksum and resynchronises on its own.

What makes each part correct: framing delivers every frame it can and recovers after one frame;
a restore that reports success is complete and one that fails cleanly is undone; a history result reported complete holds the
records of its own range; an import never
passes over a record it has not stored, never runs twice at once and always ends; monitoring ends
when it is switched off; at most one open alert stands for a rule; a confirmed plan is applied only
once and changes what was shown to what was shown; a profile that was reported stays; a verdict of the diagnostics names
something that was there. `PROJECT.json` lists the hazards line by line.

## 2. Modules

| Module | Models |
|---|---|
| `RestorePromise` | abstract: what a caller of `apply_restore` may rely on |
| `RestoreTransaction` | `apply_restore` with the node and the line |
| `RestoreTransactionProofs` | its theorems |
| `FrameLink` | `encode_frame` on a noisy line against `StreamFrameParser` |
| `HistoryManager` | `HistoryManager` over the history tables |
| `HistoryManagerProofs` | its theorems |
| `QuerySession` | read, backup and history transactions over the line, with retries |
| `QuerySessionProofs` | its theorems |
| `MonitoringService` | the polling thread, `start`, `stop`, `update_config`, `ingest` |
| `AlertEngine` | `_store_result`, `evaluate_sample` and `set_alert` over the samples table |
| `MonitoringProofs` | theorems about monitoring and alerts |
| `ConfigPlans` | preview, apply, profile and credentials of the web service side by side |
| `ConfigPlansProofs` | its theorems |
| `Diagnostics` | the deep diagnostic suite and the recovery check |
| `DiagnosticsProofs` | its theorems |
| `MaintenanceFlows` | profiles, credentials, reboot, factory reset, recovery and validations |
| `MaintenanceFlowsProofs` | its theorems |
| `FirmwareTransfer` | `flash_g6_til90` and `send_xmodem` against the bootloader |
| `SerialLineProofs` | theorems about the framing and the firmware transfer |
| `MC*` | the small instances for TLC |

In each module the definitions named `X_Something` in front of a definition `X` and introduced by
"Mutant" are defective variants of `X`. No specification uses them; replacing `X` by one of them
makes TLC find a counterexample to the property it was written for, which shows that the property
depends on that code.

### RestoreTransaction

State: the node's configuration `dev`, the requests and replies on the line (`req`, `rep`, in
order, not yet served or read), and `apply_restore`'s locals: `phase` and `step` are its place in
the code, `op` the operation of the iteration, `todo` what the loop has left, `applied` and
`rollbackErrors` the variables of those names. `unacked` is a history variable: the operation that
failed after its write was sent and before an acknowledgement was read.

`Begin` is everything from the backup of the idle node to the first iteration, `Refuse` any
exception on that way. One iteration, of the forward loop or of the rollback, is `SendWrite`,
`RecvAck`, `SendQuery`, `RecvReading`; `SkipFrame` passes over other frames
as `_write_and_ack` and `run_query` do; `RestOfChunkDropped` is the frames of the same read that are
lost when the handler returns from its loop. Each way to raise is an action (`TransportFails`,
`RecvRefusal`, `RecvResponseToQuery`, `ReadbackDiffers`, `EncodingFails`) and `Raise` is the two
`except` clauses. The second backup is read query by query on connections of its own:
`QueryForBackup`, `BackupReading`, `BackupSkips` and `BackupMisses` are one query (`backup` the results
so far, `NoReading` a failed one), `BackupReconnects` the retry of `_read_transaction`, after which
queries of the lost connection may still be served; `PostBackupEqual` and `PostBackupFails` compare what
was read, which need not be what the node has, with the target (`Equal`).
Configurations are functions from the three restorable fields and one field `"calibration"` that
stands for all others, and `coupled` says whether the writes of the node at hand change other fields
too; a value is a number, 0 being the slot time that snapshots allow and the
encoder refuses. The node is external: it may store, ignore or refuse a write, and serves requests
in order.

### FrameLink

The sender emits a frame byte by byte (`EmitStart` ... `EmitEtx`), possibly `EmitNoise` between
frames; each byte goes to the parser in the same step, `Feed` being one iteration of the loop of
`feed` with one operator per state of the parser. `ChunkEnds` is the end of a read, at any byte;
`raised` makes the parser ignore the rest of a chunk as the exception does. `NewParser` is the new
parser every query makes, anywhere in the stream. `startedIn` is a history variable.

### HistoryManager

State: the rows of `history_jobs`, the stored epochs, `_active_job_id`, `_cancel`, `_thread`, per
import thread its place in `_run`, its job and the chunk in hand, per web request thread the call it
is in. Every access to shared state is a step of its own: `ReadJob` (unlocked read in `resume`),
`FindsThreadAlive` and `StartThread` (under the lock), `CallCancel`, `SetCancel`, `MarkCancelling`
(the three unlocked steps of `cancel`), `Begin` ... `Exit` of the thread; `Release` and `Exit` are
apart because a thread is alive for a moment after it released its job. `Stop` and `Restart` are the
shutdown and the end of the process at any step. `StoreFaults` lets every database write raise,
`Losable` lets records get lost on the line without a trace.

### QuerySession

State: the sensor at the other end, the requests and frames on the line (`req`, `rep`), and of the
transaction that runs its place `pc`, the failed connections (`attempt`), the results so far and the
records collected. `Begin` is the call of `read`, `backup` or `history`; `Open` opens the port, which
drops what has arrived; `SendQuery`, `TakeAnswer`, `TakeResponse`, `SkipFrame` and `QueryTimeout` are
`run_query`; `Decide` goes from a complete series to its result or to `SendHistory`; `TakeRecord`,
`SkipOther`, `Complete`, `OtherResponse`, `Limit`, `OtherNode` and `HistoryTimeout` are the loop of
`run_history`. `Disconnect` is the operating system's error that starts the transaction again on a new
connection, `Raise` any other. `NodeStep` is external: the node serves requests in order and as late as
it likes, frames get lost, the sensor is exchanged. `AbandonedWrite` is a write of another flow that
was left unanswered. Frames carry the number of their request for the properties only: no guard of the
host reads it. `sent`, `abandoned`, `lost` and `closed` are history variables.

### MonitoringService

State: `enabled` of the stored configuration, the event `_stop`, `_thread`, per thread its place in
`_run` with the time left until its next reads and what it found, per web request thread its call,
and of the store only the age of the latest sample and the missing-data alert. `UpdateConfig` stores
the configuration; `Start`, `StartFindsAlive`, `Stop` and `Join` are the calls it then makes, `Join`
ending when the thread did or when the five seconds are over. `Config` decides what the pass reads;
`Fails` is the one `except` clause. `Tick` is a second; it passes only while every thread sleeps or
talks to the device. `Restart` is the end of the process and its next start, with or without
`--auto-monitor`.

### AlertEngine

State: the samples of each node with the sensor's timestamp, the open alerts, per thread the
`_store_result` it is in. Each database access is a step: `ReadPrevious`, `Insert`, `ReadCurrent`,
`SetAbsolute`, `SetRate`. `Import` and `CleanupSamples` change the table beside them. `ever` and `alone` are
history variables: all rows ever stored, and whether an evaluation overlapped with anything. `Skew` is
how far a node's clock is ahead.

### MaintenanceFlows

A flow is a list of steps (`Forward`), built from the writes and readbacks of its function in their
order; `undo` collects what its `except` or `finally` clause then has to do. `WriteVerified` compares
nothing, `WriteCompared` does, `Match` and `"same"` are the comparisons of complete backups. A step
passes (`WriteDone`, `LookPasses`, `ResetDone`, `BackupTaken`, `RebootSent`) or raises (`WriteRaises`,
`StepRaises`): in `phase` "forward" into the clause, in "undo" into `restore_error` or
`rollback_errors`, in "after" out of the function. The node is external: it may store a write it does
not acknowledge, keep a field in `Ignored`, change those in `Disturbs`, and come back from the reset
with another ID. Requests are served in order, so a write that takes effect late has, for every later
request, taken effect at once, and the line needs no queue here. `start` and `lied` are history.

### FirmwareTransfer

`Restart`, `Prompted` and `Returned` are `flash_g6_til90` around the transfer; `SendBlock`, `ReadByte`,
`Timeout` and `GiveUp` are one attempt of `send_xmodem`, `Accept` what an acknowledgement does. Packets
and response bytes are queues; a response names no block. `Timeout` may come while the response is
still on its way, which `strays` counts, as it does the repeated prompts. `Receive`, the bootloader,
is external: XMODEM with block numbers modulo `Modulus`, which cancels when a number is neither the
next nor the last.

### ConfigPlans

State: the node attached with its configuration, `configuration_plans`, and per request thread where
its request is and what it has read. Each section under the service's lock is a step, and so is each
access to the dictionary, which has no lock: `Preview` (the backup), `Clear` and `Store` are a preview,
`Take` or `Expired` and then `Refused`, `Restored` or `NotRestored` an apply, `BackupRestored` the restore
of a backup the operator sends. A restore plans anew from the configuration it finds and writes what
differs (`Writes`); it is taken as `RestorePromise` describes it, on a node whose writes change no other
field. A write that a failed restore left in doubt takes effect in that step or not at all; later, it is
the subject of `RestoreTransaction`. The restore of the profile after a factory reset is in
`MaintenanceFlows` only. `AlreadyConfigured` or `Profile`, `ProfileWrites`, `ProfileApplied` or
`ProfileDiffers`, and `Rollback` are the regional profile, whose comparison and rollback take the lock
again; `Credentials`, `CredentialWrites` and `Checked` the gateway's credentials.
`Swap` attaches another sensor. `Restorable`, `ProfileField` and `"network"` are one or two fields that
stand for the kinds of fields the flows write. `older`, `used`, `rewritten`, `promised`, `spoilers`,
`original` and `mixed` are history variables.

### Diagnostics

State: the situation of the line and the sensor, the stage the suite is in and the readings it has. A
stage is a series of transactions: one step per reading, between which `Change` may put the sensor, the
adapter or a fault in another situation and `losses` answers may be lost. The passive listen gets any of
what `Arriving` on its line and applies the code's test to it (`Signal`), so a bootloader may be heard or
not and noise may sound like one; `Heard` is what the framing probe receives that is no answer. `Rules` are
those of `_classify` in their order, `RecoveryFailed` and `RecoveryWarns` those of `run_recovery_check`,
and `Overall` is the word over them all. They see what they tell apart of a reading:
whether it came, from which node, and which faults it shows. `Valid` is the positions of the readings
that came, `LastHealth` what the last of them shows. `past` is every situation of the run.

### Seen while modelling, without a run

- `device_service.py:266-269` and `285`: when a write took effect and its acknowledgement was lost, the
  operation is not in `applied`, so the rollback does not touch it and the failure names no rollback
  error, although `docs/web-app.md:74` promises "rollback on failure".
- `maintenance_cli.py:211-215`, `317-318`, `413-414`: when the write fails and the restoring write of
  the `finally` clause fails too, the report carries one of the two errors.
- `til90_cli.py:198` and the history stream: after two abandoned requests the stale completion of an
  earlier range can close a later one; `CompleteIsOwn` is stated for at most one, or for an identity
  that was answered to its own request.
- `web_service.py:440`: an apply plans against a fresh backup. When another request changed a
  restorable field in between, the apply writes it back although the preview did not show it; only another restore can do
  so (`ChangesAsShown`).
- `web_service.py`: a wrong confirmation consumes the plan; the operator has to preview again.
- `radio_configuration.py:134-144`: of two profile requests that overlap, the rollback of one can leave
  half of the profile, without a rollback error, or take back what the other reported.
- `radio_configuration.py:134-144`: on a node that changes one of the two profile fields when it stores
  the other, the rollback does not bring both back and reports no error (a proof attempt showed it).
- `web_service.py:359-400`: a sensor that is swapped between the backup and the locked writes is written
  under the confirmation given for the other one.
- `deep_diagnostics.py`: "ready" is said although a step such as repeated health or UART framing did
  not pass; the node is compared over health replies only; `_history_check` reads `completion_code`,
  which `run_history` calls `response_code`; history that was skipped does not prevent "ready".
- `deep_diagnostics.py:335-366`: an adapter unplugged after the look at USB is reported as a silent
  sensor behind an adapter that opens.
- `recovery_check.py:75-118`: its health reading and its backup may come from different nodes.
- `frame.py:138-144`: in `WAIT_STX` a DLE is not taken for the start of a frame, so one DLE of noise
  right before a frame loses it, although `docs/frame-format-draft.md:93` lists noise before the
  start marker as supported.
- `history_manager.py:110`: a record for which there is no table is counted as a duplicate.
- `monitoring_service.py:134-156`: while the live read fails, health is not read either.
- `monitoring_service.py:106-112`: with two evaluations at once the older one may set its alert last,
  and the rate may be taken between rows that are not consecutive.
- `history_manager.py:69-75`: when the thread ends between the check of `cancel` and its write, a job
  that is over is marked cancelling and stays so.
- `monitoring_service.py:66-76`: off and on again within one long read leaves monitoring enabled with
  no thread once the old one ends.
- `monitoring_service.py:110`, `monitoring_store.py:208-214`: the latest row is taken over all nodes,
  so rows of a sensor whose clock is behind another's are stored and never evaluated.
- `maintenance_cli.py:271`: a start of local sampling that fails with another error than
  `DeviceServiceError` is not followed by the stop.
- `radio_configuration.py:199`: the rollback of a profile does not compare what it reads back.
- `web_service.py:578-585`: recovery goes on with the ID the node had; one that the reset changed is
  refused by the next step, and the node is left with its defaults.
- `firmware_service.py:129-134`: when all answers to the end of transmission are lost, a complete
  image is reported as a failed transfer.
- `firmware_service.py:180`: changes of the configuration across a flash are reported, not an error.

## 3. Runs

| Run | Question | Bounds |
|---|---|---|
| `Restore` | "restored" is true on nodes that couple fields and on nodes that do not; on the latter the loop advances over verified values and a clean failure leaves at most the unacknowledged operation; the promise is kept, it ends | values 0..2; plans of three, two, one and no operation, an unencodable target, a blocked difference; old slot time 0 and 1; `calibration` and `sampling` coupled or not; all writes validated or one missing; 1 retry of the second backup, its queries sent at fewer than 3 messages on the line |
| `FrameLink` | resynchronisation, delivery, size limit | the three control bytes and a plain one, limit 2, bodies to 3 bytes, two frames a chunk, any noise |
| `HistoryRaces` | concurrent requests: one import at a time, rows claimed once, honest status | 2 jobs with overlapping ranges, 2 clients, 2 threads, no fault, no restart |
| `HistoryCrash` | crashes, shutdowns, database faults: rows are claimed once when a chunk is fetched again, the cursor and the counters stay true, threads end | 2 jobs, 1 client, 1 thread, 2 restarts, a losable record |
| `HistoryStranded` | violation: a job interrupted by the end of the process cannot be resumed from the page | 1 job, 1 client |
| `MonitorLive` | one polling thread, switching off ends it, the missing-data alert follows the data | 2 callers, 2 threads, intervals of 2, joins of 1, 1 database fault, 1 restart |
| `AlertRaces` | no alert without cause, a wrong alert lasts no longer than the next undisturbed evaluation | 2 nodes, one clock ahead by 1, 2 evaluators, 3 readings, imports while fewer than 2 rows exist, retention of 1 so that rows are deleted |
| `MaintenanceFlows` | success is true, failure is undone, no write to another node | all nine flows, every subset of the coupled fields changed, five fields that may be ignored |
| `FirmwareTransfer` | the sender leads by no more than the stray responses, few faults do not end a transfer, it ends | 5 blocks, numbers modulo 4, 5 and 4 tries, 1 probe, 4 faults, 3 strays |
| `QuerySession` | what stale answers can do: a series never lags by more than was abandoned, a complete history result is its own, a snapshot is whole, every transaction ends | a series that asks twice for one name, a backup of two names, 2 sensors, 4 requests, 1 retry, ranges of at most 1 record, limit of 2 |
| `ConfigPlans` | which plans can be applied and how often, an apply changes from what was shown to what was shown, a reported profile stays, a profile is whole or absent | 2 request threads, 2 nodes, values 0 and 1, 2 restorable fields, 2 previews, 3 requests |
| `Diagnostics` | the verdict over a stable sensor names the layer or fault that is wrong, over a changing one it names something that was there, "ready" was witnessed | both suites, 2 readings a series instead of five, 1 family, 2 nodes, 2 faults, 1 change, 3 losses |

Why the bounds are enough: three operations are all `apply_restore` knows, and two values apart from
0 tell old from new; a parser forgets a body when the frame ends, so frames longer than the limit,
at the limit and empty cover its cases; two threads suffice to violate that there is one (the crash
run has one, as `OneImport` is proved), and two jobs that overlap in a chunk meet every case of the
shared tables. A join of one second is shorter than a read, which may take any number of ticks, as
five seconds are in the code; the retry pause is longer than the sleep between passes, as in the
code. Two evaluations are enough to interleave every pair of their steps, and three readings to
disturb an alert and settle it. Bounds on counters: `MaxRestarts`, `MaxFaults` (times the database
raises), `ChunkFrames` (frames of one read), `MaxSent` (length of a body), `MaxTime` (readings),
`MaxRows` (rows when an import still adds one), `MaxFaults` of the transfer (losses and garblings) and
`MaxStrays`; `MaxRequests`, `MaxHeld` and `MaxNode` of `QuerySession`; `MaxPlans` and `MaxCalls`; `MaxPending` (messages left on the line when the
second backup sends a query: a pending one of the lost connection, its answer and one more);
`MaxFaults`, `MaxChanges` and `MaxLosses` of `Diagnostics`. Four requests are what a history result
closed by another's completion takes: two abandoned, an identity and the range. Two threads
meet in every pair of sections of their flows, and three requests are a preview, whatever comes in
between, and the apply. Two readings are the shortest series in which some and
not all are missing, and three losses exceed it, which the verdict of a silent sensor needs. The flows have no bound: they run once, on two values of a field and its default.
Five blocks wrap the numbers modulo 4, as the 256 of the code are wrapped by a real image. `LeadBounded`
is stated below a whole turn of the numbers: with as many strays as there are numbers TLC shows that
the bootloader takes a block for the one a turn earlier, acknowledges it and drops it. Four faults
are just enough to use up the tries of a block and those of the end of transmission.

Fairness. `RestoreTransaction` assumes weak fairness of the host's steps only: each wait has a
deadline, so one of them is always possible; the node owes nothing. `HistoryManager` assumes weak
fairness of each thread and each call under way: the operating system schedules them and every
device operation has a deadline; nobody has to make a call.
`MonitoringService` assumes the same, and that time goes on. `FirmwareTransfer` assumes it of the sender,
whose waits have deadlines, and of the arrival of packets. `QuerySession` assumes it of the host's steps, whose waits have deadlines; when
the bound on requests is reached a pending send may still raise, so the bound hides no endless loop.
`FrameLink`, `AlertEngine`, `MaintenanceFlows`, `ConfigPlans` and `Diagnostics` state no liveness.

Deadlock is not checked where the system may stop: a restore, a flow and a transfer
end, and bounded requests are used up.

## 4. Proofs

TLAPS proves for every value of the constants the theorems below, each from the assumption its module
states about its constants (`...Assumption`) and nothing else. Every invariant named here was checked
by TLC on the bounds of the runs before it was proved. Those that `PROJECT.json` lists with a property
state for every instance what a run shows for one. `MonitoringProofs` and `SerialLineProofs` hold the
theorems of two modules each, which is why `AlertEngine` and `FrameLink` give their specification names
of their own (`AlertSpec`, `FrameSpec`).

Types: `TypeCorrect` (restore, firmware), `FrameTypes`, `HistoryTypes`, `MonitoringTypes`, `AlertTypes`,
`PlansTypeCorrect`, `QueryTypes`, `FlowTypes`, `DiagnosticTypes`. `AlertTypes` includes that no two
samples have node and timestamp in common.

Guarded restore:

- `RestoredIsTarget`: a reported success is the target's configuration with no write pending.
  `Discipline` says that until something fails at most one message is on the line and what it is at
  each step, so no write is pending when the second backup begins. `Checked` carries on from there,
  over late answers, missed ones, refusals and lost connections: only queries are pending, whatever
  reading is on its way is true of the node and stays so (`Truthful`), and so is each the backup took;
  a backup equal to the target is then the node's configuration.
- `CleanFailure`, for nodes that are not `coupled`: after a failure without rollback errors at most the
  unacknowledged operation differs. `Forward` relates what differs to `applied` and the write in
  flight; `Backward` says that every write still on its way once something failed is the one in
  doubt or puts an old value back, and that a pending reading which shows an old value stays true.
  Without the last part a stale reading could confirm a rollback that did not happen.
- `EachVerified`: where the loop is about to write, the node has every earlier operation at its target.
  `Confirmed` leaves out the operation that is being read back; with `Forward` for the later ones.
- `KeepsPromiseSafely`: the initial states of the restore are those of `RestorePromise`, and every step
  is one of its steps or changes nothing the caller sees. `Writes` adds, for coupled nodes too, that a
  pending write is to an old or a new value and that at most one operation is in doubt. What is left of
  the refinement is its fairness, which TLC checks.

Framing:

- `FrameResync`, `FrameBounded`, `FrameRoundTrip`: resynchronisation, size limit and round trip, from
  `Aligned` (the parser's state at each position of the sender) and `Following` (the parser holds
  what was sent of a frame it follows from its start).

Serial sessions. The invariants build on each other, and each is needed by the next:

- `Ordered`: what is on the line is in the order of the requests, and a frame says of the request it
  carries the number of what was really sent. It is what makes "an earlier answer" meaningful: a frame
  that was read has nothing older behind it.
- `Debts`, `Series`: a write nobody waits for and a range of history nobody collects were abandoned; the
  results are of requests that follow each other, and everything still coming is younger than what a
  result took.
- `LagIsBounded`, from `Lags`: of each name no more requests are unanswered behind what is coming than
  were abandoned, but for the one awaited (`Allowed`). A send makes room for itself, an answer uses up
  one, a wait that ends without its own answer turns the request into an abandoned one.
- `SnapshotIsWhole`, from the same: with nothing abandoned there is no lag, and no result is "empty".
- `CompletedHistoryIsOwn`, from `Collected`: when the identity is its own answer, or the one abandoned
  request is the one that made it stale, nothing of an older range is coming when a range is requested
  (`NothingOlder`). From there the frames of the range are numbered on from what has been collected
  (`NumberedFrom`), whatever answers are still in front of them, until one is lost.

Firmware:

- `LeadIsBounded`: `Lag` gives the k-th message still to be read the block the sender will by then have
  reached, and bounds the distance by the strays; `Outstanding` bounds the messages. The bootloader's
  test of a byte against a number is only right while they are less than a turn apart (`NearNumbers`).
- `TriesAreEnough`: `Counted` charges each attempt to a fault or a probe of its own, except one whose
  packet or acknowledgement is still good on its way (`Unspoiled`).
- The first attempt at the type invariant failed: it bounded the attempts by the tries of a block, which
  says too little when the end of transmission has more of them. It now has the bound of each phase.

History jobs:

- `OneImport`: one import at a time. `Core` adds that whatever is alive is
  the thread the manager knows, one at most, and that whoever works on a job works on an existing row.
- `Committed`: what is behind a cursor is stored, but for lost frames. `Imported` adds to `Core` the
  chunk in hand: between fetch and commit, each of its records is stored, pending or lost
  (`HandHolds`). Without it the step that moves the cursor could not be shown to leave nothing out.
- `StatusIsHonest`: `RunningWorks` is stronger than the property, whose thread may be on its way out:
  the thread of a running row still has work or an error to record. Rows survive a restart as they are,
  and a write that fails leaves one behind, so this part is stated without both (`Undisturbed`); that a
  completed job is complete needs neither condition.
- `ProgressIsExact`: `Exact` counts, beside the committed rows, what the thread has imported, found twice
  and not yet written of its chunk.
- `ClaimedOnce`: the stored rows can be shared out among the jobs. The witness is kept by induction and
  also covers the rows of the chunk in hand (`Shares`): a row is claimed when it is inserted, by the job
  whose thread inserts it, and the cursor takes the claims of the chunk over when it moves. The property
  was first stated as a sum over the jobs, which is implied by this sharing and is weaker when ranges
  overlap.

Monitoring and alerts:

- `OnePollingThread`: never two polling threads. `Known` says that whatever thread is alive is the one
  the service knows, which `stop` keeps when it gives up waiting.
- `AlertsCaused`: no alert without cause. `Inv` adds that what a thread saw before and the row it judges
  were stored, and relates each open alert to the history of the table, which only grows, so that the
  cleanup cannot take a cause away.
- `AlertsSettle`: the first evaluation that overlaps with nothing leaves the alert as its reading says.
  `AloneIn` says of a thread that has been alone so far what each of its reads has seen: its row is
  stored, the row it judges is not older, and after the absolute rule the alert is that row's. Rows
  that older evaluations left do not matter, which is the point.

Maintenance. The steps of a flow are one list, and every invariant says what holds by the number of
steps that are left; the shape of the lists, for any sets of fields, is proved first (`Located`).

- `OnlyTheConfirmedNode`: `NodeKnown` says that a node with another ID is only met between the reset
  and the step that confirms the ID, where every step looks and none writes.
- `SuccessIsWarranted`: `Accomplished` says what each flow has established with so many steps left. A
  readback establishes only the field it compares, so a profile, whose second write may disturb the
  first field, rests on the comparison of both at its end, and a recovery on its last backup.
- `FailuresAreUndone`: `Revertible` is the bargain of a validation (the field is as it was, or the clause
  still has to write and compare it), `RolledBack` that of a profile, whose clause grows with the fields
  begun. The proof showed the property false as it was first stated: on a node that changes one of the
  two profile fields when it stores the other, the rollback can undo what it has just restored, or be
  done with a field it never noted. The run had not coupled these two fields. It is now stated for
  nodes that do not couple them (`Uncoupled`).

Diagnostics, for any number of readings a series:

- `NamedCauseWasThere`, from `Classified` (what is said, rule by rule), `Readings` (every reading that
  came is of a sensor that answered at some time of the run without the faults that fail its query,
  and every one that did not has a reason), `Marks` (the same of the adapter, the passive listen and the
  history check) and `Losses`: of a sensor that answers all the time, as many answers are lost as
  readings are missing, and one more for the probe, so a sensor called silent was silent, or more
  answers were lost than a series has.
- `ReadyIsEarned`, from the same and `LastThere`: the last health reading, the last query of the
  configuration or one live reading is the witness for each fault.
- `StableSituationIsNamed`, from `Steady`: as long as nothing changes and nothing is lost, every reading
  is what its query brings of that one situation, a signal was heard only of a bootloader or noise, and
  the probe brought one of `Heard`. Of a sensor that answers, the two lists of cases, of the rules and
  of `FirstFault`, then agree line by line; of one that does not, the rules say one of `Named`. A
  bootloader has three names there, because the passive listen may miss it and then the probe decides
  between a faulty line and a dead sensor: the code says itself that hearing nothing does not prove
  its absence (`deep_diagnostics.py:93`).

Web service:

- `AppliesWhatWasShown`, from `Fresh`: as long as the node of a preview is attached, its restorable fields
  have the values shown as current but for those a restore has written since, over profiles, their
  rollbacks and credentials. A restore itself looks at the present configuration only, never at the one
  that was shown; that it starts from it is what the invariant adds.
- `LatestAndOnce`: `Desk` says that a plan belongs to one thread until it is in the dictionary and again
  once it is out of it, and that no plan in the dictionary or being stored is older than another.
- `ReportedProfileStays`: `Stays` says that every request which may still write the profile or take it
  back was under way when it was reported.
- `ProfileWholeOrNot`: `Whole` says that, while no two profile requests overlapped and no rollback went
  wrong, the one under way has seen the original fields and has changed only those it has noted.

Only model-checked: liveness (`Terminates`, `ThreadsEnd`, `DisabledStops`, `MissingFollows`,
`TransferEnds`, `Ended`) and with it the fairness of `RestorePromise`, which are beyond the provers used
here. Every invariant and every safety property of a step that a run checks is a theorem.

## 5. Not modelled, and the plan

Next: the two gaps below. Liveness stays with TLC.

Known gaps in what is modelled: the retention cleanup of records a history job imported
(`monitoring_store.py:300`) is not in `HistoryManager`, whose cursor would pass over rows that are gone;
the missing-data alert of a sensor that was swapped (`alert_engine.py:55`) is not told apart by node in
`MonitoringService`.

Not planned: the decoders (pure functions of one body, tested against tables of captured frames), the
parsing of arguments and the output of the command line tools, the advice, statistics and CSV report of
the diagnostics, the browser page beyond the button it offers for a job, and the tokens and request
models of the web service.
