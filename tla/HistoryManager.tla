---------------------------- MODULE HistoryManager ----------------------------
(***************************************************************************)
(* tools/history_manager.py over tools/monitoring_store.py: import jobs    *)
(* whose rows live in SQLite, one background thread that copies a job's    *)
(* range from the sensor chunk by chunk, web requests that create, resume  *)
(* and cancel jobs in threads of their own, and restarts of the process,   *)
(* after which only the rows and the imported records remain.              *)
(***************************************************************************)
EXTENDS Naturals, FiniteSets

CONSTANTS
  Job, Client, Thread,
  First, End,     \* start_epoch and end_epoch of each job
  ChunkSeconds,   \* chunk_seconds
  Recorded,       \* epochs at which the sensor holds a record
  Storable,       \* those whose record insert_record has a table for
  Losable,        \* those whose frame may get lost on the line, unnoticed
  NoJob,          \* None
  StoreFaults,    \* may a write to the database raise?
  MaxRestarts     \* bound: crashes and shutdowns of the process

ASSUME HistoryAssumption ==
  /\ First \in [Job -> Nat] /\ End \in [Job -> Nat]
  /\ \A j \in Job : First[j] <= End[j]
  /\ ChunkSeconds \in Nat \ {0}
  /\ Recorded \subseteq Nat /\ IsFiniteSet(Recorded) /\ Storable \subseteq Recorded
  /\ Losable \subseteq Recorded
  /\ NoJob \notin Job
  /\ StoreFaults \in BOOLEAN
  /\ MaxRestarts \in Nat

VARIABLES
  jobs,      \* the history_jobs table
  stored,    \* epochs with a row in the samples and health tables
  active,    \* _active_job_id
  cancel,    \* the event _cancel
  thread,    \* _thread: the last thread started, or the set of none
  worker,    \* per thread: where _run is, its job and the chunk in hand
  client,    \* per web request thread: the call it is in
  stopping,  \* has the shutdown of the process begun?
  restarts   \* bound counter

process == <<active, cancel, thread, worker, client, stopping, restarts>>
vars == <<jobs, stored, active, cancel, thread, worker, client, stopping,
          restarts>>

Statuses == {"none", "queued", "running", "cancelling", "paused", "complete"}

NoRow == [status |-> "none", cursor |-> 0, chunks |-> 0, received |-> 0,
          imported |-> 0, duplicates |-> 0]
Dead  == [pc |-> "dead", job |-> NoJob, pending |-> {}, imported |-> 0,
          duplicates |-> 0]
Idle  == [pc |-> "idle", job |-> NoJob]

TypeOK ==
  /\ jobs \in [Job -> [status : Statuses, cursor : Nat, chunks : Nat,
                       received : Nat, imported : Nat, duplicates : Nat]]
  /\ stored \subseteq Storable
  /\ active \in Job \cup {NoJob}
  /\ cancel \in BOOLEAN
  /\ thread \in SUBSET Thread
  /\ worker \in [Thread -> [pc : {"begin", "test", "fetch", "insert", "fail",
                                  "release", "exiting", "dead"},
                            job : Job \cup {NoJob}, pending : SUBSET Recorded,
                            imported : Nat, duplicates : Nat]]
  /\ client \in [Client -> [pc : {"idle", "read", "start", "set", "mark"},
                            job : Job \cup {NoJob}]]
  /\ stopping \in BOOLEAN
  /\ restarts \in 0 .. MaxRestarts

Init ==
  /\ jobs = [j \in Job |-> NoRow]
  /\ stored = {}
  /\ active = NoJob /\ cancel = FALSE /\ thread = {}
  /\ worker = [t \in Thread |-> Dead]
  /\ client = [c \in Client |-> Idle]
  /\ stopping = FALSE /\ restarts = 0

Alive(t) == worker[t].pc # "dead"
\* Mutant: the job id, which is reset a moment before the thread ends, is
\* taken for the thread.
ThreadAlive_ByJobId == active # NoJob

ThreadAlive == \E t \in thread : Alive(t)

-----------------------------------------------------------------------------
(* Web requests. *)

SetStatus(j, s) == jobs' = [jobs EXCEPT ![j].status = s]

Goto(c, pc) == client' = [client EXCEPT ![c].pc = pc]
Return(c)   == client' = [client EXCEPT ![c] = Idle]

\* create: the row is inserted first, then resumed like any other.
Create(c, j) ==
  /\ client[c] = Idle /\ ~ stopping
  /\ jobs[j].status = "none"
  /\ jobs' = [jobs EXCEPT ![j] = [NoRow EXCEPT !.status = "queued", !.cursor = First[j]]]
  /\ client' = [client EXCEPT ![c] = [pc |-> "read", job |-> j]]
  /\ UNCHANGED <<stored, active, cancel, thread, worker, stopping, restarts>>

CallResume(c, j) ==
  /\ client[c] = Idle /\ ~ stopping
  /\ jobs[j].status # "none"
  /\ client' = [client EXCEPT ![c] = [pc |-> "read", job |-> j]]
  /\ UNCHANGED <<jobs, stored, active, cancel, thread, worker, stopping, restarts>>

\* The row is read without the lock.  The join of a finishing thread that may
\* follow is bounded by one second and leaves no trace.
ReadJob(c) ==
  /\ client[c].pc = "read"
  /\ IF jobs[client[c].job].status = "complete" THEN Return(c) ELSE Goto(c, "start")
  /\ UNCHANGED <<jobs, stored, active, cancel, thread, worker, stopping, restarts>>

\* Under the lock: a live thread, of this job or of another, ends the call.
FindsThreadAlive(c) ==
  /\ client[c].pc = "start"
  /\ ThreadAlive
  /\ Return(c)
  /\ UNCHANGED <<jobs, stored, active, cancel, thread, worker, stopping, restarts>>

StartThread(c) ==
  /\ client[c].pc = "start"
  /\ ~ ThreadAlive
  /\ cancel' = FALSE
  /\ active' = client[c].job
  /\ SetStatus(client[c].job, "queued")
  /\ \E t \in Thread :
       /\ ~ Alive(t)
       /\ thread' = {t}
       /\ worker' = [worker EXCEPT ![t] = [Dead EXCEPT !.pc = "begin", !.job = client[c].job]]
  /\ Return(c)
  /\ UNCHANGED <<stored, stopping, restarts>>

\* The write of the status raises after the job was made the active one.
StartFails(c) ==
  /\ StoreFaults
  /\ client[c].pc = "start"
  /\ ~ ThreadAlive
  /\ cancel' = FALSE
  /\ active' = client[c].job
  /\ Return(c)
  /\ UNCHANGED <<jobs, stored, thread, worker, stopping, restarts>>

\* cancel: the check, the event and the row, none of it under the lock.
CallCancel(c, j) ==
  /\ client[c] = Idle /\ ~ stopping
  /\ active = j
  /\ client' = [client EXCEPT ![c] = [pc |-> "set", job |-> j]]
  /\ UNCHANGED <<jobs, stored, active, cancel, thread, worker, stopping, restarts>>

SetCancel(c) ==
  /\ client[c].pc = "set"
  /\ cancel' = TRUE
  /\ Goto(c, "mark")
  /\ UNCHANGED <<jobs, stored, active, thread, worker, stopping, restarts>>

MarkCancelling(c) ==
  /\ client[c].pc = "mark"
  /\ SetStatus(client[c].job, "cancelling")
  /\ Return(c)
  /\ UNCHANGED <<stored, active, cancel, thread, worker, stopping, restarts>>

MarkFails(c) ==
  /\ StoreFaults
  /\ client[c].pc = "mark"
  /\ Return(c)
  /\ UNCHANGED <<jobs, stored, active, cancel, thread, worker, stopping, restarts>>

CallReturns(c) == ReadJob(c) \/ FindsThreadAlive(c) \/ StartThread(c)
                    \/ StartFails(c) \/ SetCancel(c) \/ MarkCancelling(c)
                    \/ MarkFails(c)

ClientStep(c) ==
  \/ \E j \in Job : Create(c, j) \/ CallResume(c, j) \/ CallCancel(c, j)
  \/ CallReturns(c)

-----------------------------------------------------------------------------
(* The thread: _run. *)

At(t, pc) == worker[t].pc = pc
Move(t, pc) == worker' = [worker EXCEPT ![t].pc = pc]

ChunkEnd(j) == IF jobs[j].cursor + ChunkSeconds - 1 <= End[j]
               THEN jobs[j].cursor + ChunkSeconds - 1 ELSE End[j]

Span(from, to) == {e \in Recorded : from <= e /\ e <= to}

Begin(t) ==
  /\ At(t, "begin")
  /\ SetStatus(worker[t].job, "running")
  /\ Move(t, "test")
  /\ UNCHANGED <<stored, active, cancel, thread, client, stopping, restarts>>

\* The write raises outside the try: the thread dies, the job stays active.
BeginFails(t) ==
  /\ StoreFaults
  /\ At(t, "begin")
  /\ worker' = [worker EXCEPT ![t] = Dead]
  /\ UNCHANGED <<jobs, stored, active, cancel, thread, client, stopping, restarts>>

\* Mutant: `while cursor < end`.
Finish_Early(t) ==
  /\ At(t, "test")
  /\ jobs[worker[t].job].cursor >= End[worker[t].job]
  /\ SetStatus(worker[t].job, "complete")
  /\ Move(t, "release")
  /\ UNCHANGED <<stored, active, cancel, thread, client, stopping, restarts>>

Finish(t) ==
  /\ At(t, "test")
  /\ jobs[worker[t].job].cursor > End[worker[t].job]
  /\ SetStatus(worker[t].job, "complete")
  /\ Move(t, "release")
  /\ UNCHANGED <<stored, active, cancel, thread, client, stopping, restarts>>

Pause(t) ==
  /\ At(t, "test")
  /\ jobs[worker[t].job].cursor <= End[worker[t].job]
  /\ cancel
  /\ SetStatus(worker[t].job, "paused")
  /\ Move(t, "release")
  /\ UNCHANGED <<stored, active, cancel, thread, client, stopping, restarts>>

NextChunk(t) ==
  /\ At(t, "test")
  /\ jobs[worker[t].job].cursor <= End[worker[t].job]
  /\ ~ cancel
  /\ Move(t, "fetch")
  /\ UNCHANGED <<jobs, stored, active, cancel, thread, client, stopping, restarts>>

\* Mutant: the counters of the chunk are initialised once per job.
Fetch_KeepsCounts(t) ==
  /\ At(t, "fetch")
  /\ \E lost \in SUBSET Losable :
       LET j == worker[t].job IN
       worker' = [worker EXCEPT ![t] =
                    [@ EXCEPT !.pc = "insert",
                              !.pending = Span(jobs[j].cursor, ChunkEnd(j)) \ lost]]
  /\ UNCHANGED <<jobs, stored, active, cancel, thread, client, stopping, restarts>>

\* device.history answers "ok" and complete: the completion marker arrived.
\* Nothing in the stream tells that a record before it was lost.
Fetch(t) ==
  /\ At(t, "fetch")
  /\ \E lost \in SUBSET Losable :
       LET j == worker[t].job IN
       worker' = [worker EXCEPT ![t] =
                    [@ EXCEPT !.pc = "insert",
                              !.pending = Span(jobs[j].cursor, ChunkEnd(j)) \ lost,
                              !.imported = 0, !.duplicates = 0]]
  /\ UNCHANGED <<jobs, stored, active, cancel, thread, client, stopping, restarts>>

\* It raises, times out, meets a limit or stays incomplete; or a write to the
\* database raises: of a record, of the chunk, of the status at the end.
Fail(t) ==
  /\ \/ At(t, "fetch")
     \/ StoreFaults /\ At(t, "insert")
     \/ /\ StoreFaults /\ At(t, "test")
        /\ cancel \/ jobs[worker[t].job].cursor > End[worker[t].job]
  /\ Move(t, "fail")
  /\ UNCHANGED <<jobs, stored, active, cancel, thread, client, stopping, restarts>>

\* Mutant: the failed chunk is tried again for as long as it fails.
PauseWithError_Retries(t) ==
  /\ At(t, "fail")
  /\ Move(t, "test")
  /\ UNCHANGED <<jobs, stored, active, cancel, thread, client, stopping, restarts>>

PauseWithError(t) ==
  /\ At(t, "fail")
  /\ SetStatus(worker[t].job, "paused")
  /\ Move(t, "release")
  /\ UNCHANGED <<stored, active, cancel, thread, client, stopping, restarts>>

\* The handler's own write raises too; the finally clause still runs.
PauseFails(t) ==
  /\ StoreFaults
  /\ At(t, "fail")
  /\ Move(t, "release")
  /\ UNCHANGED <<jobs, stored, active, cancel, thread, client, stopping, restarts>>

\* insert_record: INSERT OR IGNORE on (node_id, timestamp); what it does not
\* insert is counted as a duplicate.
Counted(w, e, new) ==
  [w EXCEPT !.pending = w.pending \ {e},
            !.imported = w.imported + (IF new THEN 1 ELSE 0),
            !.duplicates = w.duplicates + (IF new THEN 0 ELSE 1)]

\* Mutant: what the insert ignored is counted as imported.
Insert_CountsIgnored(t) ==
  /\ At(t, "insert")
  /\ \E e \in worker[t].pending :
       /\ stored' = stored \cup ({e} \cap Storable)
       /\ worker' = [worker EXCEPT ![t] = Counted(worker[t], e, TRUE)]
  /\ UNCHANGED <<jobs, active, cancel, thread, client, stopping, restarts>>

Insert(t) ==
  /\ At(t, "insert")
  /\ \E e \in worker[t].pending :
       /\ stored' = stored \cup ({e} \cap Storable)
       /\ worker' = [worker EXCEPT ![t] = Counted(worker[t], e, e \in Storable \ stored)]
  /\ UNCHANGED <<jobs, active, cancel, thread, client, stopping, restarts>>

\* The row after a chunk, with the counters of the chunk in hand.
Advanced(row, next, w) ==
  [row EXCEPT !.cursor = next, !.chunks = row.chunks + 1,
              !.received = row.received + w.imported + w.duplicates,
              !.imported = row.imported + w.imported,
              !.duplicates = row.duplicates + w.duplicates]

\* Mutant: the cursor is written while records of the chunk are left.
Commit_BeforeRows(t) ==
  /\ At(t, "insert")
  /\ LET j == worker[t].job IN
     jobs' = [jobs EXCEPT ![j] = Advanced(jobs[j], ChunkEnd(j) + 1, worker[t])]
  /\ Move(t, "test")
  /\ UNCHANGED <<stored, active, cancel, thread, client, stopping, restarts>>

Commit(t) ==
  /\ At(t, "insert") /\ worker[t].pending = {}
  /\ LET j == worker[t].job IN
     jobs' = [jobs EXCEPT ![j] = Advanced(jobs[j], ChunkEnd(j) + 1, worker[t])]
  /\ Move(t, "test")
  /\ UNCHANGED <<stored, active, cancel, thread, client, stopping, restarts>>

\* The finally clause; the thread is alive for a moment longer.
Release(t) ==
  /\ At(t, "release")
  /\ active' = NoJob
  /\ Move(t, "exiting")
  /\ UNCHANGED <<jobs, stored, cancel, thread, client, stopping, restarts>>

Exit(t) ==
  /\ At(t, "exiting")
  /\ worker' = [worker EXCEPT ![t] = Dead]
  /\ UNCHANGED <<jobs, stored, active, cancel, thread, client, stopping, restarts>>

WorkerStep(t) ==
  \/ Begin(t) \/ BeginFails(t) \/ Finish(t) \/ Pause(t) \/ NextChunk(t)
  \/ Fetch(t) \/ Fail(t) \/ PauseWithError(t) \/ PauseFails(t)
  \/ Insert(t) \/ Commit(t)
  \/ Release(t) \/ Exit(t)

-----------------------------------------------------------------------------
(* The process. *)

\* stop(), at the end of the application's lifespan.
Stop ==
  /\ ~ stopping /\ restarts < MaxRestarts
  /\ \A c \in Client : client[c] = Idle
  /\ stopping' = TRUE /\ cancel' = TRUE
  /\ UNCHANGED <<jobs, stored, active, thread, worker, client, restarts>>

\* The process ends, killed or at most five seconds after stop(), and starts
\* again on the same database.
Restart ==
  /\ restarts < MaxRestarts
  /\ restarts' = restarts + 1
  /\ active' = NoJob /\ cancel' = FALSE /\ thread' = {}
  /\ worker' = [t \in Thread |-> Dead]
  /\ client' = [c \in Client |-> Idle]
  /\ stopping' = FALSE
  /\ UNCHANGED <<jobs, stored>>

Next ==
  \/ \E c \in Client : ClientStep(c)
  \/ \E t \in Thread : WorkerStep(t)
  \/ Stop \/ Restart

\* Threads run until they end, calls return; nobody has to make a call.
Spec == /\ Init /\ [][Next]_vars
        /\ \A t \in Thread : WF_vars(WorkerStep(t))
        /\ \A c \in Client : WF_vars(CallReturns(c))

-----------------------------------------------------------------------------
(* Properties. *)

\* Two imports never run at once, although calls to resume from several web
\* threads read the row, check the thread and start one in separate steps.
OneWorker == Cardinality({t \in Thread : Alive(t)}) <= 1

\* docs/history-protocol.md: the cursor moves only over what is imported.
\* Every storable record behind a job's cursor that no lost frame carried is
\* in the database: through failures in the middle of a chunk, pauses,
\* restarts and overlapping jobs.
CommittedStored ==
  \A j \in Job : \A e \in Storable \ Losable :
    First[j] <= e /\ e < jobs[j].cursor => e \in stored

Behind(j) == {e \in Recorded : First[j] <= e /\ e < jobs[j].cursor}

\* The progress shown for a job is exact: every record behind the cursor that
\* was not lost was received once, and was counted either as imported or as a
\* duplicate, even when its chunk was fetched several times.
ProgressExact ==
  \A j \in Job :
    jobs[j].status # "none" =>
      /\ jobs[j].received \in Cardinality(Behind(j) \ Losable) .. Cardinality(Behind(j))
      /\ jobs[j].received = jobs[j].imported + jobs[j].duplicates

\* No stored row is claimed as imported by two chunks or two jobs, also when
\* jobs overlap or a chunk whose import failed half-way is fetched again: the
\* rows can be shared out so that every job gets as many from behind its cursor
\* as it says it has imported.
ClaimedBehind(claim, j) ==
  {e \in stored : claim[e] = j /\ First[j] <= e /\ e < jobs[j].cursor}

RowsClaimedOnce ==
  \E claim \in [stored -> Job] :
    \A j \in Job : jobs[j].imported <= Cardinality(ClaimedBehind(claim, j))

\* A job is left "running" only while its thread is alive and works on it,
\* and "complete" stays true of it, whatever requests race with the end of
\* the thread.  (Without restarts, which leave the rows as they are, and
\* without database faults.)
StatusHonest ==
  \A j \in Job :
    /\ jobs[j].status = "running" => \E t \in Thread : Alive(t) /\ worker[t].job = j
    /\ jobs[j].status = "complete" => jobs[j].cursor > End[j]

\* Every thread that is started ends, so a later resume can start another.
ThreadsEnd == \A t \in Thread : Alive(t) ~> ~ Alive(t)

\* web/app.js offers Pause for a queued or running job, Resume for any other
\* one that is not complete.
OffersResume(j) == jobs[j].status \notin {"none", "queued", "running", "complete"}

\* docs/web-app.md: "Resume continues at the unchanged cursor".  Read as: an
\* incomplete job that no thread and no call is working on can be resumed
\* from the page.
UnfinishedIsResumable ==
  (\A t \in Thread : ~ Alive(t)) /\ (\A c \in Client : client[c] = Idle)
    => \A j \in Job :
         jobs[j].status \notin {"none", "complete"} => OffersResume(j)
=============================================================================
