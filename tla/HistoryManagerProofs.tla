------------------------- MODULE HistoryManagerProofs -------------------------
(***************************************************************************)
(* Proofs about HistoryManager for every set of jobs, clients and threads, *)
(* every range, chunk size, record set and number of restarts.             *)
(***************************************************************************)
EXTENDS HistoryManager, FiniteSetTheorems, TLAPS

\* What is alive is the thread the manager knows, and it knows one at most.
OnlyKnown ==
  /\ thread = {} \/ \E t \in Thread : thread = {t}
  /\ \A t \in Thread : Alive(t) => t \in thread

\* Whoever works on a job, in a thread or in a call, works on an existing row.
RowsExist ==
  /\ active \in Job => jobs[active].status # "none"
  /\ \A t \in Thread : Alive(t) => worker[t].job \in Job /\ jobs[worker[t].job].status # "none"
  /\ \A c \in Client : client[c].pc # "idle"
       => client[c].job \in Job /\ jobs[client[c].job].status # "none"

\* The chunk in hand of a thread is, record by record, stored, pending or lost.
HandHolds(t) ==
  \A e \in Storable \ Losable :
    jobs[worker[t].job].cursor <= e /\ e <= ChunkEnd(worker[t].job)
      => e \in stored \cup worker[t].pending

ChunkInHand == \A t \in Thread : At(t, "insert") => HandHolds(t)

USE HistoryAssumption DEF HistoryAssumption

-----------------------------------------------------------------------------
(* Types. *)

\* The types of the rows, the threads and the calls, apart.
Row == [status : Statuses, cursor : Nat, chunks : Nat, received : Nat,
        imported : Nat, duplicates : Nat]
WorkerState == [pc : {"begin", "test", "fetch", "insert", "fail", "release",
                      "exiting", "dead"},
                job : Job \cup {NoJob}, pending : SUBSET Recorded,
                imported : Nat, duplicates : Nat]
ClientState == [pc : {"idle", "read", "start", "set", "mark"}, job : Job \cup {NoJob}]

LEMMA TypeParts ==
  TypeOK <=> /\ jobs \in [Job -> Row] /\ stored \subseteq Storable
             /\ active \in Job \cup {NoJob} /\ cancel \in BOOLEAN
             /\ thread \in SUBSET Thread /\ worker \in [Thread -> WorkerState]
             /\ client \in [Client -> ClientState]
             /\ stopping \in BOOLEAN /\ restarts \in 0 .. MaxRestarts
BY DEF TypeOK, Row, WorkerState, ClientState

LEMMA TypePartsNext ==
  ASSUME jobs' \in [Job -> Row], stored' \subseteq Storable,
         active' \in Job \cup {NoJob}, cancel' \in BOOLEAN,
         thread' \in SUBSET Thread, worker' \in [Thread -> WorkerState],
         client' \in [Client -> ClientState],
         stopping' \in BOOLEAN, restarts' \in 0 .. MaxRestarts
  PROVE  TypeOK'
BY DEF TypeOK, Row, WorkerState, ClientState

LEMMA Constants ==
  /\ NoRow \in Row /\ Dead \in WorkerState /\ Idle \in ClientState
  /\ \A j \in Job : [NoRow EXCEPT !.status = "queued", !.cursor = First[j]] \in Row
  /\ \A j \in Job : [Dead EXCEPT !.pc = "begin", !.job = j] \in WorkerState
BY DEF Dead, Idle, NoRow, WorkerState, ClientState, Row, Statuses

LEMMA TypeInit == Init => TypeOK
<1>1. 0 \in 0 .. MaxRestarts
  OBVIOUS
<1> QED
  BY <1>1, TypeParts, Constants DEF Init

LEMMA StatusType ==
  ASSUME TypeOK, NEW j \in Job, NEW s \in Statuses, SetStatus(j, s)
  PROVE  jobs' \in [Job -> Row]
BY DEF TypeOK, SetStatus, Row

LEMMA ClientType ==
  ASSUME TypeOK, NEW c \in Client
  PROVE  /\ \A pc \in {"read", "start", "set", "mark"} : Goto(c, pc) => client' \in [Client -> ClientState]
         /\ Return(c) => client' \in [Client -> ClientState]
<1>1. client \in [Client -> ClientState] /\ Idle \in ClientState
  BY TypeParts, Constants
<1>2. ASSUME NEW pc \in {"read", "start", "set", "mark"}, Goto(c, pc)
      PROVE  client' \in [Client -> ClientState]
  <2>1. [client[c] EXCEPT !.pc = pc] \in ClientState
    BY <1>1 DEF ClientState
  <2> QED
    BY <1>1, <1>2, <2>1 DEF Goto
<1>3. ASSUME Return(c) PROVE client' \in [Client -> ClientState]
  BY <1>1, <1>3 DEF Return
<1> QED
  BY <1>2, <1>3

LEMMA MoveType ==
  ASSUME TypeOK, NEW t \in Thread,
         NEW pc \in {"begin", "test", "fetch", "insert", "fail", "release", "exiting"},
         Move(t, pc)
  PROVE  worker' \in [Thread -> WorkerState]
<1>1. worker \in [Thread -> WorkerState]
  BY TypeParts
<1>2. [worker[t] EXCEPT !.pc = pc] \in WorkerState
  BY <1>1 DEF WorkerState
<1> QED
  BY <1>1, <1>2 DEF Move

-----------------------------------------------------------------------------
(* What the steps do to the rows and to the threads. *)

\* A status written in one row leaves the cursors and removes no row.
RowsKept ==
  /\ jobs' \in [Job -> Row]
  /\ \A i \in Job : /\ jobs'[i].cursor = jobs[i].cursor
                    /\ jobs[i].status # "none" => jobs'[i].status # "none"

LEMMA StatusEffect ==
  ASSUME TypeOK
  PROVE  \A j \in Job : \A s \in Statuses \ {"none"} : SetStatus(j, s) => RowsKept
<1> SUFFICES ASSUME NEW j \in Job, NEW s \in Statuses \ {"none"}, SetStatus(j, s)
             PROVE  RowsKept
  OBVIOUS
<1>1. jobs' \in [Job -> Row]
  BY StatusType
<1> QED
  BY <1>1 DEF RowsKept, TypeOK, SetStatus

Core == TypeOK /\ OnlyKnown /\ RowsExist

\* No row disappears, and whoever starts to work on a job found its row.
LEMMA RowsStable ==
  ASSUME RowsExist,
         \A j \in Job : jobs[j].status # "none" => jobs'[j].status # "none",
         active' \in Job => jobs'[active'].status # "none",
         \A t \in Thread : worker'[t].pc # "dead" =>
           \/ worker[t].pc # "dead" /\ worker'[t].job = worker[t].job
           \/ worker'[t].job \in Job /\ jobs'[worker'[t].job].status # "none",
         \A c \in Client : client'[c].pc # "idle" =>
           \/ client[c].pc # "idle" /\ client'[c].job = client[c].job
           \/ client'[c].job \in Job /\ jobs'[client'[c].job].status # "none"
  PROVE  RowsExist'
BY DEF RowsExist, Alive

\* A call changes no thread but the one it starts, and no cursor but the one
\* of the row it creates.
CallEffect ==
  /\ stored' = stored
  /\ \A t \in Thread : worker'[t] = worker[t] \/ worker'[t].pc = "begin"
  /\ \A j \in Job : \/ jobs'[j].cursor = jobs[j].cursor
                    \/ jobs[j].status = "none" /\ jobs'[j].cursor = First[j]

LEMMA CreateKeeps ==
  ASSUME Core, NEW c \in Client, NEW j \in Job, Create(c, j)
  PROVE  Core' /\ CallEffect
<1> DEFINE row == [NoRow EXCEPT !.status = "queued", !.cursor = First[j]]
<1>1. /\ jobs \in [Job -> Row] /\ worker \in [Thread -> WorkerState]
      /\ client \in [Client -> ClientState]
  BY TypeParts DEF Core
<1>2. row \in Row /\ row.status = "queued" /\ row.cursor = First[j]
  BY Constants DEF NoRow
<1>3. /\ jobs' = [jobs EXCEPT ![j] = row] /\ jobs[j].status = "none"
      /\ client' = [client EXCEPT ![c] = [pc |-> "read", job |-> j]]
      /\ UNCHANGED <<stored, active, cancel, thread, worker, stopping, restarts>>
  BY DEF Create
<1> HIDE DEF row
<1>4. [pc |-> "read", job |-> j] \in ClientState
  BY DEF ClientState
<1>5. TypeOK'
  <2>1. /\ stored' \subseteq Storable /\ active' \in Job \cup {NoJob}
        /\ cancel' \in BOOLEAN /\ thread' \in SUBSET Thread
        /\ worker' \in [Thread -> WorkerState]
        /\ stopping' \in BOOLEAN /\ restarts' \in 0 .. MaxRestarts
    BY <1>3, TypeParts DEF Core
  <2>2. jobs' \in [Job -> Row] /\ client' \in [Client -> ClientState]
    BY <1>1, <1>2, <1>3, <1>4
  <2> QED
    BY <2>1, <2>2, TypePartsNext
<1>6. OnlyKnown'
  BY <1>3 DEF Core, OnlyKnown, Alive
<1>7. \A i \in Job : jobs[i].status # "none" => jobs'[i].status # "none"
  BY <1>1, <1>2, <1>3
<1>8. jobs'[j].status # "none"
  BY <1>1, <1>2, <1>3
<1>9. \A d \in Client : client'[d].pc # "idle" =>
         \/ client[d].pc # "idle" /\ client'[d].job = client[d].job
         \/ client'[d].job \in Job /\ jobs'[client'[d].job].status # "none"
  BY <1>1, <1>3, <1>8
<1>10. RowsExist'
  BY <1>3, <1>7, <1>9, RowsStable DEF Core, RowsExist
<1> QED
  BY <1>1, <1>2, <1>3, <1>5, <1>6, <1>10 DEF Core, CallEffect

LEMMA CallKeeps ==
  ASSUME Core, NEW c \in Client, NEW j \in Job,
         CallResume(c, j) \/ CallCancel(c, j)
  PROVE  Core' /\ CallEffect
<1>1. /\ jobs \in [Job -> Row] /\ worker \in [Thread -> WorkerState]
      /\ client \in [Client -> ClientState]
  BY TypeParts DEF Core
<1>2. PICK pc \in {"read", "set"} :
        client' = [client EXCEPT ![c] = [pc |-> pc, job |-> j]]
  BY DEF CallResume, CallCancel
<1>3. UNCHANGED <<jobs, stored, active, cancel, thread, worker, stopping, restarts>>
  BY DEF CallResume, CallCancel
<1>4. [pc |-> pc, job |-> j] \in ClientState
  BY DEF ClientState
<1>5. jobs[j].status # "none"
  BY DEF CallResume, CallCancel, Core, RowsExist
<1>6. TypeOK'
  <2>1. /\ stored' \subseteq Storable /\ active' \in Job \cup {NoJob}
        /\ cancel' \in BOOLEAN /\ thread' \in SUBSET Thread
        /\ worker' \in [Thread -> WorkerState]
        /\ stopping' \in BOOLEAN /\ restarts' \in 0 .. MaxRestarts
    BY <1>3, TypeParts DEF Core
  <2>2. jobs' \in [Job -> Row] /\ client' \in [Client -> ClientState]
    BY <1>1, <1>2, <1>3, <1>4
  <2> QED
    BY <2>1, <2>2, TypePartsNext
<1>7. OnlyKnown'
  BY <1>3 DEF Core, OnlyKnown, Alive
<1>8. \A d \in Client : client'[d].pc # "idle" =>
         \/ client[d].pc # "idle" /\ client'[d].job = client[d].job
         \/ client'[d].job \in Job /\ jobs'[client'[d].job].status # "none"
  BY <1>1, <1>2, <1>3, <1>5
<1>9. RowsExist'
  BY <1>3, <1>8, RowsStable DEF Core, RowsExist
<1> QED
  BY <1>3, <1>6, <1>7, <1>9 DEF Core, CallEffect

LEMMA ClientMoves ==
  ASSUME TypeOK, NEW c \in Client, client[c].pc # "idle",
         (\E pc \in {"read", "start", "set", "mark"} : Goto(c, pc)) \/ Return(c)
  PROVE  /\ client' \in [Client -> ClientState]
         /\ \A d \in Client : client'[d].pc # "idle"
              => client[d].pc # "idle" /\ client'[d].job = client[d].job
<1>1. client \in [Client -> ClientState] /\ Idle \in ClientState /\ Idle.pc = "idle"
  BY TypeParts, Constants DEF Idle
<1>2. client' \in [Client -> ClientState]
  BY ClientType
<1>3. CASE Return(c)
  BY <1>1, <1>2, <1>3 DEF Return
<1>4. ASSUME NEW pc \in {"read", "start", "set", "mark"}, Goto(c, pc)
      PROVE  \A d \in Client : client'[d].pc # "idle"
               => client[d].pc # "idle" /\ client'[d].job = client[d].job
  <2>1. [client[c] EXCEPT !.pc = pc].job = client[c].job
    BY <1>1 DEF ClientState
  <2> QED
    BY <1>1, <1>4, <2>1 DEF Goto
<1> QED
  BY <1>2, <1>3, <1>4

LEMMA ReturnKeeps ==
  ASSUME Core, NEW c \in Client,
         \/ ReadJob(c) \/ FindsThreadAlive(c) \/ StartFails(c)
         \/ SetCancel(c) \/ MarkCancelling(c) \/ MarkFails(c)
  PROVE  Core' /\ CallEffect
<1>0. TypeOK /\ OnlyKnown /\ RowsExist
  BY DEF Core
<1>1. client[c].pc # "idle"
  BY DEF ReadJob, FindsThreadAlive, StartFails, SetCancel, MarkCancelling, MarkFails
<1>2. client[c].job \in Job /\ jobs[client[c].job].status # "none"
  BY <1>0, <1>1 DEF RowsExist
<1>3. (\E pc \in {"read", "start", "set", "mark"} : Goto(c, pc)) \/ Return(c)
  BY DEF ReadJob, FindsThreadAlive, StartFails, SetCancel, MarkCancelling, MarkFails
<1>4. RowsKept
  <2>1. CASE MarkCancelling(c)
    <3>1. SetStatus(client[c].job, "cancelling") /\ "cancelling" \in Statuses \ {"none"}
      BY <2>1 DEF MarkCancelling, Statuses
    <3> QED
      BY <1>0, <1>2, <3>1, StatusEffect
  <2>2. CASE ~ MarkCancelling(c)
    <3>1. jobs' = jobs
      BY <2>2 DEF ReadJob, FindsThreadAlive, StartFails, SetCancel, MarkFails
    <3> QED
      BY <1>0, <3>1, TypeParts DEF RowsKept
  <2> QED
    BY <2>1, <2>2
<1>5. /\ UNCHANGED <<stored, thread, worker, stopping, restarts>>
      /\ cancel' \in {cancel, TRUE, FALSE} /\ active' \in {active, client[c].job}
  BY DEF ReadJob, FindsThreadAlive, StartFails, SetCancel, MarkCancelling, MarkFails
<1>6. TypeOK'
  <2>1. /\ stored' \subseteq Storable /\ active' \in Job \cup {NoJob}
        /\ cancel' \in BOOLEAN /\ thread' \in SUBSET Thread
        /\ worker' \in [Thread -> WorkerState]
        /\ stopping' \in BOOLEAN /\ restarts' \in 0 .. MaxRestarts
    BY <1>0, <1>2, <1>5, TypeParts
  <2> QED
    BY <1>0, <1>1, <1>3, <1>4, <2>1, ClientMoves, TypePartsNext DEF RowsKept
<1>7. OnlyKnown'
  BY <1>0, <1>5 DEF OnlyKnown, Alive
<1>8. active' \in Job => jobs'[active'].status # "none"
  BY <1>0, <1>2, <1>4, <1>5 DEF RowsExist, RowsKept
<1>9. RowsExist'
  BY <1>0, <1>1, <1>3, <1>4, <1>5, <1>8, ClientMoves, RowsStable DEF RowsKept
<1> QED
  BY <1>4, <1>5, <1>6, <1>7, <1>9 DEF Core, CallEffect, RowsKept

LEMMA StartKeeps ==
  ASSUME Core, NEW c \in Client, StartThread(c)
  PROVE  Core' /\ CallEffect
<1> DEFINE j == client[c].job
           new == [Dead EXCEPT !.pc = "begin", !.job = j]
<1>0. TypeOK /\ OnlyKnown /\ RowsExist /\ client[c].pc = "start" /\ Return(c)
  BY DEF Core, StartThread
<1>1. j \in Job /\ jobs[j].status # "none"
  BY <1>0 DEF RowsExist
<1>2. new \in WorkerState /\ new.pc = "begin" /\ new.job = j
  BY <1>1, Constants DEF Dead
<1>3. SetStatus(j, "queued") /\ "queued" \in Statuses \ {"none"}
  BY DEF StartThread, Statuses
<1>4. PICK t \in Thread : thread' = {t} /\ worker' = [worker EXCEPT ![t] = new]
  BY DEF StartThread
<1>5. /\ UNCHANGED <<stored, stopping, restarts>>
      /\ cancel' = FALSE /\ active' = j
      /\ \A u \in Thread : ~ Alive(u)
  BY <1>0 DEF StartThread, ThreadAlive, OnlyKnown
<1> HIDE DEF j, new
<1>6. worker' \in [Thread -> WorkerState]
      /\ \A u \in Thread : worker'[u] = IF u = t THEN new ELSE worker[u]
  BY <1>0, <1>2, <1>4, TypeParts
<1>7. RowsKept
  BY <1>0, <1>1, <1>3, StatusEffect
<1>8. TypeOK'
  <2>1. /\ stored' \subseteq Storable /\ active' \in Job \cup {NoJob}
        /\ cancel' \in BOOLEAN /\ thread' \in SUBSET Thread
        /\ stopping' \in BOOLEAN /\ restarts' \in 0 .. MaxRestarts
    BY <1>0, <1>1, <1>4, <1>5, TypeParts
  <2> QED
    BY <1>0, <1>6, <1>7, <2>1, ClientMoves, TypePartsNext DEF RowsKept
<1>9. OnlyKnown'
  BY <1>4, <1>5, <1>6 DEF OnlyKnown, Alive
<1>10. RowsExist'
  <2>1. active' \in Job => jobs'[active'].status # "none"
    BY <1>1, <1>5, <1>7 DEF RowsKept
  <2>2. \A u \in Thread : worker'[u].pc # "dead" =>
          \/ worker[u].pc # "dead" /\ worker'[u].job = worker[u].job
          \/ worker'[u].job \in Job /\ jobs'[worker'[u].job].status # "none"
    BY <1>1, <1>2, <1>6, <1>7 DEF RowsKept
  <2> QED
    BY <1>0, <1>7, <2>1, <2>2, ClientMoves, RowsStable DEF RowsKept
<1> QED
  BY <1>2, <1>5, <1>6, <1>7, <1>8, <1>9, <1>10 DEF Core, CallEffect, RowsKept

LEMMA ClientKeeps ==
  ASSUME Core, NEW c \in Client, ClientStep(c)
  PROVE  Core' /\ CallEffect
BY CreateKeeps, CallKeeps, ReturnKeeps, StartKeeps DEF ClientStep, CallReturns

-----------------------------------------------------------------------------
(* The thread. *)

LEMMA Alone ==
  ASSUME Core, NEW t \in Thread, NEW u \in Thread, Alive(t), Alive(u)
  PROVE  t = u
BY DEF Core, OnlyKnown

\* What every step of a thread leaves alone.
Aside(t) ==
  /\ UNCHANGED <<cancel, thread, client, stopping, restarts>>
  /\ active' \in {active, NoJob}
  /\ \E w \in WorkerState :
       /\ w.pc # "dead" => w.job = worker[t].job
       /\ worker' = [worker EXCEPT ![t] = w]

LEMMA MoveAside ==
  ASSUME TypeOK, NEW t \in Thread,
         NEW pc \in {"begin", "test", "fetch", "insert", "fail", "release", "exiting"},
         Move(t, pc)
  PROVE  \E w \in WorkerState :
           /\ w.pc # "dead" => w.job = worker[t].job
           /\ worker' = [worker EXCEPT ![t] = w]
<1> DEFINE w == [worker[t] EXCEPT !.pc = pc]
<1>1. w \in WorkerState /\ w.job = worker[t].job
  BY TypeParts DEF WorkerState
<1>2. worker' = [worker EXCEPT ![t] = w]
  BY TypeParts DEF Move
<1> QED
  BY <1>1, <1>2

LEMMA FetchAside ==
  ASSUME TypeOK, NEW t \in Thread, Fetch(t)
  PROVE  Aside(t)
<1>1. PICK lost \in SUBSET Losable :
        worker' = [worker EXCEPT ![t] =
          [@ EXCEPT !.pc = "insert",
                    !.pending = Span(jobs[worker[t].job].cursor, ChunkEnd(worker[t].job)) \ lost,
                    !.imported = 0, !.duplicates = 0]]
  BY DEF Fetch
<1> DEFINE pending == Span(jobs[worker[t].job].cursor, ChunkEnd(worker[t].job)) \ lost
           w == [worker[t] EXCEPT !.pc = "insert", !.pending = pending,
                                  !.imported = 0, !.duplicates = 0]
<1>2. pending \in SUBSET Recorded
  BY DEF Span
<1>3. worker \in [Thread -> WorkerState]
  BY TypeParts
<1>4. worker' = [worker EXCEPT ![t] = w]
  BY <1>1, <1>3
<1> HIDE DEF pending
<1>5. w \in WorkerState /\ w.job = worker[t].job
  BY <1>2, <1>3 DEF WorkerState
<1> HIDE DEF w
<1> QED
  BY <1>4, <1>5 DEF Fetch, Aside

LEMMA CountedType ==
  \A w \in WorkerState : \A e, new :
    /\ Counted(w, e, new) \in WorkerState
    /\ Counted(w, e, new).job = w.job /\ Counted(w, e, new).pc = w.pc
    /\ Counted(w, e, new).pending = w.pending \ {e}
<1> SUFFICES ASSUME NEW w \in WorkerState, NEW e, NEW new
             PROVE  /\ Counted(w, e, new) \in WorkerState
                    /\ Counted(w, e, new).job = w.job /\ Counted(w, e, new).pc = w.pc
                    /\ Counted(w, e, new).pending = w.pending \ {e}
  OBVIOUS
<1> DEFINE one == IF new THEN 1 ELSE 0
           other == IF new THEN 0 ELSE 1
<1>1. one \in Nat /\ other \in Nat
  OBVIOUS
<1> HIDE DEF one, other
<1>2. Counted(w, e, new) = [w EXCEPT !.pending = w.pending \ {e},
                                     !.imported = w.imported + one,
                                     !.duplicates = w.duplicates + other]
  BY DEF Counted, one, other
<1>3. /\ w.pending \ {e} \in SUBSET Recorded
      /\ w.imported + one \in Nat /\ w.duplicates + other \in Nat
  BY <1>1 DEF WorkerState
<1> QED
  BY <1>2, <1>3 DEF WorkerState

LEMMA InsertAside ==
  ASSUME TypeOK, NEW t \in Thread, Insert(t)
  PROVE  Aside(t)
<1>1. PICK e \in worker[t].pending :
        worker' = [worker EXCEPT ![t] = Counted(worker[t], e, e \in Storable \ stored)]
  BY DEF Insert
<1>2. worker[t] \in WorkerState
  BY TypeParts
<1>3. /\ Counted(worker[t], e, e \in Storable \ stored) \in WorkerState
      /\ Counted(worker[t], e, e \in Storable \ stored).job = worker[t].job
  BY <1>2, CountedType
<1> QED
  BY <1>1, <1>3 DEF Insert, Aside

LEMMA StepAside ==
  ASSUME TypeOK, NEW t \in Thread, WorkerStep(t)
  PROVE  Aside(t)
<1>1. CASE Begin(t) \/ Finish(t) \/ Pause(t) \/ NextChunk(t) \/ Fail(t)
             \/ PauseWithError(t) \/ PauseFails(t) \/ Commit(t) \/ Release(t)
  <2>1. \E pc \in {"begin", "test", "fetch", "insert", "fail", "release", "exiting"} : Move(t, pc)
    BY <1>1 DEF Begin, Finish, Pause, NextChunk, Fail, PauseWithError, PauseFails,
                Commit, Release
  <2>2. /\ UNCHANGED <<cancel, thread, client, stopping, restarts>>
        /\ active' \in {active, NoJob}
    BY <1>1 DEF Begin, Finish, Pause, NextChunk, Fail, PauseWithError, PauseFails,
                Commit, Release
  <2> QED
    BY <2>1, <2>2, MoveAside DEF Aside
<1>2. CASE BeginFails(t) \/ Exit(t)
  <2>1. Dead \in WorkerState /\ Dead.pc = "dead"
    BY Constants DEF Dead
  <2> QED
    BY <1>2, <2>1 DEF BeginFails, Exit, Aside
<1>3. CASE Fetch(t)
  BY <1>3, FetchAside
<1>4. CASE Insert(t)
  BY <1>4, InsertAside
<1> QED
  BY <1>1, <1>2, <1>3, <1>4 DEF WorkerStep

LEMMA ChunkEndNat ==
  ASSUME TypeOK, NEW j \in Job
  PROVE  /\ ChunkEnd(j) \in Int /\ ChunkEnd(j) + 1 \in Nat
         /\ jobs[j].cursor \in Nat
BY TypeParts DEF ChunkEnd, Row

LEMMA AdvancedType ==
  ASSUME NEW row \in Row, NEW next \in Nat, NEW w \in WorkerState
  PROVE  /\ Advanced(row, next, w) \in Row
         /\ Advanced(row, next, w).status = row.status
         /\ Advanced(row, next, w).cursor = next
<1>1. /\ row.chunks + 1 \in Nat /\ row.imported + w.imported \in Nat
      /\ row.received + w.imported + w.duplicates \in Nat
      /\ row.duplicates + w.duplicates \in Nat
  BY DEF Row, WorkerState
<1> QED
  BY <1>1 DEF Advanced, Row

LEMMA CommitRow ==
  ASSUME Core, NEW t \in Thread, Commit(t)
  PROVE  /\ jobs' \in [Job -> Row]
         /\ \A i \in Job : jobs'[i].status = jobs[i].status
         /\ \A i \in Job : jobs'[i].cursor =
              IF i = worker[t].job THEN ChunkEnd(i) + 1 ELSE jobs[i].cursor
<1> DEFINE j == worker[t].job
           row == Advanced(jobs[j], ChunkEnd(j) + 1, worker[t])
<1>1. jobs \in [Job -> Row] /\ worker[t] \in WorkerState /\ TypeOK
  BY TypeParts DEF Core
<1>2. j \in Job
  BY DEF Core, RowsExist, Commit, At, Alive
<1>3. ChunkEnd(j) + 1 \in Nat
  BY <1>1, <1>2, ChunkEndNat
<1>4. jobs' = [jobs EXCEPT ![j] = row]
  BY DEF Commit
<1>5. row \in Row /\ row.status = jobs[j].status /\ row.cursor = ChunkEnd(j) + 1
  BY <1>1, <1>2, <1>3, AdvancedType
<1> HIDE DEF row
<1> QED
  BY <1>1, <1>2, <1>4, <1>5

\* Which rows a step of a thread changes, and how.
LEMMA StepRows ==
  ASSUME Core, NEW t \in Thread, WorkerStep(t)
  PROVE  /\ jobs' \in [Job -> Row]
         /\ \A i \in Job : jobs[i].status # "none" => jobs'[i].status # "none"
         /\ Commit(t) \/ RowsKept
<1>0. TypeOK /\ OnlyKnown /\ RowsExist
  BY DEF Core
<1>1. CASE Begin(t) \/ Finish(t) \/ Pause(t) \/ PauseWithError(t)
  <2>1. worker[t].job \in Job
    BY <1>0, <1>1 DEF RowsExist, Begin, Finish, Pause, PauseWithError, At, Alive
  <2>2. \E s \in Statuses \ {"none"} : SetStatus(worker[t].job, s)
    BY <1>1 DEF Begin, Finish, Pause, PauseWithError, Statuses
  <2> QED
    BY <1>0, <2>1, <2>2, StatusEffect DEF RowsKept
<1>2. CASE NextChunk(t) \/ Fail(t) \/ PauseFails(t) \/ BeginFails(t) \/ Fetch(t)
             \/ Insert(t) \/ Release(t) \/ Exit(t)
  <2>1. jobs' = jobs
    BY <1>2 DEF NextChunk, Fail, PauseFails, BeginFails, Fetch, Insert, Release, Exit
  <2> QED
    BY <1>0, <2>1, TypeParts DEF RowsKept
<1>3. CASE Commit(t)
  BY <1>3, CommitRow
<1> QED
  BY <1>1, <1>2, <1>3 DEF WorkerStep

LEMMA WorkerKeeps ==
  ASSUME Core, NEW t \in Thread, WorkerStep(t)
  PROVE  Core'
<1>0. TypeOK /\ OnlyKnown /\ RowsExist
  BY DEF Core
<1>1. PICK w \in WorkerState :
        (w.pc # "dead" => w.job = worker[t].job) /\ worker' = [worker EXCEPT ![t] = w]
  BY <1>0, StepAside DEF Aside
<1>2. /\ UNCHANGED <<cancel, thread, client, stopping, restarts>>
      /\ active' \in {active, NoJob}
  BY <1>0, StepAside DEF Aside
<1>3. Alive(t)
  BY DEF WorkerStep, Begin, Finish, Pause, NextChunk, Fail, PauseWithError, PauseFails,
         BeginFails, Fetch, Insert, Commit, Release, Exit, At, Alive
<1>4. worker' \in [Thread -> WorkerState]
      /\ \A u \in Thread : worker'[u] = IF u = t THEN w ELSE worker[u]
  BY <1>0, <1>1, TypeParts
<1>5. stored' \subseteq Storable
  BY <1>0, TypeParts DEF WorkerStep, Begin, Finish, Pause, NextChunk, Fail, PauseWithError,
         PauseFails, BeginFails, Fetch, Insert, Commit, Release, Exit
<1>6. TypeOK'
  <2>1. /\ active' \in Job \cup {NoJob} /\ cancel' \in BOOLEAN /\ thread' \in SUBSET Thread
        /\ client' \in [Client -> ClientState]
        /\ stopping' \in BOOLEAN /\ restarts' \in 0 .. MaxRestarts
    BY <1>0, <1>2, TypeParts
  <2> QED
    BY <1>4, <1>5, <2>1, StepRows, TypePartsNext
<1>7. OnlyKnown'
  BY <1>0, <1>2, <1>3, <1>4 DEF OnlyKnown, Alive
<1>8. RowsExist'
  <2>1. active' \in Job => jobs'[active'].status # "none"
    BY <1>0, <1>2, StepRows DEF RowsExist
  <2>2. \A u \in Thread : worker'[u].pc # "dead" =>
          worker[u].pc # "dead" /\ worker'[u].job = worker[u].job
    BY <1>1, <1>3, <1>4 DEF Alive
  <2> QED
    BY <1>0, <1>2, <2>1, <2>2, StepRows, RowsStable
<1> QED
  BY <1>6, <1>7, <1>8 DEF Core

-----------------------------------------------------------------------------
(* The process, and the first two theorems. *)

LEMMA StopKeeps == Core /\ Stop => Core'
<1> SUFFICES ASSUME Core, Stop PROVE Core'
  OBVIOUS
<1>1. /\ UNCHANGED <<jobs, stored, active, thread, worker, client, restarts>>
      /\ stopping' = TRUE /\ cancel' = TRUE
  BY DEF Stop
<1>2. TypeOK'
  BY <1>1, TypeParts, TypePartsNext DEF Core
<1>3. OnlyKnown' /\ RowsExist'
  BY <1>1 DEF Core, OnlyKnown, RowsExist, Alive
<1> QED
  BY <1>2, <1>3 DEF Core

LEMMA RestartKeeps == Core /\ Restart => Core'
<1> SUFFICES ASSUME Core, Restart PROVE Core'
  OBVIOUS
<1>1. /\ UNCHANGED <<jobs, stored>> /\ active' = NoJob /\ cancel' = FALSE
      /\ thread' = {} /\ stopping' = FALSE /\ restarts' = restarts + 1
      /\ restarts < MaxRestarts
      /\ worker' = [t \in Thread |-> Dead] /\ client' = [c \in Client |-> Idle]
  BY DEF Restart
<1>2. restarts' \in 0 .. MaxRestarts
  BY <1>1, TypeParts DEF Core
<1>3. TypeOK'
  <2>1. worker' \in [Thread -> WorkerState] /\ client' \in [Client -> ClientState]
    BY <1>1, Constants
  <2> QED
    BY <1>1, <1>2, <2>1, TypeParts, TypePartsNext DEF Core
<1>4. OnlyKnown' /\ RowsExist'
  <2>1. \A t \in Thread : worker'[t].pc = "dead"
    BY <1>1 DEF Dead
  <2>2. \A c \in Client : client'[c].pc = "idle"
    BY <1>1 DEF Idle
  <2> QED
    BY <1>1, <2>1, <2>2 DEF OnlyKnown, RowsExist, Alive
<1> QED
  BY <1>3, <1>4 DEF Core

LEMMA CoreInit == Init => Core
<1> SUFFICES ASSUME Init PROVE Core
  OBVIOUS
<1>1. /\ \A t \in Thread : worker[t].pc = "dead"
      /\ \A c \in Client : client[c].pc = "idle"
      /\ active = NoJob /\ thread = {}
  BY DEF Init, Dead, Idle
<1>2. OnlyKnown /\ RowsExist
  BY <1>1 DEF OnlyKnown, RowsExist, Alive
<1> QED
  BY <1>2, TypeInit DEF Core

LEMMA CoreStutters == Core /\ UNCHANGED vars => Core'
<1> SUFFICES ASSUME Core, UNCHANGED vars PROVE Core'
  OBVIOUS
<1>1. TypeOK'
  BY TypeParts, TypePartsNext DEF Core, vars
<1> QED
  BY <1>1 DEF Core, OnlyKnown, RowsExist, Alive, vars

LEMMA CoreInv == Spec => []Core
<1>1. Core /\ [Next]_vars => Core'
  BY ClientKeeps, WorkerKeeps, StopKeeps, RestartKeeps, CoreStutters DEF Next
<1> QED
  BY <1>1, CoreInit, PTL DEF Spec

\* The variables of the history manager keep their types.
THEOREM HistoryTypes == Spec => []TypeOK
<1>1. Core => TypeOK
  BY DEF Core
<1> QED
  BY <1>1, CoreInv, PTL

\* However many web threads resume jobs at once, two imports never run at
\* once: the check of the thread and its start are one step under the lock.
THEOREM OneImport == Spec => []OneWorker
<1>1. Core => OneWorker
  <2> SUFFICES ASSUME Core PROVE OneWorker
    OBVIOUS
  <2> DEFINE alive == {t \in Thread : Alive(t)}
  <2>1. alive = {} \/ \E t \in Thread : alive = {t}
    BY Alone
  <2>2. Cardinality({}) = 0 /\ \A t \in Thread : Cardinality({t}) = 1
    BY FS_EmptySet, FS_Singleton
  <2>3. Cardinality(alive) \in {0, 1}
    BY <2>1, <2>2
  <2> QED
    BY <2>3 DEF OneWorker
<1> QED
  BY <1>1, CoreInv, PTL

-----------------------------------------------------------------------------
(* What is behind a cursor is in the database. *)

\* The invariant: the committed part of each job, and the chunk in hand.
Imported == Core /\ CommittedStored /\ ChunkInHand

\* Records are never removed from the database by an import.
LEMMA StoredGrows ==
  ASSUME NEW t \in Thread, WorkerStep(t) PROVE stored \subseteq stored'
BY DEF WorkerStep, Begin, Finish, Pause, NextChunk, Fail, PauseWithError,
       PauseFails, BeginFails, Fetch, Insert, Commit, Release, Exit

LEMMA ClientImported ==
  ASSUME Imported, NEW c \in Client, ClientStep(c) PROVE Imported'
<1>1. Core /\ Core' /\ CallEffect
  BY ClientKeeps DEF Imported
<1>2. jobs \in [Job -> Row] /\ jobs' \in [Job -> Row]
  BY <1>1, TypeParts DEF Core, TypeOK, Row
<1>3. CommittedStored'
  <2> SUFFICES ASSUME NEW j \in Job, NEW e \in Storable \ Losable,
                      First[j] <= e, e < jobs'[j].cursor
               PROVE  e \in stored'
    BY DEF CommittedStored
  <2>1. jobs'[j].cursor # First[j]
    OBVIOUS
  <2>2. jobs'[j].cursor = jobs[j].cursor
    BY <1>1, <2>1 DEF CallEffect
  <2> QED
    BY <1>1, <2>2 DEF Imported, CommittedStored, CallEffect
<1>4. ChunkInHand'
  <2> SUFFICES ASSUME NEW t \in Thread, worker'[t].pc = "insert"
               PROVE  HandHolds(t)'
    BY DEF ChunkInHand, HandHolds, At
  <2>1. worker'[t] = worker[t]
    BY <1>1 DEF CallEffect
  <2>2. worker[t].job \in Job /\ jobs[worker[t].job].status # "none"
    BY <1>1, <2>1 DEF Core, RowsExist, Alive
  <2>3. jobs'[worker[t].job].cursor = jobs[worker[t].job].cursor
    BY <1>1, <2>2 DEF CallEffect
  <2> QED
    BY <1>1, <2>1, <2>3 DEF Imported, ChunkInHand, HandHolds, At, ChunkEnd, CallEffect
<1> QED
  BY <1>1, <1>3, <1>4 DEF Imported

\* A thread that is not the only one alive is dead, so a step of a thread
\* leaves a chunk in hand to no other.
LEMMA OthersHoldNothing ==
  ASSUME Core, NEW t \in Thread, WorkerStep(t), HandHolds(t)' \/ worker'[t].pc # "insert"
  PROVE  ChunkInHand'
<1>1. Alive(t)
  BY DEF WorkerStep, Begin, Finish, Pause, NextChunk, Fail, PauseWithError, PauseFails,
         BeginFails, Fetch, Insert, Commit, Release, Exit, At, Alive
<1>2. PICK w \in WorkerState : worker' = [worker EXCEPT ![t] = w]
  BY StepAside DEF Core, Aside
<1>3. \A u \in Thread : u # t => worker'[u] = worker[u]
  BY <1>2, TypeParts DEF Core
<1>4. \A u \in Thread : u # t => worker'[u].pc # "insert"
  BY <1>1, <1>3, Alone DEF Alive
<1> QED
  BY <1>4 DEF ChunkInHand, At

LEMMA CursorsKept ==
  ASSUME CommittedStored, RowsKept, stored \subseteq stored'
  PROVE  CommittedStored'
BY DEF CommittedStored, RowsKept

LEMMA FetchHolds ==
  ASSUME Core, NEW t \in Thread, Fetch(t)
  PROVE  HandHolds(t)'
<1>1. PICK lost \in SUBSET Losable :
        worker' = [worker EXCEPT ![t] =
          [@ EXCEPT !.pc = "insert",
                    !.pending = Span(jobs[worker[t].job].cursor, ChunkEnd(worker[t].job)) \ lost,
                    !.imported = 0, !.duplicates = 0]]
  BY DEF Fetch
<1>2. worker \in [Thread -> WorkerState]
  BY TypeParts DEF Core
<1>3. /\ worker'[t].job = worker[t].job
      /\ worker'[t].pending = Span(jobs[worker[t].job].cursor, ChunkEnd(worker[t].job)) \ lost
  BY <1>1, <1>2 DEF WorkerState
<1>4. jobs' = jobs
  BY DEF Fetch
<1> QED
  BY <1>3, <1>4 DEF HandHolds, Span, ChunkEnd

LEMMA InsertHolds ==
  ASSUME Core, NEW t \in Thread, Insert(t), HandHolds(t)
  PROVE  HandHolds(t)'
<1>1. PICK e \in worker[t].pending :
        /\ stored' = stored \cup ({e} \cap Storable)
        /\ worker' = [worker EXCEPT ![t] = Counted(worker[t], e, e \in Storable \ stored)]
  BY DEF Insert
<1>2. worker \in [Thread -> WorkerState]
  BY TypeParts DEF Core
<1>3. worker'[t].job = worker[t].job /\ worker'[t].pending = worker[t].pending \ {e}
  BY <1>1, <1>2, CountedType
<1>4. jobs' = jobs
  BY DEF Insert
<1> QED
  BY <1>1, <1>3, <1>4 DEF HandHolds, ChunkEnd

LEMMA CommitStores ==
  ASSUME Core, CommittedStored, NEW t \in Thread, Commit(t), HandHolds(t)
  PROVE  CommittedStored'
<1> SUFFICES ASSUME NEW j \in Job, NEW e \in Storable \ Losable,
                    First[j] <= e, e < jobs'[j].cursor
             PROVE  e \in stored'
  BY DEF CommittedStored
<1>1. stored' = stored /\ worker[t].pending = {}
  BY DEF Commit
<1>2. jobs'[j].cursor = IF j = worker[t].job THEN ChunkEnd(j) + 1 ELSE jobs[j].cursor
  BY CommitRow
<1>3. e \in Nat /\ jobs[j].cursor \in Nat /\ ChunkEnd(j) \in Int
  BY ChunkEndNat DEF Core
<1>4. CASE e < jobs[j].cursor
  BY <1>1, <1>4 DEF CommittedStored
<1>5. CASE ~ (e < jobs[j].cursor)
  <2>1. j = worker[t].job /\ jobs[j].cursor <= e /\ e <= ChunkEnd(j)
    BY <1>2, <1>3, <1>5
  <2> QED
    BY <1>1, <2>1 DEF HandHolds
<1> QED
  BY <1>4, <1>5

LEMMA WorkerImported ==
  ASSUME Imported, NEW t \in Thread, WorkerStep(t) PROVE Imported'
<1>1. Core /\ Core' /\ CommittedStored /\ ChunkInHand /\ stored \subseteq stored'
  BY WorkerKeeps, StoredGrows DEF Imported
<1>2. worker \in [Thread -> WorkerState]
  BY <1>1, TypeParts DEF Core
<1>3. CommittedStored'
  <2>1. CASE Commit(t)
    BY <1>1, <2>1, CommitStores DEF ChunkInHand, Commit
  <2>2. CASE RowsKept
    BY <1>1, <2>2, CursorsKept
  <2> QED
    BY <1>1, <2>1, <2>2, StepRows
<1>4. HandHolds(t)' \/ worker'[t].pc # "insert"
  <2>1. CASE Fetch(t)
    BY <1>1, <2>1, FetchHolds
  <2>2. CASE Insert(t)
    BY <1>1, <2>2, InsertHolds DEF ChunkInHand, Insert
  <2>3. CASE BeginFails(t) \/ Exit(t)
    BY <1>2, <2>3 DEF BeginFails, Exit, Dead
  <2>4. CASE Begin(t) \/ Finish(t) \/ Pause(t) \/ NextChunk(t) \/ Fail(t)
             \/ PauseWithError(t) \/ PauseFails(t) \/ Commit(t) \/ Release(t)
    <3>1. PICK pc \in {"test", "fetch", "fail", "release", "exiting"} : Move(t, pc)
      BY <2>4 DEF Begin, Finish, Pause, NextChunk, Fail, PauseWithError, PauseFails,
                  Commit, Release
    <3> QED
      BY <1>2, <3>1 DEF Move, WorkerState
  <2> QED
    BY <2>1, <2>2, <2>3, <2>4 DEF WorkerStep
<1>5. ChunkInHand'
  BY <1>1, <1>4, OthersHoldNothing
<1> QED
  BY <1>1, <1>3, <1>5 DEF Imported

\* A crash drops the chunk in hand; what was committed stays.
LEMMA ProcessImported == Imported /\ (Stop \/ Restart \/ UNCHANGED vars) => Imported'
<1> SUFFICES ASSUME Imported, Stop \/ Restart \/ UNCHANGED vars PROVE Imported'
  OBVIOUS
<1>1. Core' /\ jobs' = jobs /\ stored' = stored
  BY StopKeeps, RestartKeeps, CoreStutters DEF Imported, Stop, Restart, vars
<1>2. CommittedStored'
  BY <1>1 DEF Imported, CommittedStored
<1>3. ChunkInHand'
  <2>1. CASE Restart
    BY <2>1 DEF Restart, ChunkInHand, At, Dead
  <2>2. CASE worker' = worker
    BY <1>1, <2>2 DEF Imported, ChunkInHand, HandHolds, At, ChunkEnd
  <2> QED
    BY <2>1, <2>2 DEF Stop, vars
<1> QED
  BY <1>1, <1>2, <1>3 DEF Imported

LEMMA ImportedInit == Init => Imported
<1> SUFFICES ASSUME Init PROVE Imported
  OBVIOUS
<1>1. ChunkInHand
  BY DEF Init, ChunkInHand, At, Dead
<1>2. \A j \in Job : jobs[j].cursor = 0
  BY DEF Init, NoRow
<1>3. CommittedStored
  BY <1>2 DEF CommittedStored
<1> QED
  BY <1>1, <1>3, CoreInit DEF Imported

\* The cursor of a job moves only over what is imported: through failures in
\* the middle of a chunk, pauses, restarts and overlapping jobs, every
\* storable record behind a cursor that no lost frame carried is stored.
THEOREM Committed == Spec => []CommittedStored
<1>1. Imported /\ [Next]_vars => Imported'
  BY ClientImported, WorkerImported, ProcessImported DEF Next
<1>2. Imported => CommittedStored
  BY DEF Imported
<1> QED
  BY <1>1, <1>2, ImportedInit, PTL DEF Spec

-----------------------------------------------------------------------------
(* What a status says. *)

\* Threads that copy chunks, or are about to record why they stopped.
Working(t) == worker[t].pc \in {"test", "fetch", "insert", "fail"}

CompleteDone == \A j \in Job : jobs[j].status = "complete" => jobs[j].cursor > End[j]

RunningWorks ==
  \A j \in Job : jobs[j].status = "running"
    => \E t \in Thread : Working(t) /\ worker[t].job = j

\* Rows survive a restart as they are, and a write that fails leaves one behind.
Undisturbed == restarts = 0 /\ ~ StoreFaults

Honest == Core /\ CompleteDone /\ (Undisturbed => RunningWorks)

\* The ways in which a call changes a row.
Requeued(row, i) == \E s \in {"queued", "cancelling"} : row = [jobs[i] EXCEPT !.status = s]
FirstRow(i) == [NoRow EXCEPT !.status = "queued", !.cursor = First[i]]

LEMMA CallRows ==
  ASSUME Core, NEW c \in Client, ClientStep(c)
  PROVE  /\ stored' = stored /\ restarts' = restarts
         /\ \A t \in Thread : \/ worker'[t] = worker[t]
                              \/ worker[t].pc = "dead" /\ worker'[t].pc = "begin"
         /\ \A i \in Job : \/ jobs'[i] = jobs[i]
                           \/ jobs[i].status # "none" /\ Requeued(jobs'[i], i)
                           \/ jobs[i].status = "none" /\ jobs'[i] = FirstRow(i)
<1>1. jobs \in [Job -> Row] /\ worker \in [Thread -> WorkerState]
  BY TypeParts DEF Core
<1>2. CASE StartThread(c) \/ MarkCancelling(c)
  <2>1. client[c].job \in Job /\ jobs[client[c].job].status # "none"
    BY <1>2 DEF StartThread, MarkCancelling, Core, RowsExist
  <2>2. \E s \in {"queued", "cancelling"} :
          jobs' = [jobs EXCEPT ![client[c].job] = [jobs[client[c].job] EXCEPT !.status = s]]
    BY <1>2 DEF StartThread, MarkCancelling, SetStatus
  <2>3. \A i \in Job : \/ jobs'[i] = jobs[i]
                       \/ jobs[i].status # "none" /\ Requeued(jobs'[i], i)
    BY <1>1, <2>1, <2>2 DEF Requeued
  <2>4. \A t \in Thread : \/ worker'[t] = worker[t]
                          \/ worker[t].pc = "dead" /\ worker'[t].pc = "begin"
    <3>1. CASE worker' = worker
      BY <3>1
    <3>2. CASE \E t \in Thread : /\ ~ Alive(t)
                                 /\ \E j : worker' = [worker EXCEPT ![t] = [Dead EXCEPT !.pc = "begin", !.job = j]]
      BY <1>1, <3>2 DEF Alive, Dead
    <3> QED
      BY <1>2, <3>1, <3>2 DEF StartThread, MarkCancelling
  <2> QED
    BY <1>2, <2>3, <2>4 DEF StartThread, MarkCancelling
<1>3. CASE \E j \in Job : Create(c, j)
  <2>1. PICK j \in Job : /\ jobs[j].status = "none" /\ jobs' = [jobs EXCEPT ![j] = FirstRow(j)]
                         /\ UNCHANGED <<stored, worker, restarts>>
    BY <1>3 DEF Create, FirstRow
  <2> QED
    BY <1>1, <2>1
<1>4. CASE \/ \E j \in Job : CallResume(c, j) \/ CallCancel(c, j)
           \/ ReadJob(c) \/ FindsThreadAlive(c) \/ StartFails(c) \/ SetCancel(c) \/ MarkFails(c)
  <2>1. UNCHANGED <<jobs, stored, worker, restarts>>
    BY <1>4 DEF CallResume, CallCancel, ReadJob, FindsThreadAlive, StartFails, SetCancel,
                MarkFails
  <2> QED
    BY <2>1
<1> QED
  BY <1>2, <1>3, <1>4 DEF ClientStep, CallReturns

LEMMA ClientHonest ==
  ASSUME Honest, NEW c \in Client, ClientStep(c) PROVE Honest'
<1>1. Core /\ Core' /\ jobs \in [Job -> Row]
  BY ClientKeeps, TypeParts DEF Honest, Core
<1>2. \A i \in Job : \/ jobs'[i] = jobs[i]
                     \/ jobs'[i].status \in {"queued", "cancelling"}
  BY <1>1, CallRows DEF Requeued, FirstRow, Row, NoRow
<1>3. CompleteDone'
  BY <1>2 DEF Honest, CompleteDone
<1>4. ASSUME Undisturbed' PROVE RunningWorks'
  <2>1. RunningWorks
    BY <1>1, <1>4, CallRows DEF Honest, Undisturbed
  <2>2. \A t \in Thread : Working(t) => worker'[t] = worker[t]
    BY <1>1, CallRows DEF Working
  <2> QED
    BY <1>2, <2>1, <2>2 DEF RunningWorks, Working
<1> QED
  BY <1>1, <1>3, <1>4 DEF Honest

\* A thread writes the status of its own job, or commits a chunk of it.
LEMMA WorkerWrites ==
  ASSUME Core, NEW t \in Thread, WorkerStep(t)
  PROVE  /\ worker[t].job \in Job
         /\ \/ jobs' = jobs
            \/ \E s \in {"running", "complete", "paused"} : SetStatus(worker[t].job, s)
            \/ Commit(t)
<1>1. Alive(t)
  BY DEF WorkerStep, Begin, Finish, Pause, NextChunk, Fail, PauseWithError, PauseFails,
         BeginFails, Fetch, Insert, Commit, Release, Exit, At, Alive
<1> QED
  BY <1>1 DEF Core, RowsExist, WorkerStep, Begin, Finish, Pause, NextChunk, Fail,
     PauseWithError, PauseFails, BeginFails, Fetch, Insert, Release, Exit

LEMMA WorkerCompletes ==
  ASSUME Core, CompleteDone, NEW t \in Thread, WorkerStep(t) PROVE CompleteDone'
<1> SUFFICES ASSUME NEW i \in Job, jobs'[i].status = "complete"
             PROVE  jobs'[i].cursor > End[i]
  BY DEF CompleteDone
<1>1. jobs \in [Job -> Row] /\ jobs[i].cursor \in Nat /\ TypeOK
  BY TypeParts DEF Core, Row
<1>2. CASE jobs' = jobs
  BY <1>2 DEF CompleteDone
<1>3. CASE Commit(t)
  <2>1. jobs[i].cursor > End[i]
    BY <1>3, CommitRow DEF CompleteDone
  <2>2. ChunkEnd(i) = End[i]
    BY <1>1, <2>1 DEF ChunkEnd
  <2> QED
    BY <1>1, <1>3, <2>1, <2>2, CommitRow
<1>4. CASE Finish(t)
  BY <1>1, <1>4, WorkerWrites DEF Finish, SetStatus, CompleteDone, Row
<1>5. CASE \E s \in {"running", "paused"} : SetStatus(worker[t].job, s)
  BY <1>1, <1>5, WorkerWrites DEF SetStatus, CompleteDone, Row
<1>6. CASE Begin(t) \/ Pause(t) \/ PauseWithError(t)
  BY <1>5, <1>6 DEF Begin, Pause, PauseWithError
<1> QED
  BY <1>2, <1>3, <1>4, <1>6
     DEF WorkerStep, NextChunk, Fail, PauseFails, BeginFails, Fetch, Insert, Release, Exit

LEMMA WorkerRuns ==
  ASSUME Core, RunningWorks, ~ StoreFaults, NEW t \in Thread, WorkerStep(t)
  PROVE  RunningWorks'
<1> DEFINE j == worker[t].job
<1>1. jobs \in [Job -> Row] /\ worker \in [Thread -> WorkerState] /\ j \in Job
  BY TypeParts, WorkerWrites DEF Core
<1>2. \A u \in Thread : Working(u) => u = t
  <2>1. Alive(t)
    BY DEF WorkerStep, Begin, Finish, Pause, NextChunk, Fail, PauseWithError, PauseFails,
           BeginFails, Fetch, Insert, Commit, Release, Exit, At, Alive
  <2> QED
    BY <2>1, Alone DEF Working, Alive
<1>3. \A i \in Job : jobs[i].status = "running" => i = j /\ Working(t)
  BY <1>2 DEF RunningWorks
<1>4. \A i \in Job : i # j => jobs'[i].status = jobs[i].status
  BY <1>1, WorkerWrites, CommitRow DEF SetStatus
<1>5. jobs'[j].status = "running" => Working(t)' /\ worker'[t].job = j
  <2>1. CASE Begin(t) \/ NextChunk(t) \/ Fail(t) \/ Commit(t)
    BY <1>1, <2>1 DEF Begin, NextChunk, Fail, Commit, Move, Working, WorkerState
  <2>2. CASE Fetch(t)
    BY <1>1, <2>2 DEF Fetch, Working, WorkerState
  <2>3. CASE Insert(t)
    <3>1. PICK e : worker' = [worker EXCEPT ![t] = Counted(worker[t], e, e \in Storable \ stored)]
      BY <2>3 DEF Insert
    <3> QED
      BY <1>1, <2>3, <3>1, CountedType DEF Insert, At, Working
  <2>4. CASE Finish(t) \/ Pause(t) \/ PauseWithError(t)
    BY <1>1, <2>4 DEF Finish, Pause, PauseWithError, SetStatus, Row
  <2>5. CASE Release(t) \/ Exit(t)
    BY <1>1, <1>3, <2>5 DEF Release, Exit, At, Working
  <2> QED
    BY <2>1, <2>2, <2>3, <2>4, <2>5 DEF WorkerStep, PauseFails, BeginFails
<1> HIDE DEF j
<1> QED
  BY <1>3, <1>4, <1>5 DEF RunningWorks

LEMMA WorkerHonest ==
  ASSUME Honest, NEW t \in Thread, WorkerStep(t) PROVE Honest'
<1>1. Core /\ Core' /\ CompleteDone'
  BY WorkerKeeps, WorkerCompletes DEF Honest
<1>2. restarts' = restarts
  BY DEF WorkerStep, Begin, Finish, Pause, NextChunk, Fail, PauseWithError, PauseFails,
         BeginFails, Fetch, Insert, Commit, Release, Exit
<1>3. Undisturbed' => RunningWorks'
  BY <1>1, <1>2, WorkerRuns DEF Honest, Undisturbed
<1> QED
  BY <1>1, <1>3 DEF Honest

LEMMA ProcessHonest == Honest /\ (Stop \/ Restart \/ UNCHANGED vars) => Honest'
<1> SUFFICES ASSUME Honest, Stop \/ Restart \/ UNCHANGED vars PROVE Honest'
  OBVIOUS
<1>1. Core /\ Core' /\ jobs' = jobs
  BY StopKeeps, RestartKeeps, CoreStutters DEF Honest, Stop, Restart, vars
<1>2. CompleteDone'
  BY <1>1 DEF Honest, CompleteDone
<1>3. Undisturbed' => RunningWorks'
  <2>1. CASE Restart
    BY <1>1, <2>1, TypeParts DEF Restart, Undisturbed, Core
  <2>2. CASE Stop \/ UNCHANGED vars
    BY <1>1, <2>2 DEF Honest, Stop, vars, Undisturbed, RunningWorks, Working
  <2> QED
    BY <2>1, <2>2
<1> QED
  BY <1>1, <1>2, <1>3 DEF Honest

LEMMA HonestInit == Init => Honest
<1> SUFFICES ASSUME Init PROVE Honest
  OBVIOUS
<1>1. \A j \in Job : jobs[j].status = "none"
  BY DEF Init, NoRow
<1> QED
  BY <1>1, CoreInit DEF Honest, CompleteDone, RunningWorks

LEMMA HonestInv == Spec => []Honest
<1>1. Honest /\ [Next]_vars => Honest'
  BY ClientHonest, WorkerHonest, ProcessHonest DEF Next
<1> QED
  BY <1>1, HonestInit, PTL DEF Spec

\* What a row's status says is true: "complete" of a cursor past the end,
\* through restarts and faults as well, and until the process restarts, with a
\* database that takes its writes, "running" of a thread that is at work.
THEOREM StatusIsHonest ==
  Spec => [](CompleteDone /\ (Undisturbed => StatusHonest))
<1>1. Honest => CompleteDone /\ (Undisturbed => StatusHonest)
  BY DEF Honest, CompleteDone, RunningWorks, StatusHonest, Working, Alive
<1> QED
  BY <1>1, HonestInv, PTL

-----------------------------------------------------------------------------
(* The progress of a job. *)

\* The records of the chunk a thread has in hand, or is about to fetch.
InSpan(t) == Span(jobs[worker[t].job].cursor, ChunkEnd(worker[t].job))

Holding(t) == worker[t].pc \in {"fetch", "insert"}

RowExact(j) ==
  jobs[j].status # "none" =>
    /\ First[j] <= jobs[j].cursor
    /\ Cardinality(Behind(j) \ Losable) <= jobs[j].received
    /\ jobs[j].received <= Cardinality(Behind(j))
    /\ jobs[j].received = jobs[j].imported + jobs[j].duplicates

\* Every record of the chunk was counted, is pending or was lost.
CountExact(t) ==
  LET n == worker[t].imported + worker[t].duplicates + Cardinality(worker[t].pending) IN
  /\ worker[t].pending \subseteq InSpan(t)
  /\ Cardinality(InSpan(t) \ Losable) <= n /\ n <= Cardinality(InSpan(t))

HandExact(t) ==
  /\ Holding(t) => jobs[worker[t].job].cursor <= End[worker[t].job]
  /\ At(t, "insert") => CountExact(t)

Exact == /\ Core
         /\ \A j \in Job : RowExact(j)
         /\ \A t \in Thread : HandExact(t)

LEMMA CallHands ==
  ASSUME Core, NEW c \in Client, ClientStep(c), NEW t \in Thread, Holding(t)'
  PROVE  /\ worker'[t] = worker[t] /\ worker[t].job \in Job
         /\ jobs'[worker[t].job].cursor = jobs[worker[t].job].cursor
<1>1. worker'[t] = worker[t]
  BY CallRows DEF Holding
<1>2. worker[t].job \in Job /\ jobs[worker[t].job].status # "none"
  BY <1>1 DEF Holding, Core, RowsExist, Alive
<1>3. jobs[worker[t].job] \in Row
  BY <1>2, TypeParts DEF Core
<1> QED
  BY <1>1, <1>2, <1>3, CallRows DEF Requeued, Row

LEMMA StepHands ==
  ASSUME Core, NEW t \in Thread, WorkerStep(t)
  PROVE  \A u \in Thread : Holding(u)' => u = t /\ (NextChunk(t) \/ Fetch(t) \/ Insert(t))
<1> SUFFICES ASSUME NEW u \in Thread, Holding(u)'
             PROVE  u = t /\ (NextChunk(t) \/ Fetch(t) \/ Insert(t))
  OBVIOUS
<1>1. worker \in [Thread -> WorkerState]
  BY TypeParts DEF Core
<1>2. Alive(t)
  BY DEF WorkerStep, Begin, Finish, Pause, NextChunk, Fail, PauseWithError, PauseFails,
         BeginFails, Fetch, Insert, Commit, Release, Exit, At, Alive
<1>3. u = t
  <2>1. PICK w \in WorkerState : worker' = [worker EXCEPT ![t] = w]
    BY StepAside DEF Core, Aside
  <2>2. u # t => worker'[u] = worker[u]
    BY <1>1, <2>1
  <2> QED
    BY <1>2, <2>2, Alone DEF Holding, Alive
<1>4. CASE BeginFails(t) \/ Exit(t)
  BY <1>1, <1>3, <1>4 DEF BeginFails, Exit, Dead, Holding
<1>5. CASE Begin(t) \/ Finish(t) \/ Pause(t) \/ Fail(t) \/ PauseWithError(t)
           \/ PauseFails(t) \/ Commit(t) \/ Release(t)
  <2>1. PICK pc \in {"test", "fail", "release", "exiting"} : Move(t, pc)
    BY <1>5 DEF Begin, Finish, Pause, Fail, PauseWithError, PauseFails, Commit, Release
  <2> QED
    BY <1>1, <1>3, <2>1 DEF Move, WorkerState, Holding
<1> QED
  BY <1>3, <1>4, <1>5 DEF WorkerStep

\* Sets of records are finite, so they can be counted.
LEMMA Countable ==
  ASSUME NEW S \in SUBSET Recorded
  PROVE  /\ IsFiniteSet(S) /\ Cardinality(S) \in Nat
         /\ \A T \in SUBSET S : Cardinality(T) \in Nat /\ Cardinality(T) <= Cardinality(S)
<1>1. IsFiniteSet(S)
  BY FS_Subset
<1> QED
  BY <1>1, FS_Subset, FS_CardinalityType

LEMMA Together ==
  ASSUME NEW S \in SUBSET Recorded, NEW T \in SUBSET Recorded, S \cap T = {}
  PROVE  Cardinality(S \cup T) = Cardinality(S) + Cardinality(T)
<1>1. /\ IsFiniteSet(S) /\ IsFiniteSet(T) /\ Cardinality(S) \in Nat /\ Cardinality(T) \in Nat
  BY Countable
<1>2. Cardinality(S \cup T) = Cardinality(S) + Cardinality(T) - Cardinality(S \cap T)
  BY <1>1, FS_Union
<1>3. Cardinality(S \cap T) = 0
  BY FS_EmptySet
<1> QED
  BY <1>1, <1>2, <1>3

LEMMA ClientExact ==
  ASSUME Exact, NEW c \in Client, ClientStep(c) PROVE Exact'
<1>1. Core /\ Core' /\ jobs \in [Job -> Row]
  BY ClientKeeps, TypeParts DEF Exact, Core
<1>2. ASSUME NEW j \in Job PROVE RowExact(j)'
  <2>1. CASE jobs'[j] = jobs[j]
    BY <2>1 DEF Exact, RowExact, Behind
  <2>2. CASE jobs[j].status # "none" /\ Requeued(jobs'[j], j)
    <3>1. /\ jobs'[j].cursor = jobs[j].cursor /\ jobs'[j].received = jobs[j].received
          /\ jobs'[j].imported = jobs[j].imported /\ jobs'[j].duplicates = jobs[j].duplicates
      BY <1>1, <2>2 DEF Requeued, Row
    <3> QED
      BY <2>2, <3>1 DEF Exact, RowExact, Behind
  <2>3. CASE jobs'[j] = FirstRow(j)
    <3>1. /\ jobs'[j].cursor = First[j] /\ jobs'[j].received = 0
          /\ jobs'[j].imported = 0 /\ jobs'[j].duplicates = 0
      BY <2>3 DEF FirstRow, NoRow
    <3>2. Behind(j)' = {}
      <4>1. First[j] \in Nat /\ \A e \in Recorded : e \in Nat
        OBVIOUS
      <4>2. \A e \in Recorded : ~ (First[j] <= e /\ e < First[j])
        BY <4>1
      <4> QED
        BY <3>1, <4>2 DEF Behind
    <3>3. Cardinality(Behind(j)') = 0 /\ Cardinality(Behind(j)' \ Losable) = 0
      BY <3>2, FS_EmptySet
    <3> QED
      BY <3>1, <3>3 DEF RowExact
  <2> QED
    BY <1>1, <2>1, <2>2, <2>3, CallRows
<1>3. ASSUME NEW t \in Thread PROVE HandExact(t)'
  <2>1. CASE Holding(t)'
    BY <1>1, <2>1, CallHands
       DEF Exact, HandExact, CountExact, InSpan, ChunkEnd, Holding, At
  <2>2. CASE ~ Holding(t)'
    BY <2>2 DEF HandExact, Holding, At
  <2> QED
    BY <2>1, <2>2
<1> QED
  BY <1>1, <1>2, <1>3 DEF Exact

LEMMA FetchExact ==
  ASSUME Core, NEW t \in Thread, Fetch(t), HandExact(t) PROVE HandExact(t)'
<1>1. PICK lost \in SUBSET Losable :
        worker' = [worker EXCEPT ![t] =
          [@ EXCEPT !.pc = "insert",
                    !.pending = Span(jobs[worker[t].job].cursor, ChunkEnd(worker[t].job)) \ lost,
                    !.imported = 0, !.duplicates = 0]]
  BY DEF Fetch
<1>2. worker \in [Thread -> WorkerState] /\ jobs' = jobs /\ worker[t].pc = "fetch"
  BY TypeParts DEF Core, Fetch, At
<1>3. /\ worker'[t].job = worker[t].job /\ worker'[t].pc = "insert"
      /\ worker'[t].pending = InSpan(t) \ lost
      /\ worker'[t].imported = 0 /\ worker'[t].duplicates = 0
  BY <1>1, <1>2 DEF WorkerState, InSpan
<1>4. InSpan(t)' = InSpan(t)
  BY <1>2, <1>3 DEF InSpan, ChunkEnd
<1>5. /\ InSpan(t) \in SUBSET Recorded
      /\ InSpan(t) \ lost \in SUBSET InSpan(t)
      /\ InSpan(t) \ Losable \in SUBSET (InSpan(t) \ lost)
  BY <1>1 DEF InSpan, Span
<1>6. /\ Cardinality(InSpan(t) \ lost) \in Nat
      /\ Cardinality(InSpan(t) \ Losable) <= Cardinality(InSpan(t) \ lost)
      /\ Cardinality(InSpan(t) \ lost) <= Cardinality(InSpan(t))
  <2>1. InSpan(t) \ lost \in SUBSET Recorded
    BY <1>5
  <2> QED
    BY <1>5, <2>1, Countable
<1>7. CountExact(t)'
  BY <1>3, <1>4, <1>5, <1>6 DEF CountExact
<1>8. jobs'[worker'[t].job].cursor <= End[worker'[t].job]
  BY <1>2, <1>3 DEF HandExact, Holding
<1> QED
  BY <1>7, <1>8 DEF HandExact

\* Counting a record moves it from the pending ones to one of the counters.
LEMMA CountedCounts ==
  \A w \in WorkerState : \A e \in w.pending, new \in BOOLEAN :
    /\ Counted(w, e, new).imported + Counted(w, e, new).duplicates
         = w.imported + w.duplicates + 1
    /\ Counted(w, e, new).imported = w.imported + (IF new THEN 1 ELSE 0)
<1> SUFFICES ASSUME NEW w \in WorkerState, NEW e \in w.pending, NEW new \in BOOLEAN
             PROVE  /\ Counted(w, e, new).imported + Counted(w, e, new).duplicates
                         = w.imported + w.duplicates + 1
                    /\ Counted(w, e, new).imported = w.imported + (IF new THEN 1 ELSE 0)
  OBVIOUS
<1> DEFINE one == IF new THEN 1 ELSE 0
           other == IF new THEN 0 ELSE 1
<1>1. one \in Nat /\ other \in Nat /\ one + other = 1
  OBVIOUS
<1> HIDE DEF other
<1>2. Counted(w, e, new) = [w EXCEPT !.pending = w.pending \ {e},
                                     !.imported = w.imported + one,
                                     !.duplicates = w.duplicates + other]
  BY DEF Counted, other
<1> HIDE DEF one
<1>3. /\ Counted(w, e, new).imported = w.imported + one
      /\ Counted(w, e, new).duplicates = w.duplicates + other
      /\ w.imported \in Nat /\ w.duplicates \in Nat
  BY <1>2 DEF WorkerState
<1>4. Counted(w, e, new).imported + Counted(w, e, new).duplicates
        = w.imported + w.duplicates + 1
  BY <1>1, <1>3
<1> QED
  BY <1>3, <1>4 DEF one

LEMMA InsertExact ==
  ASSUME Core, NEW t \in Thread, Insert(t), HandExact(t) PROVE HandExact(t)'
<1>1. PICK e \in worker[t].pending :
        worker' = [worker EXCEPT ![t] = Counted(worker[t], e, e \in Storable \ stored)]
  BY DEF Insert
<1>2. /\ worker \in [Thread -> WorkerState] /\ worker[t] \in WorkerState
      /\ jobs' = jobs /\ worker[t].pc = "insert"
  BY TypeParts DEF Core, Insert, At
<1>3. /\ worker'[t].job = worker[t].job /\ worker'[t].pending = worker[t].pending \ {e}
      /\ worker'[t].imported + worker'[t].duplicates
           = worker[t].imported + worker[t].duplicates + 1
  <2> DEFINE new == e \in Storable \ stored
  <2>1. new \in BOOLEAN
    OBVIOUS
  <2>2. worker'[t] = Counted(worker[t], e, new)
    BY <1>1, <1>2
  <2> HIDE DEF new
  <2>3. /\ Counted(worker[t], e, new).job = worker[t].job
        /\ Counted(worker[t], e, new).pending = worker[t].pending \ {e}
    BY <1>2, CountedType
  <2>4. Counted(worker[t], e, new).imported + Counted(worker[t], e, new).duplicates
          = worker[t].imported + worker[t].duplicates + 1
    BY <1>2, <2>1, CountedCounts
  <2> QED
    BY <2>2, <2>3, <2>4
<1>4. InSpan(t)' = InSpan(t)
  BY <1>2, <1>3 DEF InSpan, ChunkEnd
<1>5. /\ Cardinality(worker[t].pending) \in Nat
      /\ Cardinality(worker'[t].pending) = Cardinality(worker[t].pending) - 1
  <2>1. worker[t].pending \in SUBSET Recorded
    BY <1>2 DEF WorkerState
  <2>2. IsFiniteSet(worker[t].pending)
    BY <2>1, Countable
  <2> QED
    BY <1>3, <2>1, <2>2, Countable, FS_RemoveElement
<1>6. CountExact(t)
  BY <1>2 DEF HandExact, At
<1>7. worker'[t].imported + worker'[t].duplicates + Cardinality(worker'[t].pending)
        = worker[t].imported + worker[t].duplicates + Cardinality(worker[t].pending)
  <2>1. worker[t].imported + worker[t].duplicates \in Nat
    BY <1>2 DEF WorkerState
  <2> QED
    BY <1>3, <1>5, <2>1
<1>8. CountExact(t)'
  BY <1>3, <1>4, <1>6, <1>7 DEF CountExact
<1>9. jobs'[worker'[t].job].cursor <= End[worker'[t].job]
  BY <1>2, <1>3 DEF HandExact, Holding
<1> QED
  BY <1>8, <1>9 DEF HandExact

\* A chunk that is committed lies between the old cursor and the new one.
LEMMA CommitMoves ==
  ASSUME Core, NEW t \in Thread, Commit(t), HandExact(t), NEW j, j = worker[t].job
  PROVE  /\ j \in Job /\ jobs[j] \in Row
         /\ jobs'[j] = Advanced(jobs[j], ChunkEnd(j) + 1, worker[t])
         /\ \A i \in Job : i # j => jobs'[i] = jobs[i]
         /\ jobs[j].cursor <= jobs'[j].cursor
         /\ First[j] <= jobs[j].cursor =>
              /\ Behind(j)' = Behind(j) \cup InSpan(t)
              /\ Behind(j) \cap InSpan(t) = {}
<1>1. j \in Job /\ jobs[j] \in Row /\ jobs \in [Job -> Row]
  BY TypeParts DEF Core, RowsExist, Commit, At, Alive
<1>2. jobs'[j] = Advanced(jobs[j], ChunkEnd(j) + 1, worker[t])
      /\ \A i \in Job : i # j => jobs'[i] = jobs[i]
  BY <1>1 DEF Commit
<1>3. jobs'[j].cursor = ChunkEnd(j) + 1
  BY <1>1, CommitRow
<1>4. jobs[j].cursor <= End[j]
  BY DEF HandExact, Holding, Commit, At
<1>5. /\ ChunkEnd(j) \in Nat /\ jobs[j].cursor \in Nat /\ jobs[j].cursor <= ChunkEnd(j)
      /\ First[j] \in Nat
  BY <1>1, <1>4 DEF ChunkEnd, Row
<1>6. ASSUME First[j] <= jobs[j].cursor
      PROVE  /\ Behind(j)' = Behind(j) \cup InSpan(t)
             /\ Behind(j) \cap InSpan(t) = {}
  <2>1. \A e \in Recorded :
          /\ (First[j] <= e /\ e < ChunkEnd(j) + 1)
               <=> \/ First[j] <= e /\ e < jobs[j].cursor
                   \/ jobs[j].cursor <= e /\ e <= ChunkEnd(j)
          /\ ~ (e < jobs[j].cursor /\ jobs[j].cursor <= e)
    <3> SUFFICES ASSUME NEW e \in Nat
                 PROVE  /\ (First[j] <= e /\ e < ChunkEnd(j) + 1)
                             <=> \/ First[j] <= e /\ e < jobs[j].cursor
                                 \/ jobs[j].cursor <= e /\ e <= ChunkEnd(j)
                        /\ ~ (e < jobs[j].cursor /\ jobs[j].cursor <= e)
      OBVIOUS
    <3> QED
      BY <1>5, <1>6
  <2> QED
    BY <1>3, <2>1 DEF Behind, InSpan, Span
<1>7. jobs[j].cursor <= jobs'[j].cursor
  BY <1>3, <1>5
<1> QED
  BY <1>1, <1>2, <1>6, <1>7

LEMMA CommitExact ==
  ASSUME Exact, NEW t \in Thread, Commit(t) PROVE \A i \in Job : RowExact(i)'
<1> SUFFICES ASSUME NEW j, j = worker[t].job PROVE \A i \in Job : RowExact(i)'
  OBVIOUS
<1>1. Core /\ HandExact(t) /\ worker[t] \in WorkerState
  BY TypeParts DEF Exact, Core
<1>2. /\ j \in Job /\ jobs[j] \in Row
      /\ jobs'[j] = Advanced(jobs[j], ChunkEnd(j) + 1, worker[t])
      /\ \A i \in Job : i # j => jobs'[i] = jobs[i]
      /\ jobs[j].cursor <= jobs'[j].cursor
      /\ First[j] <= jobs[j].cursor =>
           /\ Behind(j)' = Behind(j) \cup InSpan(t)
           /\ Behind(j) \cap InSpan(t) = {}
  BY <1>1, CommitMoves
<1>3. /\ jobs[j].status # "none" /\ RowExact(j) /\ CountExact(t) /\ worker[t].pending = {}
  BY <1>1, <1>2 DEF Exact, Commit, At, Alive, Core, RowsExist, HandExact
<1>4. \A i \in Job : i # j => RowExact(i)'
  BY <1>2 DEF Exact, RowExact, Behind
<1> DEFINE n == worker[t].imported + worker[t].duplicates
<1>5. /\ n \in Nat
      /\ Cardinality(InSpan(t) \ Losable) <= n /\ n <= Cardinality(InSpan(t))
  <2>1. n \in Nat
    BY <1>1 DEF WorkerState
  <2>2. Cardinality(worker[t].pending) = 0
    BY <1>3, FS_EmptySet
  <2>3. n + Cardinality(worker[t].pending) = n
    BY <2>1, <2>2
  <2> QED
    BY <1>3, <2>1, <2>3 DEF CountExact
<1>6. /\ jobs'[j].received = jobs[j].received + n
      /\ jobs'[j].received = jobs'[j].imported + jobs'[j].duplicates
  <2>1. /\ jobs'[j].received = jobs[j].received + worker[t].imported + worker[t].duplicates
        /\ jobs'[j].imported = jobs[j].imported + worker[t].imported
        /\ jobs'[j].duplicates = jobs[j].duplicates + worker[t].duplicates
    BY <1>2 DEF Advanced, Row
  <2>2. /\ jobs[j].received \in Nat /\ jobs[j].imported \in Nat /\ jobs[j].duplicates \in Nat
        /\ worker[t].imported \in Nat /\ worker[t].duplicates \in Nat
    BY <1>1, <1>2 DEF Row, WorkerState
  <2>3. jobs[j].received = jobs[j].imported + jobs[j].duplicates
    BY <1>3 DEF RowExact
  <2> QED
    BY <2>1, <2>2, <2>3
<1> HIDE DEF n
<1>7. /\ Behind(j) \in SUBSET Recorded /\ InSpan(t) \in SUBSET Recorded
      /\ Behind(j)' = Behind(j) \cup InSpan(t) /\ Behind(j) \cap InSpan(t) = {}
  BY <1>2, <1>3 DEF RowExact, Behind, InSpan, Span
<1>8. /\ Cardinality(Behind(j)') = Cardinality(Behind(j)) + Cardinality(InSpan(t))
      /\ Cardinality(Behind(j)' \ Losable)
           = Cardinality(Behind(j) \ Losable) + Cardinality(InSpan(t) \ Losable)
  <2>1. Cardinality(Behind(j)') = Cardinality(Behind(j)) + Cardinality(InSpan(t))
    BY <1>7, Together
  <2>2. /\ Behind(j)' \ Losable = (Behind(j) \ Losable) \cup (InSpan(t) \ Losable)
        /\ Behind(j) \ Losable \in SUBSET Recorded /\ InSpan(t) \ Losable \in SUBSET Recorded
        /\ (Behind(j) \ Losable) \cap (InSpan(t) \ Losable) = {}
    BY <1>7
  <2>3. Cardinality((Behind(j) \ Losable) \cup (InSpan(t) \ Losable))
          = Cardinality(Behind(j) \ Losable) + Cardinality(InSpan(t) \ Losable)
    BY <2>2, Together
  <2> QED
    BY <2>1, <2>2, <2>3
<1>9. /\ Cardinality(Behind(j)) \in Nat /\ Cardinality(InSpan(t)) \in Nat
      /\ Cardinality(Behind(j) \ Losable) \in Nat /\ Cardinality(InSpan(t) \ Losable) \in Nat
  BY <1>7, Countable
<1>10. /\ Cardinality(Behind(j)' \ Losable) <= jobs'[j].received
       /\ jobs'[j].received <= Cardinality(Behind(j)')
  <2>1. /\ Cardinality(Behind(j) \ Losable) <= jobs[j].received
        /\ jobs[j].received <= Cardinality(Behind(j)) /\ jobs[j].received \in Nat
    BY <1>2, <1>3 DEF RowExact, Row
  <2>2. \A a, b, c, d, r \in Nat : a <= r /\ r <= b /\ c <= n /\ n <= d
          => a + c <= r + n /\ r + n <= b + d
    BY <1>5
  <2>3. /\ Cardinality(Behind(j) \ Losable) + Cardinality(InSpan(t) \ Losable)
             <= jobs[j].received + n
        /\ jobs[j].received + n <= Cardinality(Behind(j)) + Cardinality(InSpan(t))
    BY <1>5, <1>9, <2>1, <2>2
  <2> QED
    BY <1>6, <1>8, <2>3
<1>11. First[j] <= jobs'[j].cursor
  <2>1. First[j] \in Nat /\ jobs[j].cursor \in Nat /\ First[j] <= jobs[j].cursor
    BY <1>2, <1>3 DEF RowExact, Row
  <2>2. jobs'[j].cursor \in Nat
    BY <1>1, <1>2, CommitRow, ChunkEndNat DEF Core
  <2> QED
    BY <1>2, <2>1, <2>2
<1> QED
  BY <1>4, <1>6, <1>10, <1>11 DEF RowExact

LEMMA WorkerExact ==
  ASSUME Exact, NEW t \in Thread, WorkerStep(t) PROVE Exact'
<1>1. Core /\ Core' /\ HandExact(t)
  BY WorkerKeeps DEF Exact
<1>2. /\ jobs \in [Job -> Row] /\ worker \in [Thread -> WorkerState]
      /\ worker[t].job \in Job
  BY <1>1, TypeParts, WorkerWrites DEF Core
<1>3. \A i \in Job : RowExact(i)'
  <2>1. CASE jobs' = jobs
    BY <2>1 DEF Exact, RowExact, Behind
  <2>2. ASSUME NEW s \in {"running", "complete", "paused"}, SetStatus(worker[t].job, s),
               NEW i \in Job
        PROVE  RowExact(i)'
    <3>1. /\ jobs'[i].cursor = jobs[i].cursor /\ jobs'[i].received = jobs[i].received
          /\ jobs'[i].imported = jobs[i].imported /\ jobs'[i].duplicates = jobs[i].duplicates
      BY <1>2, <2>2 DEF SetStatus, Row
    <3>2. jobs[i].status = "none" => jobs'[i].status = "none"
      <4>1. jobs[worker[t].job].status # "none"
        BY <1>1 DEF Core, RowsExist, Alive, WorkerStep, Begin, Finish, Pause, NextChunk,
           Fail, PauseWithError, PauseFails, BeginFails, Fetch, Insert, Commit, Release,
           Exit, At
      <4> QED
        BY <1>2, <2>2, <4>1 DEF SetStatus
    <3> QED
      BY <3>1, <3>2 DEF Exact, RowExact, Behind
  <2>3. CASE Commit(t)
    BY <2>3, CommitExact
  <2> QED
    BY <1>1, <2>1, <2>2, <2>3, WorkerWrites
<1>4. HandExact(t)'
  <2>1. CASE Fetch(t)
    BY <1>1, <2>1, FetchExact
  <2>2. CASE Insert(t)
    BY <1>1, <2>2, InsertExact
  <2>3. CASE NextChunk(t)
    <3>1. /\ worker'[t].job = worker[t].job /\ worker'[t].pc = "fetch" /\ jobs' = jobs
          /\ jobs[worker[t].job].cursor <= End[worker[t].job]
      BY <1>2, <2>3 DEF NextChunk, Move, WorkerState
    <3> QED
      BY <3>1 DEF HandExact, At
  <2>4. CASE ~ Holding(t)'
    BY <2>4 DEF HandExact, Holding, At
  <2> QED
    BY <1>1, <2>1, <2>2, <2>3, <2>4, StepHands
<1>5. \A u \in Thread : HandExact(u)'
  <2> SUFFICES ASSUME NEW u \in Thread, u # t PROVE HandExact(u)'
    BY <1>4
  <2>1. ~ Holding(u)'
    BY <1>1, StepHands
  <2> QED
    BY <2>1 DEF HandExact, Holding, At
<1> QED
  BY <1>1, <1>3, <1>5 DEF Exact

LEMMA ProcessExact == Exact /\ (Stop \/ Restart \/ UNCHANGED vars) => Exact'
<1> SUFFICES ASSUME Exact, Stop \/ Restart \/ UNCHANGED vars PROVE Exact'
  OBVIOUS
<1>1. Core' /\ jobs' = jobs
  BY StopKeeps, RestartKeeps, CoreStutters DEF Exact, Stop, Restart, vars
<1>2. \A i \in Job : RowExact(i)'
  BY <1>1 DEF Exact, RowExact, Behind
<1>3. \A t \in Thread : HandExact(t)'
  <2>1. CASE Restart
    BY <2>1 DEF Restart, HandExact, Holding, At, Dead
  <2>2. CASE worker' = worker
    BY <1>1, <2>2 DEF Exact, HandExact, CountExact, InSpan, ChunkEnd, Holding, At
  <2> QED
    BY <2>1, <2>2 DEF Stop, vars
<1> QED
  BY <1>1, <1>2, <1>3 DEF Exact

LEMMA ExactInit == Init => Exact
<1> SUFFICES ASSUME Init PROVE Exact
  OBVIOUS
<1>1. \A j \in Job : jobs[j].status = "none"
  BY DEF Init, NoRow
<1>2. \A t \in Thread : worker[t].pc = "dead"
  BY DEF Init, Dead
<1> QED
  BY <1>1, <1>2, CoreInit DEF Exact, RowExact, HandExact, Holding, At

LEMMA ExactInv == Spec => []Exact
<1>1. Exact /\ [Next]_vars => Exact'
  BY ClientExact, WorkerExact, ProcessExact DEF Next
<1> QED
  BY <1>1, ExactInit, PTL DEF Spec

\* The progress shown for a job is exact, whatever failed on the way: every
\* record behind the cursor that was not lost was received once and counted
\* once, although a chunk that failed half-way is fetched and inserted again.
THEOREM ProgressIsExact == Spec => []ProgressExact
<1>1. Exact => ProgressExact
  <2> SUFFICES ASSUME Exact, NEW j \in Job, jobs[j].status # "none"
               PROVE  /\ jobs[j].received \in Cardinality(Behind(j) \ Losable) .. Cardinality(Behind(j))
                      /\ jobs[j].received = jobs[j].imported + jobs[j].duplicates
    BY DEF ProgressExact
  <2>1. jobs[j].received \in Nat
    BY TypeParts DEF Exact, Core, Row
  <2>2. Cardinality(Behind(j) \ Losable) \in Nat /\ Cardinality(Behind(j)) \in Nat
    <3>1. Behind(j) \in SUBSET Recorded /\ Behind(j) \ Losable \in SUBSET Recorded
      BY DEF Behind
    <3> QED
      BY <3>1, Countable
  <2> QED
    BY <2>1, <2>2 DEF Exact, RowExact
<1> QED
  BY <1>1, ExactInv, PTL

-----------------------------------------------------------------------------
(* Who may claim a stored row. *)

\* What a thread imported of the chunk in hand can be given to its job.
ClaimedInHand(claim, t) == {e \in stored : claim[e] = worker[t].job /\ e \in InSpan(t)}

Shares(claim) ==
  /\ \A j \in Job : jobs[j].imported <= Cardinality(ClaimedBehind(claim, j))
  /\ \A t \in Thread : At(t, "insert")
       => worker[t].imported <= Cardinality(ClaimedInHand(claim, t))

\* The invariant: the shares cover the rows of the chunk in hand as well.
Claimed == Exact /\ \E claim \in [stored -> Job] : Shares(claim)

LEMMA ClientClaimed ==
  ASSUME Claimed, NEW c \in Client, ClientStep(c) PROVE Claimed'
<1>1. Exact /\ Exact' /\ Core /\ jobs \in [Job -> Row]
  BY ClientExact, TypeParts DEF Claimed, Exact, Core
<1>2. PICK claim \in [stored -> Job] : Shares(claim)
  BY DEF Claimed
<1>3. stored' = stored
  BY <1>1, CallRows
<1>4. ASSUME NEW j \in Job
      PROVE  jobs'[j].imported <= Cardinality(ClaimedBehind(claim, j)')
  <2>1. CASE jobs'[j] = jobs[j]
    BY <1>2, <1>3, <2>1 DEF Shares, ClaimedBehind
  <2>2. CASE Requeued(jobs'[j], j)
    <3>1. jobs'[j].cursor = jobs[j].cursor /\ jobs'[j].imported = jobs[j].imported
      BY <1>1, <2>2 DEF Requeued, Row
    <3> QED
      BY <1>2, <1>3, <3>1 DEF Shares, ClaimedBehind
  <2>3. CASE jobs'[j] = FirstRow(j)
    <3>1. jobs'[j].imported = 0
      BY <2>3 DEF FirstRow, NoRow
    <3>2. ClaimedBehind(claim, j)' \in SUBSET Recorded
      BY <1>1, <1>3, TypeParts DEF ClaimedBehind, Core
    <3>3. Cardinality(ClaimedBehind(claim, j)') \in Nat
      BY <3>2, Countable
    <3> QED
      BY <3>1, <3>3
  <2> QED
    BY <1>1, <2>1, <2>2, <2>3, CallRows
<1>5. ASSUME NEW t \in Thread, worker'[t].pc = "insert"
      PROVE  worker'[t].imported <= Cardinality(ClaimedInHand(claim, t)')
  BY <1>1, <1>2, <1>3, <1>5, CallHands
     DEF Shares, ClaimedInHand, InSpan, ChunkEnd, Holding, At
<1>6. Shares(claim)' /\ claim \in [stored' -> Job]
  BY <1>3, <1>4, <1>5 DEF Shares, At
<1> QED
  BY <1>1, <1>6 DEF Claimed

LEMMA InsertClaims ==
  ASSUME Exact, Exact', NEW t \in Thread, Insert(t), NEW claim \in [stored -> Job], Shares(claim)
  PROVE  \E c \in [stored' -> Job] : Shares(c)'
<1>1. PICK e \in worker[t].pending :
        /\ stored' = stored \cup ({e} \cap Storable)
        /\ worker' = [worker EXCEPT ![t] = Counted(worker[t], e, e \in Storable \ stored)]
  BY DEF Insert
<1> DEFINE new == e \in Storable \ stored
<1>2. /\ worker \in [Thread -> WorkerState] /\ worker[t] \in WorkerState
      /\ jobs' = jobs /\ worker[t].pc = "insert" /\ Core /\ worker[t].job \in Job
      /\ stored \subseteq Recorded
  BY TypeParts, WorkerWrites DEF Exact, Core, Insert, At, WorkerStep
<1>3. /\ worker'[t].job = worker[t].job
      /\ worker'[t].imported = worker[t].imported + (IF new THEN 1 ELSE 0)
  <2>1. new \in BOOLEAN
    OBVIOUS
  <2>2. worker'[t] = Counted(worker[t], e, new)
    BY <1>1, <1>2
  <2> HIDE DEF new
  <2>3. Counted(worker[t], e, new).job = worker[t].job
    BY <1>2, CountedType
  <2>4. Counted(worker[t], e, new).imported = worker[t].imported + (IF new THEN 1 ELSE 0)
    BY <1>2, <2>1, CountedCounts
  <2> QED
    BY <2>2, <2>3, <2>4
<1>4. PICK c \in [stored' -> Job] :
        \A x \in stored' : c[x] = IF x \in stored THEN claim[x] ELSE worker[t].job
  <2>1. [x \in stored' |-> IF x \in stored THEN claim[x] ELSE worker[t].job] \in [stored' -> Job]
    BY <1>2
  <2> QED
    BY <2>1
<1>5. /\ stored \subseteq stored' /\ stored' \subseteq Recorded
      /\ \A x \in stored : c[x] = claim[x]
  BY <1>1, <1>2, <1>4
<1>6. ASSUME NEW j \in Job
      PROVE  jobs'[j].imported <= Cardinality(ClaimedBehind(c, j)')
  <2>1. /\ ClaimedBehind(claim, j) \in SUBSET (ClaimedBehind(c, j)')
        /\ ClaimedBehind(c, j)' \in SUBSET Recorded
    BY <1>2, <1>5 DEF ClaimedBehind
  <2>2. /\ Cardinality(ClaimedBehind(claim, j)) <= Cardinality(ClaimedBehind(c, j)')
        /\ Cardinality(ClaimedBehind(claim, j)) \in Nat /\ Cardinality(ClaimedBehind(c, j)') \in Nat
    BY <2>1, Countable
  <2>3. jobs'[j].imported <= Cardinality(ClaimedBehind(claim, j)) /\ jobs'[j].imported \in Nat
    BY <1>2, TypeParts DEF Shares, Core, Row
  <2> QED
    BY <2>2, <2>3
<1>7. InSpan(t)' = InSpan(t) /\ e \in InSpan(t)
  <2>1. InSpan(t)' = InSpan(t)
    BY <1>2, <1>3 DEF InSpan, ChunkEnd
  <2>2. worker[t].pending \subseteq InSpan(t)
    BY <1>2 DEF Exact, HandExact, At, CountExact
  <2> QED
    BY <2>1, <2>2
<1>8. worker'[t].imported <= Cardinality(ClaimedInHand(c, t)')
  <2> DEFINE hand == ClaimedInHand(claim, t)
  <2>1. /\ worker[t].imported <= Cardinality(hand) /\ worker[t].imported \in Nat
        /\ hand \in SUBSET Recorded
    BY <1>2 DEF Shares, At, WorkerState, ClaimedInHand
  <2>2. hand \in SUBSET (ClaimedInHand(c, t)') /\ ClaimedInHand(c, t)' \in SUBSET Recorded
    BY <1>3, <1>5, <1>7 DEF ClaimedInHand
  <2>3. /\ Cardinality(hand) <= Cardinality(ClaimedInHand(c, t)') /\ IsFiniteSet(hand)
        /\ Cardinality(hand) \in Nat /\ Cardinality(ClaimedInHand(c, t)') \in Nat
    BY <2>1, <2>2, Countable
  <2>4. CASE new
    <3>1. e \notin hand /\ hand \cup {e} \in SUBSET (ClaimedInHand(c, t)')
      BY <1>1, <1>3, <1>4, <1>7, <2>2, <2>4 DEF ClaimedInHand
    <3>2. Cardinality(hand \cup {e}) = Cardinality(hand) + 1
      BY <2>3, <3>1, FS_AddElement
    <3>3. Cardinality(hand) + 1 <= Cardinality(ClaimedInHand(c, t)')
      BY <2>2, <3>1, <3>2, Countable
    <3> HIDE DEF hand
    <3>4. worker'[t].imported = worker[t].imported + 1
      BY <1>3, <2>4
    <3> QED
      BY <2>1, <2>3, <3>3, <3>4
  <2>5. CASE ~ new
    <3> HIDE DEF hand
    <3>1. worker'[t].imported = worker[t].imported
      BY <1>3, <2>1, <2>5
    <3> QED
      BY <2>1, <2>3, <3>1
  <2> QED
    BY <2>4, <2>5
<1>9. \A u \in Thread : worker'[u].pc = "insert"
        => worker'[u].imported <= Cardinality(ClaimedInHand(c, u)')
  <2>1. \A u \in Thread : worker'[u].pc = "insert" => u = t
    BY <1>2, StepHands DEF WorkerStep, Holding
  <2> QED
    BY <1>8, <2>1
<1>10. Shares(c)'
  BY <1>6, <1>9 DEF Shares, At
<1> QED
  BY <1>10

LEMMA CommitClaims ==
  ASSUME Exact, NEW t \in Thread, Commit(t), NEW claim \in [stored -> Job], Shares(claim)
  PROVE  Shares(claim)'
<1> SUFFICES ASSUME NEW j, j = worker[t].job PROVE Shares(claim)'
  OBVIOUS
<1>1. /\ Core /\ HandExact(t) /\ worker[t] \in WorkerState /\ stored' = stored
      /\ stored \subseteq Recorded
  BY TypeParts DEF Exact, Core, Commit
<1>2. /\ j \in Job /\ jobs[j] \in Row
      /\ jobs'[j] = Advanced(jobs[j], ChunkEnd(j) + 1, worker[t])
      /\ \A i \in Job : i # j => jobs'[i] = jobs[i]
      /\ First[j] <= jobs[j].cursor =>
           /\ Behind(j)' = Behind(j) \cup InSpan(t)
           /\ Behind(j) \cap InSpan(t) = {}
  BY <1>1, CommitMoves
<1>3. /\ Behind(j)' = Behind(j) \cup InSpan(t) /\ Behind(j) \cap InSpan(t) = {}
      /\ worker[t].pc = "insert"
  BY <1>1, <1>2 DEF Exact, RowExact, Commit, At, Alive, Core, RowsExist
<1>4. \A i \in Job : i # j => jobs'[i].imported <= Cardinality(ClaimedBehind(claim, i)')
  BY <1>1, <1>2 DEF Shares, ClaimedBehind
<1>5. /\ ClaimedBehind(claim, j)' = ClaimedBehind(claim, j) \cup ClaimedInHand(claim, t)
      /\ ClaimedBehind(claim, j) \cap ClaimedInHand(claim, t) = {}
      /\ ClaimedBehind(claim, j) \in SUBSET Recorded /\ ClaimedInHand(claim, t) \in SUBSET Recorded
  <2>1. /\ ClaimedBehind(claim, j) = {e \in stored : claim[e] = j /\ e \in Behind(j)}
        /\ ClaimedBehind(claim, j)' = {e \in stored : claim[e] = j /\ e \in Behind(j)'}
        /\ ClaimedInHand(claim, t) = {e \in stored : claim[e] = j /\ e \in InSpan(t)}
    BY <1>1 DEF ClaimedBehind, Behind, ClaimedInHand
  <2> QED
    BY <1>1, <1>3, <2>1
<1>6. /\ Cardinality(ClaimedBehind(claim, j)')
           = Cardinality(ClaimedBehind(claim, j)) + Cardinality(ClaimedInHand(claim, t))
      /\ Cardinality(ClaimedBehind(claim, j)) \in Nat
      /\ Cardinality(ClaimedInHand(claim, t)) \in Nat
  BY <1>5, Together, Countable
<1>7. jobs'[j].imported <= Cardinality(ClaimedBehind(claim, j)')
  <2>1. jobs'[j].imported = jobs[j].imported + worker[t].imported
    BY <1>2 DEF Advanced, Row
  <2>2. /\ jobs[j].imported \in Nat /\ worker[t].imported \in Nat
        /\ jobs[j].imported <= Cardinality(ClaimedBehind(claim, j))
        /\ worker[t].imported <= Cardinality(ClaimedInHand(claim, t))
    BY <1>1, <1>2, <1>3 DEF Row, WorkerState, Shares, At
  <2> QED
    BY <1>6, <2>1, <2>2
<1>8. \A u \in Thread : worker'[u].pc # "insert"
  BY <1>1, StepHands DEF WorkerStep, Holding, NextChunk, Fetch, Insert, Commit, Move,
     WorkerState, At
<1> QED
  BY <1>4, <1>7, <1>8 DEF Shares, At

LEMMA WorkerClaimed ==
  ASSUME Claimed, NEW t \in Thread, WorkerStep(t) PROVE Claimed'
<1>1. Exact /\ Exact' /\ Core
  BY WorkerExact DEF Claimed, Exact
<1>2. PICK claim \in [stored -> Job] : Shares(claim)
  BY DEF Claimed
<1>3. /\ jobs \in [Job -> Row] /\ worker \in [Thread -> WorkerState]
      /\ worker[t].job \in Job /\ stored \subseteq Recorded
  BY <1>1, TypeParts, WorkerWrites DEF Core
<1>4. CASE Insert(t)
  BY <1>1, <1>2, <1>4, InsertClaims DEF Claimed
<1>5. CASE Commit(t)
  <2>1. stored' = stored
    BY <1>5 DEF Commit
  <2> QED
    BY <1>1, <1>2, <1>5, <2>1, CommitClaims DEF Claimed
<1>6. CASE ~ Insert(t) /\ ~ Commit(t)
  <2>1. stored' = stored
    BY <1>6 DEF WorkerStep, Begin, Finish, Pause, NextChunk, Fail, PauseWithError,
           PauseFails, BeginFails, Fetch, Release, Exit
  <2>2. \A j \in Job : jobs'[j].cursor = jobs[j].cursor /\ jobs'[j].imported = jobs[j].imported
    <3>1. CASE jobs' = jobs
      BY <3>1
    <3>2. ASSUME NEW s, SetStatus(worker[t].job, s)
          PROVE  \A j \in Job : /\ jobs'[j].cursor = jobs[j].cursor
                                /\ jobs'[j].imported = jobs[j].imported
      BY <1>3, <3>2 DEF SetStatus, Row
    <3> QED
      BY <1>1, <1>6, <3>1, <3>2, WorkerWrites
  <2>3. \A j \in Job : jobs'[j].imported <= Cardinality(ClaimedBehind(claim, j)')
    BY <1>2, <2>1, <2>2 DEF Shares, ClaimedBehind
  <2>4. ASSUME NEW u \in Thread, worker'[u].pc = "insert"
        PROVE  worker'[u].imported <= Cardinality(ClaimedInHand(claim, u)')
    <3>1. u = t /\ (NextChunk(t) \/ Fetch(t))
      BY <1>1, <1>6, <2>4, StepHands DEF Holding
    <3>2. worker'[u].imported = 0
      BY <1>3, <2>4, <3>1 DEF NextChunk, Fetch, Move, WorkerState
    <3>3. ClaimedInHand(claim, u)' \in SUBSET Recorded
      BY <1>3, <2>1 DEF ClaimedInHand
    <3>4. Cardinality(ClaimedInHand(claim, u)') \in Nat
      BY <3>3, Countable
    <3> QED
      BY <3>2, <3>4
  <2>5. Shares(claim)' /\ claim \in [stored' -> Job]
    BY <2>1, <2>3, <2>4 DEF Shares, At
  <2> QED
    BY <1>1, <2>5 DEF Claimed
<1> QED
  BY <1>4, <1>5, <1>6

LEMMA ProcessClaimed == Claimed /\ (Stop \/ Restart \/ UNCHANGED vars) => Claimed'
<1> SUFFICES ASSUME Claimed, Stop \/ Restart \/ UNCHANGED vars PROVE Claimed'
  OBVIOUS
<1>1. Exact' /\ jobs' = jobs /\ stored' = stored
  BY ProcessExact DEF Claimed, Stop, Restart, vars
<1>2. PICK claim \in [stored -> Job] : Shares(claim)
  BY DEF Claimed
<1>3. \A j \in Job : jobs'[j].imported <= Cardinality(ClaimedBehind(claim, j)')
  BY <1>1, <1>2 DEF Shares, ClaimedBehind
<1>4. \A t \in Thread : worker'[t].pc = "insert"
        => worker'[t].imported <= Cardinality(ClaimedInHand(claim, t)')
  <2>1. CASE Restart
    BY <2>1 DEF Restart, Dead
  <2>2. CASE worker' = worker
    BY <1>1, <1>2, <2>2 DEF Shares, ClaimedInHand, InSpan, ChunkEnd, At
  <2> QED
    BY <2>1, <2>2 DEF Stop, vars
<1>5. Shares(claim)' /\ claim \in [stored' -> Job]
  BY <1>1, <1>3, <1>4 DEF Shares, At
<1> QED
  BY <1>1, <1>5 DEF Claimed

LEMMA ClaimedInit == Init => Claimed
<1> SUFFICES ASSUME Init PROVE Claimed
  OBVIOUS
<1>1. /\ \A j \in Job : jobs[j].imported = 0
      /\ \A t \in Thread : worker[t].pc = "dead"
      /\ stored = {}
  BY DEF Init, NoRow, Dead
<1>2. [e \in {} |-> CHOOSE j \in Job : TRUE] \in [stored -> Job]
  BY <1>1
<1>3. ASSUME NEW claim \in [stored -> Job] PROVE Shares(claim)
  <2>1. \A j \in Job : ClaimedBehind(claim, j) = {}
    BY <1>1 DEF ClaimedBehind
  <2>2. \A j \in Job : Cardinality(ClaimedBehind(claim, j)) = 0
    BY <2>1, FS_EmptySet
  <2> QED
    BY <1>1, <2>2 DEF Shares, At
<1> QED
  BY <1>2, <1>3, ExactInit DEF Claimed

\* No stored row is claimed twice: the rows in the database can be shared out
\* so that every job has as many, from behind its own cursor, as it says it has
\* imported, although jobs overlap and failed chunks are inserted again.
THEOREM ClaimedOnce == Spec => []RowsClaimedOnce
<1>1. Claimed /\ [Next]_vars => Claimed'
  BY ClientClaimed, WorkerClaimed, ProcessClaimed DEF Next
<1>2. Claimed => RowsClaimedOnce
  BY DEF Claimed, Shares, RowsClaimedOnce
<1> QED
  BY <1>1, <1>2, ClaimedInit, PTL DEF Spec
=============================================================================
