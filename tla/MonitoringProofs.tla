---------------------------- MODULE MonitoringProofs ----------------------------
(***************************************************************************)
(* Proofs about the background monitoring.                                 *)
(*                                                                         *)
(* MonitoringService, for any number of threads and requests and any       *)
(* intervals: the types, and that two polling threads never run at once.   *)
(*                                                                         *)
(* AlertEngine, which evaluates what the polling thread and the requests   *)
(* store, for any number of nodes and threads, any clocks, limits and      *)
(* values: the types with the uniqueness of the rows, that no alert is     *)
(* without cause, and that an evaluation on its own settles the alert.     *)
(***************************************************************************)
EXTENDS MonitoringService, AlertEngine, FiniteSetTheorems, TLAPS

-----------------------------------------------------------------------------
(* Arithmetic of the intervals. *)

LEMMA MaxOfTwo ==
  ASSUME NEW a \in Nat, NEW b \in Nat
  PROVE  Max({a, b}) \in Nat /\ Max({a, b}) >= a /\ Max({a, b}) >= b
                              /\ Max({a, b}) \in {a, b}
<1>1. \E x \in {a, b} : \A y \in {a, b} : x >= y
  OBVIOUS
<1> QED
  BY <1>1 DEF Max

LEMMA MinOfTwo ==
  ASSUME NEW a \in Nat, NEW b \in Nat
  PROVE  Min({a, b}) \in Nat /\ Min({a, b}) <= a /\ Min({a, b}) <= b
                              /\ Min({a, b}) \in {a, b}
<1>1. \E x \in {a, b} : \A y \in {a, b} : x <= y
  OBVIOUS
<1> QED
  BY <1>1 DEF Min

MeasureMax == Max({MeasureEvery, Retry})
HealthMax  == Max({HealthEvery, Retry})

LEMMA Intervals ==
  /\ MeasureMax \in Nat /\ MeasureEvery \in 0 .. MeasureMax /\ Retry \in 0 .. MeasureMax
  /\ HealthMax \in Nat /\ HealthEvery \in 0 .. HealthMax /\ Retry \in 0 .. HealthMax
  /\ PollWait \in Nat /\ JoinSeconds \in Nat
  /\ MaxAge \in Nat /\ NoSample \notin Nat
  /\ MaxFaults \in Nat /\ MaxRestarts \in Nat
<1>1. MeasureEvery \in Nat /\ HealthEvery \in Nat /\ Retry \in Nat /\ MissingAfter \in Nat
      /\ Retention \in Nat /\ JoinSeconds \in Nat
  BY MonitoringAssumption
<1>2. MeasureMax \in Nat /\ MeasureEvery <= MeasureMax /\ Retry <= MeasureMax
  BY <1>1, MaxOfTwo DEF MeasureMax
<1>3. HealthMax \in Nat /\ HealthEvery <= HealthMax /\ Retry <= HealthMax
  BY <1>1, MaxOfTwo DEF HealthMax
<1>4. MaxAge \in Nat
  BY <1>1, MaxOfTwo DEF MaxAge
<1>5. PollWait \in Nat
  BY <1>1, MinOfTwo DEF PollWait
<1> QED
  BY <1>1, <1>2, <1>3, <1>4, <1>5, MonitoringAssumption

LEMMA LessBound ==
  ASSUME NEW m \in Nat, NEW n \in 0 .. m
  PROVE  Less(n) \in 0 .. m
BY DEF Less

-----------------------------------------------------------------------------
(* Types. *)

Work == [pc : {"loop", "config", "live", "health", "missing", "set", "cleanup", "wait", "dead"},
         measureIn : 0 .. MeasureMax, healthIn : 0 .. HealthMax,
         healthDue : BOOLEAN, aged : BOOLEAN, sleep : 0 .. PollWait]

Calling == [pc : {"idle", "start", "stop", "join"}, joined : SUBSET Thread,
            left : 0 .. JoinSeconds]

LEMMA Types ==
  TypeOK <=>
    /\ enabled \in BOOLEAN /\ stop \in BOOLEAN
    /\ thread \in SUBSET Thread
    /\ worker \in [Thread -> Work] /\ caller \in [Caller -> Calling]
    /\ plugged \in BOOLEAN /\ missing \in BOOLEAN
    /\ latest \in 0 .. MaxAge \cup {NoSample}
    /\ faults \in 0 .. MaxFaults /\ restarts \in 0 .. MaxRestarts
BY DEF TypeOK, Work, Calling, MeasureMax, HealthMax

LEMMA TypesPrimed ==
  TypeOK' <=>
    /\ enabled' \in BOOLEAN /\ stop' \in BOOLEAN
    /\ thread' \in SUBSET Thread
    /\ worker' \in [Thread -> Work] /\ caller' \in [Caller -> Calling]
    /\ plugged' \in BOOLEAN /\ missing' \in BOOLEAN
    /\ latest' \in 0 .. MaxAge \cup {NoSample}
    /\ faults' \in 0 .. MaxFaults /\ restarts' \in 0 .. MaxRestarts
BY DEF TypeOK, Work, Calling, MeasureMax, HealthMax

LEMMA InitialRecords ==
  /\ Dead \in Work /\ Started \in Work /\ Dead.pc = "dead" /\ Started.pc = "loop"
  /\ Idle \in Calling
<1>1. Dead \in Work /\ Dead.pc = "dead"
  BY Intervals DEF Dead, Work
<1>2. Started \in Work /\ Started.pc = "loop"
  BY <1>1, Intervals DEF Started, Dead, Work
<1>3. Idle \in Calling
  BY Intervals DEF Idle, Calling
<1> QED
  BY <1>1, <1>2, <1>3

LEMMA TypesInit == Init => TypeOK
<1> SUFFICES ASSUME Init PROVE TypeOK
  OBVIOUS
<1>1. thread \in SUBSET Thread
  BY DEF Init
<1>2. worker \in [Thread -> Work]
  <2>1. PICK t \in Thread : worker = [u \in Thread |-> IF u \in thread THEN Started ELSE Dead]
    BY DEF Init
  <2> QED
    BY <2>1, InitialRecords
<1>3. caller \in [Caller -> Calling]
  BY InitialRecords DEF Init
<1>4. /\ latest \in 0 .. MaxAge \cup {NoSample}
      /\ faults \in 0 .. MaxFaults /\ restarts \in 0 .. MaxRestarts
  BY Intervals DEF Init
<1> QED
  BY <1>1, <1>2, <1>3, <1>4, Types DEF Init

\* What one step of a thread makes of its record: of the right type, and a
\* dead thread does not move.
LEMMA WorkerRecord ==
  ASSUME TypeOK, NEW t \in Thread, WorkerStep(t)
  PROVE  Alive(t) /\ \E w \in Work : worker' = [worker EXCEPT ![t] = w]
<1>1. worker[t] \in Work /\ worker \in [Thread -> Work]
  BY Types
<1>2. CASE Loop(t)
  <2>1. [worker[t] EXCEPT !.pc = "config"] \in Work
    BY <1>1 DEF Work
  <2> QED
    BY <1>2, <2>1, InitialRecords DEF Loop, At, Move, Alive
<1>3. CASE Config(t)
  <2>1. \A pc \in {"live", "health", "missing"}, b \in BOOLEAN :
          [worker[t] EXCEPT !.healthDue = b, !.pc = pc] \in Work
    BY <1>1 DEF Work
  <2>2. (IF worker[t].measureIn = 0 THEN "live"
         ELSE IF worker[t].healthIn = 0 THEN "health" ELSE "missing")
          \in {"live", "health", "missing"}
    OBVIOUS
  <2>3. (worker[t].healthIn = 0) \in BOOLEAN
    OBVIOUS
  <2> QED
    BY <1>3, <2>1, <2>2, <2>3, InitialRecords DEF Config, At, Alive
<1>4. CASE ConfigFails(t)
  BY <1>4, InitialRecords DEF ConfigFails, At, Alive
<1>5. CASE ReadLive(t)
  <2>1. [worker[t] EXCEPT !.measureIn = MeasureEvery,
                          !.pc = IF worker[t].healthDue THEN "health" ELSE "missing"] \in Work
    BY <1>1, Intervals DEF Work
  <2> QED
    BY <1>5, <2>1 DEF ReadLive, At, Alive
<1>6. CASE ReadHealth(t)
  <2>1. [worker[t] EXCEPT !.healthIn = HealthEvery, !.pc = "missing"] \in Work
    BY <1>1, Intervals DEF Work
  <2> QED
    BY <1>6, <2>1 DEF ReadHealth, At, Alive
<1>7. CASE EvaluateMissing(t)
  <2>1. [worker[t] EXCEPT !.pc = "cleanup"] \in Work
    BY <1>1 DEF Work
  <2>2. \A b \in BOOLEAN : [worker[t] EXCEPT !.pc = "set", !.aged = b] \in Work
    BY <1>1 DEF Work
  <2>3. (latest >= MissingAfter) \in BOOLEAN
    OBVIOUS
  <2>4. CASE latest = NoSample
    BY <1>7, <2>1, <2>4 DEF EvaluateMissing, At, Alive
  <2>5. CASE latest # NoSample
    <3>1. worker' = [worker EXCEPT ![t] =
                       [worker[t] EXCEPT !.pc = "set", !.aged = latest >= MissingAfter]]
      BY <1>7, <2>5 DEF EvaluateMissing
    <3>2. [worker[t] EXCEPT !.pc = "set", !.aged = latest >= MissingAfter] \in Work
      BY <2>2, <2>3
    <3> QED
      BY <1>7, <3>1, <3>2 DEF EvaluateMissing, At, Alive
  <2> QED
    BY <2>4, <2>5
<1>8. CASE SetMissing(t)
  <2>1. [worker[t] EXCEPT !.pc = "cleanup", !.aged = FALSE] \in Work
    BY <1>1 DEF Work
  <2> QED
    BY <1>8, <2>1 DEF SetMissing, At, Alive
<1>9. Sleep(worker[t]) \in Work
  <2>1. PollWait \in 0 .. PollWait
    BY Intervals
  <2> QED
    BY <1>1, <2>1 DEF Sleep, Work
<1>10. CASE Cleanup(t)
  BY <1>9, <1>10 DEF Cleanup, At, Alive
<1>11. CASE Fails(t)
  <2>1. /\ Max({worker[t].measureIn, Retry}) \in 0 .. MeasureMax
        /\ Max({worker[t].healthIn, Retry}) \in 0 .. HealthMax
    BY <1>1, Intervals, MaxOfTwo DEF Work
  <2>2. [Sleep(worker[t]) EXCEPT !.measureIn = Max({worker[t].measureIn, Retry}),
                                 !.healthIn = Max({worker[t].healthIn, Retry})] \in Work
    BY <1>9, <2>1 DEF Work
  <2> QED
    BY <1>11, <2>2 DEF Fails, PassFails, At, Alive
<1>12. CASE Wake(t)
  <2>1. 0 \in 0 .. PollWait
    BY Intervals
  <2>2. [worker[t] EXCEPT !.pc = "loop", !.sleep = 0] \in Work
    BY <1>1, <2>1 DEF Work
  <2> QED
    BY <1>12, <2>2 DEF Wake, At, Alive
<1> QED
  BY <1>2, <1>3, <1>4, <1>5, <1>6, <1>7, <1>8, <1>10, <1>11, <1>12 DEF WorkerStep

LEMMA TypesWorker ==
  ASSUME TypeOK, NEW t \in Thread, WorkerStep(t)
  PROVE  TypeOK'
<1>1. worker' \in [Thread -> Work]
  BY WorkerRecord, Types
<1>2. UNCHANGED <<enabled, stop, thread, caller, plugged, restarts>>
  BY DEF WorkerStep, Loop, Config, ConfigFails, ReadLive, ReadHealth, EvaluateMissing,
         SetMissing, Cleanup, Fails, Wake
<1>3. latest' \in 0 .. MaxAge \cup {NoSample}
  BY Types, Intervals
  DEF WorkerStep, Loop, Config, ConfigFails, ReadLive, ReadHealth, EvaluateMissing,
      SetMissing, Cleanup, Fails, Wake
<1>4. missing' \in BOOLEAN
  <2>1. worker[t].aged \in BOOLEAN
    BY Types DEF Work
  <2>2. missing' = missing \/ missing' = worker[t].aged
    BY DEF WorkerStep, Loop, Config, ConfigFails, ReadLive, ReadHealth, EvaluateMissing,
           SetMissing, Cleanup, Fails, Wake
  <2> QED
    BY <2>1, <2>2, Types
<1>5. faults' \in 0 .. MaxFaults
  BY Types, Intervals
  DEF WorkerStep, Loop, Config, ConfigFails, ReadLive, ReadHealth, EvaluateMissing,
      SetMissing, Cleanup, Fails, PassFails, Wake, StoreFails
<1> QED
  BY <1>1, <1>2, <1>3, <1>4, <1>5, Types, TypesPrimed

LEMMA TypesCaller ==
  ASSUME TypeOK, NEW c \in Caller,
         (\E on \in BOOLEAN : UpdateConfig(c, on)) \/ Ingest(c) \/ CallStep(c)
  PROVE  TypeOK'
<1>1. caller[c] \in Calling /\ caller \in [Caller -> Calling]
  BY Types
<1>2. CASE \E on \in BOOLEAN : UpdateConfig(c, on)
  <2>1. caller' \in [Caller -> Calling]
    BY <1>1, <1>2 DEF UpdateConfig, Calling
  <2> QED
    BY <1>2, <2>1, Types, TypesPrimed DEF UpdateConfig
<1>3. CASE Ingest(c)
  BY <1>3, Types, TypesPrimed, Intervals DEF Ingest
<1>4. CASE StartFindsAlive(c) \/ Join(c)
  BY <1>1, <1>4, InitialRecords, Types, TypesPrimed DEF StartFindsAlive, Join, Return
<1>5. CASE Start(c)
  BY <1>1, <1>5, InitialRecords, Types, TypesPrimed DEF Start, Return
<1>6. CASE Stop(c)
  <2>1. [pc |-> "join", joined |-> thread, left |-> JoinSeconds] \in Calling
    BY Types, Intervals DEF Calling
  <2> QED
    BY <1>1, <1>6, <2>1, Types, TypesPrimed DEF Stop
<1> QED
  BY <1>2, <1>3, <1>4, <1>5, <1>6 DEF CallStep

LEMMA TypesTime ==
  ASSUME TypeOK, Tick \/ Plug \/ Restart
  PROVE  TypeOK'
<1>1. CASE Tick
  <2>1. \A t \in Thread :
          [worker[t] EXCEPT !.measureIn = Less(@), !.healthIn = Less(@), !.sleep = Less(@)]
            \in Work
    BY Types, Intervals, LessBound DEF Work
  <2>2. \A c \in Caller : [caller[c] EXCEPT !.left = Less(@)] \in Calling
    BY Types, Intervals, LessBound DEF Calling
  <2>3. latest' \in 0 .. MaxAge \cup {NoSample}
    <3>1. CASE latest = NoSample
      BY <1>1, <3>1 DEF Tick
    <3>2. CASE latest # NoSample
      <4>1. latest \in Nat
        BY <3>2, Types, Intervals
      <4>2. latest' = Min({latest + 1, MaxAge})
        BY <1>1, <3>2 DEF Tick
      <4>3. Min({latest + 1, MaxAge}) \in 0 .. MaxAge
        BY <4>1, Intervals, MinOfTwo
      <4> QED
        BY <4>2, <4>3
    <3> QED
      BY <3>1, <3>2
  <2>4. worker' \in [Thread -> Work]
    BY <1>1, <2>1 DEF Tick
  <2>5. caller' \in [Caller -> Calling]
    BY <1>1, <2>2 DEF Tick
  <2> QED
    BY <1>1, <2>3, <2>4, <2>5, Types, TypesPrimed DEF Tick
<1>2. CASE Plug
  BY <1>2, Types, TypesPrimed DEF Plug
<1>3. CASE Restart
  <2>1. worker' \in [Thread -> Work]
    <3>1. PICK t \in Thread :
            worker' = [u \in Thread |-> IF u \in thread' THEN Started ELSE Dead]
      BY <1>3 DEF Restart
    <3> QED
      BY <3>1, InitialRecords
  <2>2. caller' \in [Caller -> Calling]
    BY <1>3, InitialRecords DEF Restart
  <2>3. restarts' \in 0 .. MaxRestarts
    BY <1>3, Types, Intervals DEF Restart
  <2>4. thread' \in SUBSET Thread /\ enabled' \in BOOLEAN
    BY <1>3, Types DEF Restart
  <2> QED
    BY <1>3, <2>1, <2>2, <2>3, <2>4, Types, TypesPrimed DEF Restart
<1> QED
  BY <1>1, <1>2, <1>3

LEMMA TypesStep == TypeOK /\ [Next]_vars => TypeOK'
<1> SUFFICES ASSUME TypeOK, [Next]_vars PROVE TypeOK'
  OBVIOUS
<1>1. CASE UNCHANGED vars
  BY <1>1, Types, TypesPrimed DEF vars
<1> QED
  BY <1>1, TypesCaller, TypesWorker, TypesTime DEF Next

\* The configuration, the threads with their times and the calls keep their
\* types: no wait is longer than the longest interval.
THEOREM MonitoringTypes == Spec => []TypeOK
BY TypesInit, TypesStep, PTL DEF Spec

-----------------------------------------------------------------------------
(* One polling thread. *)

\* The service knows the only thread that may be alive.
Known ==
  /\ \A t \in Thread : Alive(t) => t \in thread
  /\ \A t, u \in thread : t = u

LEMMA KnownInit == Init => Known
BY InitialRecords DEF Init, Known, Alive

LEMMA KnownStep == TypeOK /\ Known /\ [Next]_vars => Known'
<1> SUFFICES ASSUME TypeOK, Known, [Next]_vars PROVE Known'
  OBVIOUS
<1>1. ASSUME NEW t \in Thread, WorkerStep(t)
      PROVE  Known'
  <2>1. thread' = thread
    BY <1>1
    DEF WorkerStep, Loop, Config, ConfigFails, ReadLive, ReadHealth, EvaluateMissing,
        SetMissing, Cleanup, Fails, Wake
  <2>2. \A u \in Thread : Alive(u)' => Alive(u)
    BY <1>1, WorkerRecord, Types DEF Alive
  <2> QED
    BY <2>1, <2>2 DEF Known
<1>2. ASSUME NEW c \in Caller, Start(c)
      PROVE  Known'
  BY <1>2, Types, InitialRecords DEF Start, Known, Alive
<1>3. ASSUME NEW c \in Caller,
             (\E on \in BOOLEAN : UpdateConfig(c, on)) \/ Ingest(c) \/ StartFindsAlive(c)
               \/ Stop(c) \/ Join(c)
      PROVE  Known'
  BY <1>3 DEF UpdateConfig, Ingest, StartFindsAlive, Stop, Join, Known, Alive
<1>4. CASE Tick
  <2>1. \A t \in Thread : worker'[t].pc = worker[t].pc
    BY <1>4, Types DEF Tick, Work
  <2> QED
    BY <1>4, <2>1 DEF Tick, Known, Alive
<1>5. CASE Plug \/ UNCHANGED vars
  BY <1>5 DEF Plug, vars, Known, Alive
<1>6. CASE Restart
  BY <1>6, InitialRecords DEF Restart, Known, Alive
<1> QED
  BY <1>1, <1>2, <1>3, <1>4, <1>5, <1>6 DEF Next, CallStep

\* Two polling threads never run at once, although a call that waits for the
\* old one gives up and another may start the next at once.
THEOREM OnePollingThread == Spec => []OneMonitor
<1>1. Known => OneMonitor
  <2> SUFFICES ASSUME Known PROVE OneMonitor
    OBVIOUS
  <2> DEFINE alive == {t \in Thread : Alive(t)}
  <2>1. alive = {} \/ \E t \in Thread : alive = {t}
    BY DEF Known
  <2>2. Cardinality({}) = 0 /\ \A t \in Thread : Cardinality({t}) = 1
    BY FS_EmptySet, FS_Singleton
  <2>3. Cardinality(alive) \in {0, 1}
    BY <2>1, <2>2
  <2> QED
    BY <2>3 DEF OneMonitor
<1> QED
  BY <1>1, MonitoringTypes, KnownInit, KnownStep, PTL DEF Spec

-----------------------------------------------------------------------------
(* Alerts. *)

Evaluation == [pc : {"idle", "previous", "insert", "current", "absolute", "rate"},
         reading : Row \cup {NoRow}, previous : Row \cup {NoRow},
         current : Row \cup {NoRow}, alone : BOOLEAN]

Unique(rows) == \A r, s \in rows : r.node = s.node /\ r.ts = s.ts => r = s

\* What a thread that evaluates may hold, when these rows were ever stored: a
\* reading, a row it saw before and, once it sets alerts, the row it judges.
Sound(w, rows) ==
  /\ w.pc # "idle" => w.reading \in Row
  /\ w.previous \in rows \cup {NoRow}
  /\ w.pc \in {"absolute", "rate"} => w.current \in rows

\* What an alert may be open for, when these rows were ever stored.
Caused(alert, rows) ==
  /\ alert[2] = "absolute" => \E s \in rows : s.node = alert[1] /\ s.tilt >= Limit
  /\ alert[2] = "rate" => \E r, s \in rows : s.node = alert[1] /\ Steep(r, s)

\* The inductive invariant.
Inv ==
  /\ AlertTypeOK
  /\ \A e \in Evaluator : Sound(eval[e], ever)
  /\ \A alert \in open : Caused(alert, ever)

LEMMA Unfold ==
  Inv <=>
    /\ samples \subseteq ever /\ ever \subseteq Row /\ Unique(samples)
    /\ open \subseteq Node \X Rules
    /\ eval \in [Evaluator -> Evaluation]
    /\ now \in 0 .. MaxTime
    /\ \A e \in Evaluator : Sound(eval[e], ever)
    /\ \A alert \in open : Caused(alert, ever)
BY DEF Inv, AlertTypeOK, Evaluation, Unique

LEMMA UnfoldPrimed ==
  Inv' <=>
    /\ samples' \subseteq ever' /\ ever' \subseteq Row /\ Unique(samples')
    /\ open' \subseteq Node \X Rules
    /\ eval' \in [Evaluator -> Evaluation]
    /\ now' \in 0 .. MaxTime
    /\ \A e \in Evaluator : Sound(eval'[e], ever')
    /\ \A alert \in open' : Caused(alert, ever')
BY DEF Inv, AlertTypeOK, Evaluation, Unique, Sound, Caused

\* What is sound or caused stays so while rows are added to those ever stored.
LEMMA Grows ==
  ASSUME NEW old, NEW new, old \subseteq new
  PROVE  /\ \A w : Sound(w, old) => Sound(w, new)
         /\ \A alert : Caused(alert, old) => Caused(alert, new)
BY DEF Sound, Caused

LEMMA IdleSound == NoEvaluation \in Evaluation /\ NoEvaluation.pc = "idle" /\ \A rows : Sound(NoEvaluation, rows)
BY DEF NoEvaluation, Evaluation, Sound

LEMMA LatestStored ==
  ASSUME Inv, NEW s \in Latest
  PROVE  s \in ever \cup {NoRow} /\ s \in Row \cup {NoRow}
BY Unfold DEF Latest

\* A step that changes one thread's record, to another sound one.
LEMMA OneThread ==
  ASSUME Inv, NEW e \in Evaluator, NEW w \in Evaluation, Sound(w, ever),
         eval' = [eval EXCEPT ![e] = w]
  PROVE  eval' \in [Evaluator -> Evaluation] /\ \A d \in Evaluator : Sound(eval'[d], ever)
BY Unfold

-----------------------------------------------------------------------------
LEMMA InvInit == AlertInit => Inv
<1> SUFFICES ASSUME AlertInit PROVE Inv
  OBVIOUS
<1>1. eval \in [Evaluator -> Evaluation] /\ \A e \in Evaluator : Sound(eval[e], ever)
  BY IdleSound DEF AlertInit
<1>2. now \in 0 .. MaxTime
  BY AlertAssumption DEF AlertInit
<1> QED
  BY <1>1, <1>2, Unfold DEF AlertInit, Unique

\* A record whose "alone" changed is as sound.
LEMMA Overlapped ==
  ASSUME NEW w \in Evaluation, NEW b \in BOOLEAN
  PROVE  /\ [w EXCEPT !.alone = b] \in Evaluation
         /\ \A rows : Sound(w, rows) => Sound([w EXCEPT !.alone = b], rows)
<1>1. [w EXCEPT !.alone = b] \in Evaluation
  BY DEF Evaluation
<1>2. /\ [w EXCEPT !.alone = b].pc = w.pc /\ [w EXCEPT !.alone = b].reading = w.reading
      /\ [w EXCEPT !.alone = b].previous = w.previous
      /\ [w EXCEPT !.alone = b].current = w.current
  BY DEF Evaluation
<1> QED
  BY <1>1, <1>2 DEF Sound

LEMMA InvReceive ==
  ASSUME Inv, NEW e \in Evaluator, NEW n \in Node, NEW x \in Tilts,
         Receive(e, n, x)
  PROVE  Inv'
<1> DEFINE row  == [node |-> n, ts |-> now + 1 + Skew[n], tilt |-> x]
           work == [NoEvaluation EXCEPT !.pc = "previous", !.alone = Busy = {}, !.reading = row]
<1>1. row \in Row
  BY Unfold, AlertAssumption DEF Row
<1>2. work \in Evaluation /\ Sound(work, ever)
  <2>1. (Busy = {}) \in BOOLEAN
    OBVIOUS
  <2> QED
    BY <1>1, <2>1 DEF Evaluation, NoEvaluation, Sound
<1>3. \A d \in Evaluator : /\ [eval[d] EXCEPT !.alone = IsAt(d, "idle")] \in Evaluation
                           /\ Sound([eval[d] EXCEPT !.alone = IsAt(d, "idle")], ever)
  BY Overlapped, Unfold DEF IsAt
<1>4. eval' \in [Evaluator -> Evaluation] /\ \A d \in Evaluator : Sound(eval'[d], ever)
  BY <1>2, <1>3 DEF Receive
<1>5. now' \in 0 .. MaxTime
  <2>1. now \in 0 .. MaxTime /\ MaxTime \in Nat
    BY Unfold, AlertAssumption
  <2>2. now < MaxTime /\ now' = now + 1
    BY DEF Receive
  <2> QED
    BY <2>1, <2>2
<1> QED
  BY <1>4, <1>5, Unfold, UnfoldPrimed DEF Receive

LEMMA InvRead ==
  ASSUME Inv, NEW e \in Evaluator, ReadPrevious(e) \/ ReadCurrent(e)
  PROVE  Inv'
<1>1. eval[e] \in Evaluation /\ Sound(eval[e], ever)
  BY Unfold
<1>2. PICK s \in Latest :
        \/ IsAt(e, "previous") /\ eval' = [eval EXCEPT ![e] =
                                  [eval[e] EXCEPT !.previous = s, !.pc = "insert"]]
        \/ eval' = [eval EXCEPT ![e] = NoEvaluation]
        \/ /\ IsAt(e, "current") /\ s # NoRow
           /\ eval' = [eval EXCEPT ![e] =
                [eval[e] EXCEPT !.current = s, !.pc = "absolute"]]
  BY DEF ReadPrevious, ReadCurrent
<1>3. s \in ever \cup {NoRow} /\ s \in Row \cup {NoRow}
  BY LatestStored
<1>4. CASE IsAt(e, "previous") /\ eval' = [eval EXCEPT ![e] =
                                  [eval[e] EXCEPT !.previous = s, !.pc = "insert"]]
  <2> DEFINE w == [eval[e] EXCEPT !.previous = s, !.pc = "insert"]
  <2>1. w \in Evaluation /\ Sound(w, ever)
    BY <1>1, <1>3, <1>4 DEF Evaluation, Sound, IsAt
  <2> QED
    BY <1>4, <2>1, OneThread, Unfold, UnfoldPrimed DEF ReadPrevious, ReadCurrent
<1>5. CASE eval' = [eval EXCEPT ![e] = NoEvaluation]
  BY <1>5, IdleSound, OneThread, Unfold, UnfoldPrimed DEF ReadPrevious,
     ReadCurrent
<1>6. CASE /\ IsAt(e, "current") /\ s # NoRow
           /\ eval' = [eval EXCEPT ![e] =
                [eval[e] EXCEPT !.current = s, !.pc = "absolute"]]
  <2> DEFINE w == [eval[e] EXCEPT !.current = s, !.pc = "absolute"]
  <2>1. w \in Evaluation /\ Sound(w, ever)
    BY <1>1, <1>3, <1>6 DEF Evaluation, Sound, IsAt
  <2> QED
    BY <1>6, <2>1, OneThread, Unfold, UnfoldPrimed DEF ReadPrevious, ReadCurrent
<1> QED
  BY <1>2, <1>4, <1>5, <1>6

\* A row that is added to the table while no row with its key is there.
LEMMA RowAdded ==
  ASSUME Inv, NEW row \in Row, ~ Stored(row),
         samples' = samples \cup {row}, ever' = ever \cup {row}
  PROVE  /\ samples' \subseteq ever' /\ ever' \subseteq Row /\ Unique(samples')
         /\ \A w : Sound(w, ever) => Sound(w, ever')
         /\ \A alert \in open : Caused(alert, ever')
<1>1. Unique(samples')
  BY Unfold DEF Unique, Stored
<1>2. ever \subseteq ever'
  OBVIOUS
<1> QED
  BY <1>1, <1>2, Grows, Unfold

LEMMA InvInsert ==
  ASSUME Inv, NEW e \in Evaluator, Insert(e)
  PROVE  Inv'
<1>1. eval[e] \in Evaluation /\ Sound(eval[e], ever) /\ eval[e].reading \in Row
  BY Unfold DEF Insert, IsAt, Sound
<1>2. CASE Stored(eval[e].reading)
  <2>1. eval' \in [Evaluator -> Evaluation] /\ \A d \in Evaluator : Sound(eval'[d], ever)
    BY <1>2, IdleSound, OneThread DEF Insert
  <2> QED
    BY <1>2, <2>1, Unfold, UnfoldPrimed DEF Insert
<1>3. CASE ~ Stored(eval[e].reading)
  <2> DEFINE w == [eval[e] EXCEPT !.pc = "current"]
  <2>1. w \in Evaluation /\ Sound(w, ever)
    BY <1>1 DEF Evaluation, Sound
  <2>2. eval' \in [Evaluator -> Evaluation] /\ \A d \in Evaluator : Sound(eval'[d], ever)
    BY <1>3, <2>1, OneThread DEF Insert
  <2>3. samples' = samples \cup {eval[e].reading} /\ ever' = ever \cup {eval[e].reading}
    BY <1>3 DEF Insert
  <2>4. /\ samples' \subseteq ever' /\ ever' \subseteq Row /\ Unique(samples')
        /\ \A d \in Evaluator : Sound(eval'[d], ever')
        /\ \A alert \in open : Caused(alert, ever')
    BY <1>1, <1>3, <2>2, <2>3, RowAdded
  <2> QED
    BY <2>2, <2>4, Unfold, UnfoldPrimed DEF Insert
<1> QED
  BY <1>2, <1>3

\* An alert is set only for the node of the row that is judged.
LEMMA InvSet ==
  ASSUME Inv, NEW e \in Evaluator, SetAbsolute(e) \/ SetRate(e)
  PROVE  Inv'
<1>1. eval[e] \in Evaluation /\ Sound(eval[e], ever)
  BY Unfold
<1>2. eval[e].current \in ever /\ eval[e].current \in Row
  BY <1>1, Unfold DEF SetAbsolute, SetRate, IsAt, Sound
<1>3. eval[e].current.node \in Node
  BY <1>2 DEF Row
<1>4. eval' \in [Evaluator -> Evaluation] /\ \A d \in Evaluator : Sound(eval'[d], ever)
  <2> DEFINE w == [eval[e] EXCEPT !.pc = "rate"]
  <2>1. w \in Evaluation /\ Sound(w, ever)
    <3>1. /\ w \in Evaluation
          /\ w.pc = "rate" /\ w.reading = eval[e].reading
          /\ w.previous = eval[e].previous /\ w.current = eval[e].current
      BY <1>1 DEF Evaluation
    <3>2. eval[e].reading \in Row
      BY <1>1 DEF SetAbsolute, SetRate, IsAt, Sound
    <3> QED
      BY <1>1, <1>2, <3>1, <3>2 DEF Sound
  <2>2. CASE SetAbsolute(e)
    BY <2>1, <2>2, OneThread DEF SetAbsolute
  <2>3. CASE SetRate(e)
    BY <2>3, IdleSound, OneThread DEF SetRate
  <2> QED
    BY <2>2, <2>3
<1>5. open' \subseteq Node \X Rules /\ \A alert \in open' : Caused(alert, ever)
  <2>1. CASE SetAbsolute(e)
    <3>1. open' \subseteq open \cup {<<eval[e].current.node, "absolute">>}
      BY <2>1 DEF SetAbsolute, SetAlert
    <3>2. <<eval[e].current.node, "absolute">> \in open' \ open
            => eval[e].current.tilt >= Limit
      BY <2>1 DEF SetAbsolute, SetAlert
    <3>3. eval[e].current.tilt >= Limit
            => Caused(<<eval[e].current.node, "absolute">>, ever)
      BY <1>2 DEF Caused
    <3> QED
      BY <1>3, <3>1, <3>2, <3>3, Unfold DEF Rules
  <2>2. CASE SetRate(e)
    <3>1. open' \subseteq open \cup {<<eval[e].current.node, "rate">>}
      BY <2>2 DEF SetRate, SetAlert
    <3>2. <<eval[e].current.node, "rate">> \in open' \ open
            => eval[e].previous # NoRow /\ Steep(eval[e].previous, eval[e].current)
      BY <2>2 DEF SetRate, SetAlert
    <3>3. eval[e].previous # NoRow /\ Steep(eval[e].previous, eval[e].current)
            => Caused(<<eval[e].current.node, "rate">>, ever)
      BY <1>1, <1>2 DEF Caused, Sound
    <3> QED
      BY <1>3, <3>1, <3>2, <3>3, Unfold DEF Rules
  <2> QED
    BY <2>1, <2>2
<1> QED
  BY <1>4, <1>5, Unfold, UnfoldPrimed DEF SetAbsolute, SetRate

LEMMA InvBeside ==
  ASSUME Inv,
         (\E n \in Node, ts \in 1 .. now, x \in Tilts : Import(n, ts + Skew[n], x)) \/ CleanupSamples
  PROVE  Inv'
<1>1. ASSUME NEW n \in Node, NEW ts \in 1 .. now, NEW x \in Tilts,
   Import(n, ts + Skew[n], x)
      PROVE  Inv'
  <2> DEFINE row == [node |-> n, ts |-> ts + Skew[n], tilt |-> x]
  <2>1. row \in Row
    BY Unfold, AlertAssumption DEF Row
  <2>2. /\ eval' \in [Evaluator -> Evaluation]
        /\ \A e \in Evaluator : Sound(eval'[e], ever)
    <3>1. \A e \in Evaluator : /\ [eval[e] EXCEPT !.alone = IsAt(e, "idle")] \in Evaluation
                               /\ Sound([eval[e] EXCEPT !.alone = IsAt(e, "idle")], ever)
      BY Overlapped, Unfold DEF IsAt
    <3> QED
      BY <1>1, <3>1 DEF Import
  <2>3. ~ Stored(row) /\ samples' = samples \cup {row} /\ ever' = ever \cup {row}
    BY <1>1 DEF Import
  <2>4. /\ samples' \subseteq ever' /\ ever' \subseteq Row /\ Unique(samples')
        /\ \A e \in Evaluator : Sound(eval'[e], ever')
        /\ \A alert \in open : Caused(alert, ever')
    BY <2>1, <2>2, <2>3, RowAdded
  <2> QED
    BY <1>1, <2>2, <2>4, Unfold, UnfoldPrimed DEF Import
<1>2. CASE CleanupSamples
  BY <1>2, Unfold, UnfoldPrimed DEF CleanupSamples, Unique
<1> QED
  BY <1>1, <1>2

LEMMA InvStep == Inv /\ [AlertNext]_alertVars => Inv'
<1> SUFFICES ASSUME Inv, [AlertNext]_alertVars PROVE Inv'
  OBVIOUS
<1>1. CASE UNCHANGED alertVars
  BY <1>1, Unfold, UnfoldPrimed DEF alertVars
<1> QED
  BY <1>1, InvReceive, InvRead, InvInsert, InvSet, InvBeside DEF AlertNext


-----------------------------------------------------------------------------
\* What an evaluation has when no other one and no import overlapped with it:
\* no other thread is in one, its reading is not older than any cleanup will
\* spare, so once stored it and the row that is judged stay in the table, and
\* the alert for absolute values is as that row says.
AloneIn(e) ==
  /\ \A d \in Evaluator \ {e} : eval[d].pc = "idle"
  /\ eval[e].reading.ts >= now
  /\ eval[e].pc \in {"current", "absolute", "rate"} => eval[e].reading \in samples
  /\ eval[e].pc \in {"absolute", "rate"} =>
       eval[e].current \in samples /\ eval[e].current.ts >= eval[e].reading.ts
  /\ eval[e].pc = "rate" =>
       (<<eval[e].current.node, "absolute">> \in open <=> eval[e].current.tilt >= Limit)

Undisturbed == \A e \in Evaluator : eval[e].alone /\ eval[e].pc # "idle" => AloneIn(e)

LEMMA UndisturbedInit == AlertInit => Undisturbed
BY DEF AlertInit, Undisturbed, NoEvaluation

\* The records are what the steps make them, written out once.
LEMMA WorkFields ==
  ASSUME NEW w \in Evaluation, NEW s, NEW p, NEW b
  PROVE  /\ [w EXCEPT !.alone = b].pc = w.pc /\ [w EXCEPT !.alone = b].alone = b
         /\ [w EXCEPT !.alone = b].reading = w.reading
         /\ [w EXCEPT !.alone = b].current = w.current
         /\ [w EXCEPT !.pc = p].pc = p /\ [w EXCEPT !.pc = p].alone = w.alone
         /\ [w EXCEPT !.pc = p].reading = w.reading
         /\ [w EXCEPT !.pc = p].current = w.current
         /\ [w EXCEPT !.current = s, !.pc = p].pc = p
         /\ [w EXCEPT !.current = s, !.pc = p].alone = w.alone
         /\ [w EXCEPT !.current = s, !.pc = p].reading = w.reading
         /\ [w EXCEPT !.current = s, !.pc = p].current = s
         /\ [w EXCEPT !.previous = s, !.pc = p].pc = p
         /\ [w EXCEPT !.previous = s, !.pc = p].alone = w.alone
         /\ [w EXCEPT !.previous = s, !.pc = p].reading = w.reading
         /\ [w EXCEPT !.previous = s, !.pc = p].current = w.current
BY DEF Evaluation

LEMMA UndisturbedReceive ==
  ASSUME Inv, Undisturbed, NEW e \in Evaluator, NEW n \in Node,
         NEW x \in Tilts,
         Receive(e, n, x)
  PROVE  Undisturbed'
<1> DEFINE row  == [node |-> n, ts |-> now + 1 + Skew[n], tilt |-> x]
           work == [NoEvaluation EXCEPT !.pc = "previous", !.alone = Busy = {}, !.reading = row]
<1>1. /\ eval' = [d \in Evaluator |-> IF d = e THEN work
                                     ELSE [eval[d] EXCEPT !.alone = IsAt(d, "idle")]]
      /\ IsAt(e, "idle") /\ now' = now + 1
  BY DEF Receive
<1>2. work.pc = "previous" /\ work.alone = (Busy = {}) /\ work.reading = row
  BY DEF NoEvaluation
<1>3. \A d \in Evaluator \ {e} : eval'[d].pc = eval[d].pc /\ eval'[d].alone = IsAt(d, "idle")
  <2>1. SUFFICES ASSUME NEW d \in Evaluator \ {e}
                 PROVE  eval'[d].pc = eval[d].pc /\ eval'[d].alone = IsAt(d, "idle")
    OBVIOUS
  <2>2. eval'[d] = [eval[d] EXCEPT !.alone = IsAt(d, "idle")] /\ eval[d] \in Evaluation
    BY <1>1, Unfold
  <2> QED
    BY <2>2, WorkFields
<1>4. eval'[e] = work /\ row.ts >= now'
  <2>1. now \in Nat /\ Skew[n] \in Nat
    BY Unfold, AlertAssumption
  <2>2. row.ts = now + 1 + Skew[n]
    OBVIOUS
  <2>3. now + 1 + Skew[n] >= now + 1
    BY <2>1
  <2>4. eval'[e] = work
    BY <1>1
  <2> QED
    BY <1>1, <2>2, <2>3, <2>4
<1>5. ASSUME NEW d \in Evaluator, eval'[d].alone, eval'[d].pc # "idle"
      PROVE  AloneIn(d)'
  <2>1. d = e
    BY <1>3, <1>5 DEF IsAt
  <2>2. Busy = {}
    BY <1>2, <1>4, <1>5, <2>1
  <2>3. \A c \in Evaluator \ {d} : eval'[c].pc = "idle"
    BY <1>3, <2>1, <2>2 DEF Busy, IsAt
  <2> QED
    BY <1>2, <1>4, <2>1, <2>3 DEF AloneIn
<1> QED
  BY <1>5 DEF Undisturbed

\* A step of one thread: the others keep their records, so those of them that
\* are in an evaluation were not alone.
LEMMA UndisturbedThread ==
  ASSUME Inv, Undisturbed, NEW e \in Evaluator, NEW w \in Evaluation,
         eval' = [eval EXCEPT ![e] = w], eval[e].pc # "idle",
         w.alone /\ w.pc # "idle" => AloneIn(e)'
  PROVE  Undisturbed'
<1>1. ASSUME NEW d \in Evaluator, eval'[d].alone, eval'[d].pc # "idle"
      PROVE  AloneIn(d)'
  <2>1. CASE d = e
    BY <1>1, <2>1, Unfold
  <2>2. CASE d # e
    <3>1. eval[d] = eval'[d]
      BY <2>2, Unfold
    <3>2. eval[e].pc = "idle"
      BY <1>1, <2>2, <3>1 DEF Undisturbed, AloneIn
    <3> QED
      BY <3>2
  <2> QED
    BY <2>1, <2>2
<1> QED
  BY <1>1 DEF Undisturbed

LEMMA UndisturbedRead ==
  ASSUME Inv, Undisturbed, NEW e \in Evaluator, ReadPrevious(e) \/ ReadCurrent(e)
  PROVE  Undisturbed'
<1>1. eval[e] \in Evaluation /\ eval[e].pc # "idle"
      /\ UNCHANGED <<samples, open, now, ever>>
  BY Unfold DEF ReadPrevious, ReadCurrent, IsAt
<1>2. eval[e].alone => AloneIn(e)
  BY <1>1 DEF Undisturbed
<1>3. CASE ReadPrevious(e)
  <2>1. PICK s \in Latest : eval' = [eval EXCEPT ![e] =
                              [eval[e] EXCEPT !.previous = s, !.pc = "insert"]]
    BY <1>3 DEF ReadPrevious
  <2> DEFINE w == [eval[e] EXCEPT !.previous = s, !.pc = "insert"]
  <2>2. /\ w \in Evaluation /\ w.pc = "insert" /\ w.alone = eval[e].alone
        /\ w.reading = eval[e].reading
    <3>1. s \in Row \cup {NoRow}
      BY LatestStored
    <3> QED
      BY <1>1, <3>1, WorkFields DEF Evaluation
  <2>3. ASSUME w.alone PROVE AloneIn(e)'
    <3>1. eval'[e] = w /\ \A d \in Evaluator \ {e} : eval'[d] = eval[d]
      BY <2>1, Unfold
    <3> HIDE DEF w
    <3> QED
      BY <1>1, <1>2, <2>2, <2>3, <3>1 DEF AloneIn
  <2> QED
    BY <1>1, <2>1, <2>2, <2>3, UndisturbedThread
<1>4. CASE ReadCurrent(e)
  <2>1. PICK s \in Latest :
         eval' = [eval EXCEPT ![e] = IF s = NoRow THEN NoEvaluation
                                     ELSE [eval[e] EXCEPT !.current = s, !.pc = "absolute"]]
    BY <1>4 DEF ReadCurrent
  <2>2. CASE s = NoRow
    BY <1>1, <2>1, <2>2, IdleSound, UndisturbedThread
  <2>3. CASE s # NoRow
    <3> DEFINE w == [eval[e] EXCEPT !.current = s, !.pc = "absolute"]
    <3>1. s \in Row \cup {NoRow}
      BY LatestStored
    <3>2. /\ w \in Evaluation /\ w.pc = "absolute" /\ w.alone = eval[e].alone
          /\ w.reading = eval[e].reading /\ w.current = s
      BY <1>1, <3>1, WorkFields DEF Evaluation
    <3>3. s \in samples /\ \A r \in samples : r.ts <= s.ts
      BY <2>3 DEF Latest
    <3>4. ASSUME w.alone PROVE AloneIn(e)'
      <4>1. eval'[e] = w /\ \A d \in Evaluator \ {e} : eval'[d] = eval[d]
        BY <2>1, <2>3, Unfold
      <4>2. AloneIn(e) /\ eval[e].pc = "current"
        BY <1>2, <1>4, <3>2, <3>4 DEF ReadCurrent, IsAt
      <4>3. eval[e].reading \in samples /\ eval[e].reading.ts <= s.ts
        BY <3>3, <4>2 DEF AloneIn
      <4>4. eval[e].reading.ts \in Nat /\ s.ts \in Nat
        BY <3>3, <4>3, Unfold DEF Row
      <4>5. s.ts >= eval[e].reading.ts
        BY <4>3, <4>4
      <4> HIDE DEF w
      <4> QED
        BY <1>1, <3>2, <3>3, <4>1, <4>2, <4>3, <4>5 DEF AloneIn
    <3> QED
      BY <1>1, <2>1, <2>3, <3>2, <3>4, UndisturbedThread
  <2> QED
    BY <2>2, <2>3
<1> QED
  BY <1>3, <1>4

LEMMA UndisturbedInsert ==
  ASSUME Inv, Undisturbed, NEW e \in Evaluator, Insert(e)
  PROVE  Undisturbed'
<1>1. eval[e] \in Evaluation /\ eval[e].pc = "insert" /\ UNCHANGED <<open, now>>
  BY Unfold DEF Insert, IsAt
<1>2. CASE Stored(eval[e].reading)
  <2>1. eval' = [eval EXCEPT ![e] = NoEvaluation]
    BY <1>2 DEF Insert
  <2> QED
    BY <1>1, <2>1, IdleSound, UndisturbedThread
<1>3. CASE ~ Stored(eval[e].reading)
  <2> DEFINE w == [eval[e] EXCEPT !.pc = "current"]
  <2>1. eval' = [eval EXCEPT ![e] = w] /\ samples' = samples \cup {eval[e].reading}
    BY <1>3 DEF Insert
  <2>2. /\ w \in Evaluation /\ w.pc = "current" /\ w.alone = eval[e].alone
        /\ w.reading = eval[e].reading
    BY <1>1, WorkFields DEF Evaluation
  <2>3. ASSUME w.alone PROVE AloneIn(e)'
    <3>1. eval'[e] = w /\ \A d \in Evaluator \ {e} : eval'[d] = eval[d]
      BY <2>1, Unfold
    <3>2. AloneIn(e)
      BY <1>1, <2>2, <2>3 DEF Undisturbed
    <3> HIDE DEF w
    <3> QED
      BY <1>1, <2>1, <2>2, <3>1, <3>2 DEF AloneIn
  <2> QED
    BY <1>1, <2>1, <2>2, <2>3, UndisturbedThread
<1> QED
  BY <1>2, <1>3

LEMMA UndisturbedSet ==
  ASSUME Inv, Undisturbed, NEW e \in Evaluator, SetAbsolute(e) \/ SetRate(e)
  PROVE  Undisturbed'
<1>1. eval[e] \in Evaluation /\ eval[e].pc # "idle" /\ UNCHANGED <<samples, now>>
  BY Unfold DEF SetAbsolute, SetRate, IsAt
<1>2. CASE SetAbsolute(e)
  <2> DEFINE w == [eval[e] EXCEPT !.pc = "rate"]
  <2>1. eval' = [eval EXCEPT ![e] = w] /\ eval[e].pc = "absolute"
    BY <1>2 DEF SetAbsolute, IsAt
  <2>2. /\ w \in Evaluation /\ w.pc = "rate" /\ w.alone = eval[e].alone
        /\ w.reading = eval[e].reading /\ w.current = eval[e].current
    BY <1>1, WorkFields DEF Evaluation
  <2>3. <<eval[e].current.node, "absolute">> \in open' <=> eval[e].current.tilt >= Limit
    BY <1>2 DEF SetAbsolute, SetAlert
  <2>4. ASSUME w.alone PROVE AloneIn(e)'
    <3>1. eval'[e] = w /\ \A d \in Evaluator \ {e} : eval'[d] = eval[d]
      BY <2>1, Unfold
    <3>2. AloneIn(e)
      BY <1>1, <2>2, <2>4 DEF Undisturbed
    <3> HIDE DEF w
    <3> QED
      BY <1>1, <2>1, <2>2, <2>3, <3>1, <3>2 DEF AloneIn
  <2> QED
    BY <1>1, <2>1, <2>2, <2>4, UndisturbedThread
<1>3. CASE SetRate(e)
  <2>1. eval' = [eval EXCEPT ![e] = NoEvaluation]
    BY <1>3 DEF SetRate
  <2> QED
    BY <1>1, <2>1, IdleSound, UndisturbedThread
<1> QED
  BY <1>2, <1>3

\* No cleanup takes a row that is as late as the reading of an evaluation on
\* its own: its time is not behind the host's.
LEMMA UndisturbedBeside ==
  ASSUME Inv, Undisturbed,
         (\E n \in Node, ts \in 1 .. now, x \in Tilts : Import(n, ts + Skew[n], x)) \/ CleanupSamples
  PROVE  Undisturbed'
<1>1. ASSUME NEW n, NEW ts, NEW x, Import(n, ts, x)
      PROVE  Undisturbed'
  <2>1. SUFFICES ASSUME NEW e \in Evaluator, eval'[e].alone PROVE eval'[e].pc = "idle"
    BY DEF Undisturbed
  <2>2. eval'[e] = [eval[e] EXCEPT !.alone = IsAt(e, "idle")] /\ eval[e] \in Evaluation
    BY <1>1, Unfold DEF Import
  <2>3. eval'[e].alone = IsAt(e, "idle") /\ eval'[e].pc = eval[e].pc
    BY <2>2, WorkFields
  <2> QED
    BY <2>1, <2>3 DEF IsAt
<1>2. CASE CleanupSamples
  <2>1. /\ samples' = {s \in samples : s.ts >= now - RetentionDays}
        /\ UNCHANGED <<open, eval, now, ever>>
    BY <1>2 DEF CleanupSamples
  <2>2. SUFFICES ASSUME NEW e \in Evaluator, eval[e].alone, eval[e].pc # "idle"
                 PROVE  AloneIn(e)'
    BY <2>1 DEF Undisturbed
  <2>3. AloneIn(e)
    BY <2>2 DEF Undisturbed
  <2>4. ASSUME NEW s \in samples, s.ts >= eval[e].reading.ts
        PROVE  s \in samples'
    <3>1. s.ts \in Nat /\ now \in Nat /\ RetentionDays \in Nat /\ eval[e].reading.ts \in Nat
      BY <2>2, Unfold, AlertAssumption DEF Row, Sound
    <3>2. eval[e].reading.ts >= now
      BY <2>3 DEF AloneIn
    <3>3. s.ts >= now - RetentionDays
      BY <2>4, <3>1, <3>2
    <3> QED
      BY <2>1, <2>4, <3>3
  <2>5. eval[e].reading.ts \in Nat
    BY <2>2, Unfold DEF Row, Sound
  <2>6. eval[e].reading.ts >= eval[e].reading.ts
    BY <2>5
  <2> QED
    BY <2>1, <2>3, <2>4, <2>6 DEF AloneIn
<1> QED
  BY <1>1, <1>2

LEMMA UndisturbedStep ==
  Inv /\ Undisturbed /\ [AlertNext]_alertVars => Undisturbed'
<1> SUFFICES ASSUME Inv, Undisturbed,
   [AlertNext]_alertVars PROVE Undisturbed'
  OBVIOUS
<1>1. CASE UNCHANGED alertVars
  BY <1>1 DEF alertVars, Undisturbed, AloneIn
<1> QED
  BY <1>1, UndisturbedReceive, UndisturbedRead, UndisturbedInsert, UndisturbedSet,
     UndisturbedBeside DEF AlertNext

\* Before the rate is set the row that is judged is the reading, if that is the
\* latest row.
LEMMA Settles ==
  ASSUME Inv, Undisturbed, NEW e \in Evaluator, IsAt(e, "rate"), eval[e].alone,
         \A s \in samples \ {eval[e].reading} : s.ts < eval[e].reading.ts
  PROVE  <<eval[e].reading.node, "absolute">> \in open <=> eval[e].reading.tilt >= Limit
<1>1. AloneIn(e) /\ eval[e].pc = "rate"
  BY DEF Undisturbed, IsAt
<1>2. eval[e].current \in samples /\ eval[e].current.ts >= eval[e].reading.ts
  BY <1>1 DEF AloneIn
<1>3. eval[e].current.ts \in Nat /\ eval[e].reading.ts \in Nat
  BY <1>1, <1>2, Unfold DEF Row, Sound
<1>4. ~ (eval[e].current.ts < eval[e].reading.ts)
  BY <1>2, <1>3
<1>5. eval[e].current = eval[e].reading
  BY <1>2, <1>4
<1> QED
  BY <1>1, <1>5 DEF AloneIn

-----------------------------------------------------------------------------
\* The samples, the open alerts and what each thread holds keep their types,
\* and no two rows have the node and the timestamp in common.
THEOREM AlertTypes == AlertSpec => []AlertTypeOK
<1>1. Inv => AlertTypeOK
  BY DEF Inv
<1> QED
  BY <1>1, InvInit, InvStep, PTL DEF AlertSpec

\* No alert without cause, whatever evaluations, imports and cleanups of
\* the table overlap and however the clocks of the sensors differ.
THEOREM AlertsCaused == AlertSpec => []AlertsHaveCause
<1>1. Inv => AlertsHaveCause
  BY DEF Inv, Caused, AlertsHaveCause
<1> QED
  BY <1>1, InvInit, InvStep, PTL DEF AlertSpec

\* An evaluation that ran on its own leaves the alert for absolute values as
\* its reading says, if that is the latest row: neither a cleanup nor the clock
\* of a sensor that is ahead takes the row away before it is judged.
THEOREM AlertsSettle == AlertSpec => SettlesWhenAlone
<1> DEFINE Settled == \A e \in Evaluator :
                        LET reading == eval[e].reading IN
                        IsAt(e, "rate") /\ eval[e].alone
                          /\ (\A s \in samples \ {reading} : s.ts < reading.ts)
                          => (<<reading.node, "absolute">> \in open <=> reading.tilt >= Limit)
<1>1. Inv /\ Undisturbed => Settled
  BY Settles
<1>2. SettlesWhenAlone <=> [][Settled]_alertVars
  BY DEF SettlesWhenAlone
<1> HIDE DEF Settled
<1> QED
  BY <1>1, <1>2, InvInit, InvStep, UndisturbedInit, UndisturbedStep, PTL DEF AlertSpec
=================================================================================
