--------------------------- MODULE MonitoringService ---------------------------
(***************************************************************************)
(* tools/monitoring_service.py: the polling thread, the calls that start   *)
(* and stop it through the stored configuration, manual reads that store   *)
(* samples beside it, and the missing-data alert it keeps.                 *)
(*                                                                         *)
(* Time passes in Tick, one second at a time, only while the thread sleeps *)
(* or talks to the device: what it does in between takes no time.          *)
(***************************************************************************)
EXTENDS Naturals, FiniteSets, FiniteSetsExt

CONSTANTS
  Caller, Thread,
  MeasureEvery,   \* measurement_interval_seconds
  HealthEvery,    \* health_interval_seconds
  Retry,          \* RECONNECT_RETRY_SECONDS
  JoinSeconds,    \* timeout of stop
  MissingAfter,   \* missing_data_seconds
  Retention,      \* retention_days, in the same unit
  NoSample,       \* the samples table is empty
  MaxFaults,      \* bound: times the database raises
  MaxRestarts     \* bound: restarts of the process

ASSUME MonitoringAssumption ==
  /\ {MeasureEvery, HealthEvery, JoinSeconds, MissingAfter, Retention} \subseteq Nat \ {0}
  /\ Retry \in Nat \ {0, 1}
  /\ NoSample \notin Nat
  /\ {MaxFaults, MaxRestarts} \subseteq Nat

VARIABLES
  enabled,   \* "enabled" of the stored configuration
  stop,      \* the event _stop
  thread,    \* _thread: the last thread started, or the set of none
  worker,    \* per thread: where _run is, its local times and findings
  caller,    \* per web request thread: the call it is in
  plugged,   \* is the sensor attached?
  latest,    \* age of the latest sample, up to MaxAge, or NoSample
  missing,   \* is the missing-data alert open?
  faults,    \* bound counter
  restarts   \* bound counter

vars == <<enabled, stop, thread, worker, caller, plugged, latest, missing, faults,
          restarts>>

MaxAge   == Max({MissingAfter, Retention})
PollWait == Min({1, Retry})

Dead    == [pc |-> "dead", measureIn |-> 0, healthIn |-> 0, healthDue |-> FALSE,
            aged |-> FALSE, sleep |-> 0]
Started == [Dead EXCEPT !.pc = "loop"]
Idle    == [pc |-> "idle", joined |-> {}, left |-> 0]

TypeOK ==
  /\ enabled \in BOOLEAN /\ stop \in BOOLEAN
  /\ thread \in SUBSET Thread
  /\ worker \in [Thread -> [pc : {"loop", "config", "live", "health", "missing", "set",
                                  "cleanup", "wait", "dead"},
                            measureIn : 0 .. Max({MeasureEvery, Retry}),
                            healthIn : 0 .. Max({HealthEvery, Retry}),
                            healthDue : BOOLEAN, aged : BOOLEAN,
                            sleep : 0 .. PollWait]]
  /\ caller \in [Caller -> [pc : {"idle", "start", "stop", "join"},
                            joined : SUBSET Thread, left : 0 .. JoinSeconds]]
  /\ plugged \in BOOLEAN /\ missing \in BOOLEAN
  /\ latest \in 0 .. MaxAge \cup {NoSample}
  /\ faults \in 0 .. MaxFaults /\ restarts \in 0 .. MaxRestarts

Alive(t) == worker[t].pc # "dead"

StoreFails == faults < MaxFaults /\ faults' = faults + 1

\* A stored configuration of any earlier run; lifespan starts what it enables.
Init ==
  /\ enabled \in BOOLEAN
  /\ \E t \in Thread :
       /\ thread = IF enabled THEN {t} ELSE {}
       /\ worker = [u \in Thread |-> IF u \in thread THEN Started ELSE Dead]
  /\ stop = FALSE
  /\ caller = [c \in Caller |-> Idle]
  /\ plugged \in BOOLEAN
  /\ latest = NoSample /\ missing = FALSE
  /\ faults = 0 /\ restarts = 0

-----------------------------------------------------------------------------
(* Calls. *)

Return(c) == caller' = [caller EXCEPT ![c] = Idle]

\* update_config: the valid configuration is stored, then start or stop.
UpdateConfig(c, on) ==
  /\ caller[c] = Idle
  /\ enabled' = on
  /\ caller' = [caller EXCEPT ![c] =
                  [caller[c] EXCEPT !.pc = IF on THEN "start" ELSE "stop"]]
  /\ UNCHANGED <<stop, thread, worker, plugged, latest, missing, faults, restarts>>

StartFindsAlive(c) ==
  /\ caller[c].pc = "start"
  /\ \E t \in thread : Alive(t)
  /\ Return(c)
  /\ UNCHANGED <<enabled, stop, thread, worker, plugged, latest, missing, faults, restarts>>

Start(c) ==
  /\ caller[c].pc = "start"
  /\ \A t \in thread : ~ Alive(t)
  /\ stop' = FALSE
  /\ \E t \in Thread :
       /\ ~ Alive(t)
       /\ thread' = {t}
       /\ worker' = [worker EXCEPT ![t] = Started]
  /\ Return(c)
  /\ UNCHANGED <<enabled, plugged, latest, missing, faults, restarts>>

Stop(c) ==
  /\ caller[c].pc = "stop"
  /\ stop' = TRUE
  /\ caller' = [caller EXCEPT ![c] = [pc |-> "join", joined |-> thread, left |-> JoinSeconds]]
  /\ UNCHANGED <<enabled, thread, worker, plugged, latest, missing, faults, restarts>>

Joins(c) ==
  /\ caller[c].pc = "join"
  /\ caller[c].left = 0 \/ \A t \in caller[c].joined : ~ Alive(t)

\* Mutant: a thread that did not end in time is forgotten.
Join_Forgets(c) ==
  /\ Joins(c)
  /\ thread' = {}
  /\ Return(c)
  /\ UNCHANGED <<enabled, stop, worker, plugged, latest, missing, faults, restarts>>

\* The thread ended, or the time is up and it goes on.
Join(c) ==
  /\ Joins(c)
  /\ Return(c)
  /\ UNCHANGED <<enabled, stop, thread, worker, plugged, latest, missing, faults, restarts>>

\* ingest, after a manual read of live data.
Ingest(c) ==
  /\ caller[c] = Idle /\ plugged
  /\ latest' = 0
  /\ UNCHANGED <<enabled, stop, thread, worker, caller, plugged, missing, faults, restarts>>

CallStep(c) == StartFindsAlive(c) \/ Start(c) \/ Stop(c) \/ Join(c)

-----------------------------------------------------------------------------
(* The thread: _run. *)

At(t, pc) == worker[t].pc = pc
Move(t, pc) == worker' = [worker EXCEPT ![t] = [worker[t] EXCEPT !.pc = pc]]

\* The loop ends on the event or on a configuration that is not enabled.
Loop(t) ==
  /\ At(t, "loop")
  /\ IF stop THEN worker' = [worker EXCEPT ![t] = Dead] ELSE Move(t, "config")
  /\ UNCHANGED <<enabled, stop, thread, caller, plugged, latest, missing, faults, restarts>>

\* Mutant: the configuration is read once, before the loop.
Config_Unread(t) ==
  /\ At(t, "config")
  /\ worker' = [worker EXCEPT ![t] =
       [worker[t] EXCEPT !.healthDue = @ \/ worker[t].healthIn = 0,
                 !.pc = IF worker[t].measureIn = 0 THEN "live" ELSE "missing"]]
  /\ UNCHANGED <<enabled, stop, thread, caller, plugged, latest, missing, faults, restarts>>

\* What is due is decided here, for the whole pass.
Config(t) ==
  /\ At(t, "config")
  /\ IF enabled
     THEN worker' = [worker EXCEPT ![t] =
            [worker[t] EXCEPT !.healthDue = worker[t].healthIn = 0,
                      !.pc = IF worker[t].measureIn = 0 THEN "live"
                             ELSE IF worker[t].healthIn = 0 THEN "health" ELSE "missing"]]
     ELSE worker' = [worker EXCEPT ![t] = Dead]
  /\ UNCHANGED <<enabled, stop, thread, caller, plugged, latest, missing, faults, restarts>>

\* The configuration is read outside the try: the thread dies.
ConfigFails(t) ==
  /\ StoreFails
  /\ At(t, "config")
  /\ worker' = [worker EXCEPT ![t] = Dead]
  /\ UNCHANGED <<enabled, stop, thread, caller, plugged, latest, missing, restarts>>

ReadLive(t) ==
  /\ At(t, "live") /\ plugged
  /\ latest' = 0
  /\ worker' = [worker EXCEPT ![t] =
       [worker[t] EXCEPT !.measureIn = MeasureEvery,
                 !.pc = IF worker[t].healthDue THEN "health" ELSE "missing"]]
  /\ UNCHANGED <<enabled, stop, thread, caller, plugged, missing, faults, restarts>>

ReadHealth(t) ==
  /\ At(t, "health") /\ plugged
  /\ worker' = [worker EXCEPT ![t] = [worker[t] EXCEPT !.healthIn = HealthEvery, !.pc = "missing"]]
  /\ UNCHANGED <<enabled, stop, thread, caller, plugged, latest, missing, faults, restarts>>

\* evaluate_missing_data: the latest sample is read, then the alert is set.
EvaluateMissing(t) ==
  /\ At(t, "missing")
  /\ worker' = [worker EXCEPT ![t] =
       IF latest = NoSample THEN [worker[t] EXCEPT !.pc = "cleanup"]
       ELSE [worker[t] EXCEPT !.pc = "set", !.aged = latest >= MissingAfter]]
  /\ UNCHANGED <<enabled, stop, thread, caller, plugged, latest, missing, faults, restarts>>

SetMissing(t) ==
  /\ At(t, "set")
  /\ missing' = worker[t].aged
  /\ worker' = [worker EXCEPT ![t] = [worker[t] EXCEPT !.pc = "cleanup", !.aged = FALSE]]
  /\ UNCHANGED <<enabled, stop, thread, caller, plugged, latest, faults, restarts>>

Sleep(w) == [w EXCEPT !.pc = "wait", !.sleep = PollWait, !.healthDue = FALSE, !.aged = FALSE]

\* Whether the daily cleanup is due is left open.
Cleanup(t) ==
  /\ At(t, "cleanup")
  /\ latest' \in {latest, IF latest # NoSample /\ latest >= Retention THEN NoSample ELSE latest}
  /\ worker' = [worker EXCEPT ![t] = Sleep(worker[t])]
  /\ UNCHANGED <<enabled, stop, thread, caller, plugged, missing, faults, restarts>>

\* A read raises or answers anything but "ok", or the database raises.
PassFails(t) ==
  \/ (At(t, "live") \/ At(t, "health")) /\ UNCHANGED faults
  \/ (At(t, "missing") \/ At(t, "set") \/ At(t, "cleanup")) /\ StoreFails

\* Mutant: a failed pass is tried again at once.
Fails_AtOnce(t) ==
  /\ PassFails(t)
  /\ worker' = [worker EXCEPT ![t] = Sleep(worker[t])]
  /\ UNCHANGED <<enabled, stop, thread, caller, plugged, latest, missing, restarts>>

\* The except clause: nothing is read again for Retry seconds.
Fails(t) ==
  /\ PassFails(t)
  /\ worker' = [worker EXCEPT ![t] =
       [Sleep(worker[t]) EXCEPT !.measureIn = Max({worker[t].measureIn, Retry}),
                                !.healthIn = Max({worker[t].healthIn, Retry})]]
  /\ UNCHANGED <<enabled, stop, thread, caller, plugged, latest, missing, restarts>>

Wake(t) ==
  /\ At(t, "wait")
  /\ worker[t].sleep = 0 \/ stop
  /\ worker' = [worker EXCEPT ![t] = [worker[t] EXCEPT !.pc = "loop", !.sleep = 0]]
  /\ UNCHANGED <<enabled, stop, thread, caller, plugged, latest, missing, faults, restarts>>

WorkerStep(t) ==
  \/ Loop(t) \/ Config(t) \/ ConfigFails(t) \/ ReadLive(t) \/ ReadHealth(t)
  \/ EvaluateMissing(t) \/ SetMissing(t) \/ Cleanup(t) \/ Fails(t) \/ Wake(t)

-----------------------------------------------------------------------------
(* Time, the sensor and the process. *)

Less(n) == IF n = 0 THEN 0 ELSE n - 1

Tick ==
  /\ \A t \in Thread :
       \/ worker[t].pc \in {"live", "health", "dead"}
       \/ At(t, "wait") /\ worker[t].sleep > 0 /\ ~ stop
  /\ worker' = [t \in Thread |->
       [worker[t] EXCEPT !.measureIn = Less(@), !.healthIn = Less(@), !.sleep = Less(@)]]
  /\ caller' = [c \in Caller |-> [caller[c] EXCEPT !.left = Less(@)]]
  /\ latest' = IF latest = NoSample THEN latest ELSE Min({latest + 1, MaxAge})
  /\ UNCHANGED <<enabled, stop, thread, plugged, missing, faults, restarts>>

Plug ==
  /\ plugged' = ~ plugged
  /\ UNCHANGED <<enabled, stop, thread, worker, caller, latest, missing, faults, restarts>>

\* The process ends, killed or after stop(), and starts again, with or without
\* --auto-monitor, which enables monitoring in the stored configuration.
Restart ==
  /\ restarts < MaxRestarts
  /\ restarts' = restarts + 1
  /\ enabled' \in {enabled, TRUE}
  /\ \E t \in Thread :
       /\ thread' = IF enabled' THEN {t} ELSE {}
       /\ worker' = [u \in Thread |-> IF u \in thread' THEN Started ELSE Dead]
  /\ stop' = FALSE
  /\ caller' = [c \in Caller |-> Idle]
  /\ UNCHANGED <<plugged, latest, missing, faults>>

Next ==
  \/ \E c \in Caller : (\E on \in BOOLEAN : UpdateConfig(c, on)) \/ Ingest(c) \/ CallStep(c)
  \/ \E t \in Thread : WorkerStep(t)
  \/ Tick \/ Plug \/ Restart

\* Every device operation ends, sleeping threads wake, calls return.
Spec == /\ Init /\ [][Next]_vars
        /\ WF_vars(Tick)
        /\ \A t \in Thread : WF_vars(WorkerStep(t))
        /\ \A c \in Caller : WF_vars(CallStep(c))

-----------------------------------------------------------------------------
(* Properties. *)

\* Two polling threads never run at once, although stop gives up waiting for
\* a thread that is in a long read and start may follow at once.
OneMonitor == Cardinality({t \in Thread : Alive(t)}) <= 1

\* Monitoring that is switched off ends, also when the call that switched it
\* off gave up waiting or raced with one that switched it on.
DisabledStops == ~ enabled ~> enabled \/ \A t \in Thread : ~ Alive(t)

Running == ~ stop /\ \E t \in Thread : Alive(t)
Fresh   == latest # NoSample /\ latest < MissingAfter
Aged    == latest # NoSample /\ latest >= MissingAfter

\* The missing-data alert follows the data while monitoring runs: it opens
\* although every read of an unplugged sensor raises before it is evaluated,
\* and it closes once there is data, also when a manual read stored it.
MissingFollows ==
  /\ Aged  /\ Running ~> missing \/ ~ Aged \/ ~ Running
  /\ Fresh /\ Running ~> ~ missing \/ ~ Fresh \/ ~ Running
=============================================================================
