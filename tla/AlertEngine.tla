------------------------------ MODULE AlertEngine ------------------------------
(***************************************************************************)
(* tools/alert_engine.py over the samples and alerts of                    *)
(* tools/monitoring_store.py: the monitoring thread and web requests each  *)
(* store a reading and evaluate it in several steps, while history imports *)
(* and the retention cleanup change the same table.                        *)
(*                                                                         *)
(* One axis stands for three.  sensor_error, and low_battery over the      *)
(* health table, are evaluated like the absolute rule.                     *)
(***************************************************************************)
EXTENDS Integers, FiniteSets

CONSTANTS
  Node, Evaluator,
  Tilts,          \* the values of the axis
  Skew,           \* how far each node's clock is ahead
  Limit,          \* x_absolute_deg
  RateLimit,      \* rate_deg_per_minute, per unit of time
  RetentionDays,  \* retention_days, in the same unit
  NoRow,
  MaxTime,        \* bound: readings taken
  MaxRows         \* bound: rows stored when an import still adds one

ASSUME AlertAssumption ==
  /\ Tilts \subseteq Nat /\ Skew \in [Node -> Nat]
  /\ {Limit, RateLimit, RetentionDays} \subseteq Nat \ {0}
  /\ {MaxTime, MaxRows} \subseteq Nat

VARIABLES
  samples,  \* the samples table
  open,     \* the open rows of the alerts table: <<node, rule>>
  eval,     \* per thread: the _store_result it is in
  now,      \* time; a node takes one reading at a time
  ever      \* history: every row that was ever stored

alertVars == <<samples, open, eval, now, ever>>

Rules == {"absolute", "rate"}
Row   == [node : Node, ts : Nat, tilt : Tilts]

\* What a thread that evaluates nothing is in.
NoEvaluation ==
  [pc |-> "idle", reading |-> NoRow, previous |-> NoRow, current |-> NoRow, alone |-> TRUE]

AlertTypeOK ==
  /\ samples \subseteq ever /\ ever \subseteq Row
  /\ \A r, s \in samples : r.node = s.node /\ r.ts = s.ts => r = s
  /\ open \subseteq Node \X Rules
  /\ eval \in [Evaluator -> [pc : {"idle", "previous", "insert", "current", "absolute", "rate"},
                             reading : Row \cup {NoRow}, previous : Row \cup {NoRow},
                             current : Row \cup {NoRow}, alone : BOOLEAN]]
  /\ now \in 0 .. MaxTime

AlertInit ==
  /\ samples = {} /\ open = {} /\ ever = {}
  /\ eval = [e \in Evaluator |-> NoEvaluation]
  /\ now = 0

\* latest_sample: of all nodes, by the sensors' timestamps; ties in any order.
Latest == IF samples = {} THEN {NoRow}
          ELSE {s \in samples : \A r \in samples : r.ts <= s.ts}

Stored(row) == \E s \in samples : s.node = row.node /\ s.ts = row.ts

IsAt(e, pc) == eval[e].pc = pc
Busy == {e \in Evaluator : ~ IsAt(e, "idle")}

-----------------------------------------------------------------------------
(* _store_result. *)

\* device.read, under the lock of the device.  "alone" is history: did no
\* other evaluation and no import touch the table since?
Receive(e, n, x) ==
  /\ IsAt(e, "idle") /\ now < MaxTime
  /\ now' = now + 1
  /\ eval' = [d \in Evaluator |->
       IF d = e THEN [NoEvaluation EXCEPT !.pc = "previous", !.alone = Busy = {},
                                  !.reading = [node |-> n, ts |-> now + 1 + Skew[n], tilt |-> x]]
       ELSE [eval[d] EXCEPT !.alone = IsAt(d, "idle")]]
  /\ UNCHANGED <<samples, open, ever>>

ReadPrevious(e) ==
  /\ IsAt(e, "previous")
  /\ \E s \in Latest : eval' = [eval EXCEPT ![e] =
                              [eval[e] EXCEPT !.previous = s, !.pc = "insert"]]
  /\ UNCHANGED <<samples, open, now, ever>>

\* INSERT OR IGNORE; what was stored before is not evaluated again.
Insert(e) ==
  /\ IsAt(e, "insert")
  /\ IF Stored(eval[e].reading)
     THEN eval' = [eval EXCEPT ![e] = NoEvaluation] /\ UNCHANGED <<samples, ever>>
     ELSE /\ samples' = samples \cup {eval[e].reading}
          /\ ever' = ever \cup {eval[e].reading}
          /\ eval' = [eval EXCEPT ![e] = [eval[e] EXCEPT !.pc = "current"]]
  /\ UNCHANGED <<open, now>>

\* What is evaluated is the latest row, not the reading.
ReadCurrent(e) ==
  /\ IsAt(e, "current")
  /\ \E s \in Latest :
       eval' = [eval EXCEPT ![e] = IF s = NoRow THEN NoEvaluation
                                   ELSE [eval[e] EXCEPT !.current = s, !.pc = "absolute"]]
  /\ UNCHANGED <<samples, open, now, ever>>

\* Mutant: a row once open is never resolved.
SetAlert_Keeps(n, rule, active) ==
  open' = IF active THEN open \cup {<<n, rule>>} ELSE open

\* set_alert: one open row for a node and rule, resolved when not active.
SetAlert(n, rule, active) ==
  open' = IF active THEN open \cup {<<n, rule>>} ELSE open \ {<<n, rule>>}

\* Mutant: the alert is recorded for the node that was read.
SetAbsolute_ByReading(e) ==
  /\ IsAt(e, "absolute")
  /\ SetAlert(eval[e].reading.node, "absolute", eval[e].current.tilt >= Limit)
  /\ eval' = [eval EXCEPT ![e] = [eval[e] EXCEPT !.pc = "rate"]]
  /\ UNCHANGED <<samples, now, ever>>

SetAbsolute(e) ==
  /\ IsAt(e, "absolute")
  /\ SetAlert(eval[e].current.node, "absolute", eval[e].current.tilt >= Limit)
  /\ eval' = [eval EXCEPT ![e] = [eval[e] EXCEPT !.pc = "rate"]]
  /\ UNCHANGED <<samples, now, ever>>

Distance(a, b) == IF a >= b THEN a - b ELSE b - a

\* The rate over the time between two rows reaches the limit.
Steep(previous, current) ==
  LET elapsed == current.ts - previous.ts IN
  elapsed > 0 /\ Distance(current.tilt, previous.tilt) >= RateLimit * elapsed

SetRate(e) ==
  /\ IsAt(e, "rate")
  /\ LET w == eval[e] IN
     SetAlert(w.current.node, "rate",
              w.previous # NoRow /\ Steep(w.previous, w.current))
  /\ eval' = [eval EXCEPT ![e] = NoEvaluation]
  /\ UNCHANGED <<samples, now, ever>>

-----------------------------------------------------------------------------
(* Beside it. *)

\* A record of a history chunk is stored and not evaluated.
Import(n, ts, x) ==
  LET row == [node |-> n, ts |-> ts, tilt |-> x] IN
  /\ Cardinality(ever) < MaxRows
  /\ ~ Stored(row)
  /\ samples' = samples \cup {row} /\ ever' = ever \cup {row}
  /\ eval' = [e \in Evaluator |-> [eval[e] EXCEPT !.alone = IsAt(e, "idle")]]
  /\ UNCHANGED <<open, now>>

\* The cutoff is the host's time, the timestamps are the sensors'.
CleanupSamples ==
  /\ samples' = {s \in samples : s.ts >= now - RetentionDays}
  /\ UNCHANGED <<open, eval, now, ever>>

AlertNext ==
  \/ \E e \in Evaluator :
       \/ \E n \in Node, x \in Tilts : Receive(e, n, x)
       \/ ReadPrevious(e) \/ Insert(e) \/ ReadCurrent(e) \/ SetAbsolute(e) \/ SetRate(e)
  \/ \E n \in Node, ts \in 1 .. now, x \in Tilts : Import(n, ts + Skew[n], x)
  \/ CleanupSamples

AlertSpec == AlertInit /\ [][AlertNext]_alertVars

-----------------------------------------------------------------------------
(* Properties. *)

\* No alert without cause: an open alert goes back to rows that were stored,
\* the absolute alert of a node to a row of that node above the limit, the
\* rate alert to a row of that node and an earlier one, whatever evaluations,
\* imports and cleanups overlapped and however the sensors' clocks differ.
AlertsHaveCause ==
  \A n \in Node :
    /\ <<n, "absolute">> \in open => \E s \in ever : s.node = n /\ s.tilt >= Limit
    /\ <<n, "rate">> \in open => \E r, s \in ever : s.node = n /\ Steep(r, s)

\* An evaluation that overlapped with no other and with no import leaves the
\* alert of its node as its reading says, if that is the latest row: a wrong
\* alert lasts no longer, unless the clock of another sensor is ahead.
SettlesWhenAlone ==
  [][\A e \in Evaluator :
       LET reading == eval[e].reading IN
       IsAt(e, "rate") /\ eval[e].alone
         /\ (\A s \in samples \ {reading} : s.ts < reading.ts)
         => (<<reading.node, "absolute">> \in open <=> reading.tilt >= Limit)]_alertVars
=============================================================================
