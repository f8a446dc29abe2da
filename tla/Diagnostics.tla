----------------------------- MODULE Diagnostics -----------------------------
(***************************************************************************)
(* The deep diagnostic suite (tools/deep_diagnostics.py) and the recovery  *)
(* check (tools/recovery_check.py): a series of separate read transactions *)
(* and a verdict over what they brought.  Each transaction takes the lock  *)
(* of the service for itself, so from one to the next the adapter may be   *)
(* unplugged, another sensor attached, a fault appear or go away.          *)
(*                                                                         *)
(* A reading is what the rules tell apart: did it come, from which node,   *)
(* and does it show a fault.  Noise and stable axes, which only add advice *)
(* to the report, are left out.                                            *)
(***************************************************************************)
EXTENDS Naturals, Sequences, FiniteSets

CONSTANTS
  Attempts,    \* HEALTH_, IDENTITY_ and MEASUREMENT_ATTEMPTS
  Families,    \* how many configuration queries there are
  MaxNode,     \* bound: sensors
  MaxFaults,   \* bound: faults in a run
  MaxChanges,  \* bound: changes of the situation during a run
  MaxLosses    \* bound: answers lost during a run

ASSUME DiagnosticsAssumption ==
  /\ Attempts \in Nat \ {0} /\ Families \in Nat \ {0} /\ MaxNode \in Nat \ {0}
  /\ MaxFaults \in Nat /\ MaxChanges \in Nat /\ MaxLosses \in Nat

\* What the suite may find at a sensor that answers: a low battery, a restart
\* in the stored health records, a query that fails, a sensor error, an
\* impossible angle, no usable clock, history that does not complete.
DeepFault == {"battery", "resets", "identity", "families", "live", "error", "angle",
              "clock", "history"}

\* What the recovery check may find: also the factory-reset address, radio or
\* acquisition off.
RecoveryFault == {"battery", "identity", "families", "sentinel", "radio", "axes"}

Fault == DeepFault \cup RecoveryFault

\* The adapter is absent or closed to the user, or the sensor behind it is
\* silent, sends noise, waits in the bootloader or answers.
Situation ==
  [link : {"absent", "denied", "silent", "noise", "boot"}, node : {1}, faults : {{}}]
    \cup [link : {"up"}, node : 1 .. MaxNode,
          faults : {F \in SUBSET Fault : Cardinality(F) <= MaxFaults}]

VARIABLES
  now,       \* the situation
  suite,     \* "deep" or "recovery"
  pc,        \* the stage it is in
  usb,       \* diagnose: the state of the adapter
  listened,  \* the passive listen found bootloader bytes
  probe,     \* the framing probe: "framed", "bytes" or "none"
  health,    \* health readings
  resets,    \* restarts in the stored records; reconnections
  identity,  \* info readings
  families,  \* configuration readings; in the recovery check, the backup
  live,      \* live readings
  history,   \* the history check
  past,      \* history: every situation since the run began
  losses     \* history: answers lost in it

found == <<usb, listened, probe, health, resets, identity, families, live, history>>
vars  == <<now, suite, pc, usb, listened, probe, health, resets, identity, families,
           live, history, past, losses>>

\* A reading that came, or did not.
Reading == [ok : BOOLEAN, node : 1 .. MaxNode, faults : SUBSET Fault]

TypeOK ==
  /\ now \in Situation /\ \A i \in DOMAIN past : past[i] \in Situation
  /\ suite \in {"deep", "recovery"}
  /\ pc \in {"idle", "usb", "listen", "probe", "health", "identity", "recent", "families",
             "live", "history", "status", "done"}
  /\ usb \in {"absent", "denied", "open"} /\ listened \in BOOLEAN
  /\ probe \in {"framed", "bytes", "none"} /\ resets \in BOOLEAN
  /\ \A s \in {health, identity, live} :
       s \in Seq(Reading) /\ Len(s) <= Attempts
  /\ families \in Seq(Reading) /\ Len(families) <= Families
  /\ history \in {"ok", "skipped", "bad"}
  /\ losses \in 0 .. MaxLosses

Init ==
  /\ now \in Situation /\ pc = "idle" /\ suite \in {"deep", "recovery"}
  /\ usb = "open" /\ listened = FALSE /\ probe = "none" /\ resets = FALSE
  /\ health = << >> /\ identity = << >> /\ families = << >> /\ live = << >>
  /\ history = "skipped"
  /\ past = << >> /\ losses = 0

-----------------------------------------------------------------------------
\* The situation changes during a run (external).
Change ==
  /\ pc \notin {"idle", "done"} /\ Len(past) <= MaxChanges
  /\ now' \in Situation \ {now}
  /\ Cardinality(now.faults) + Cardinality(now'.faults) <= MaxFaults
  /\ past' = Append(past, now')
  /\ UNCHANGED <<suite, pc, found, losses>>

\* A transaction: the sensor answers, unless the query is one that fails, or
\* the answer is lost.
Answers(failing) == now.link = "up" /\ now.faults \cap failing = {}

Transaction(failing, ok) ==
  \/ ok = Answers(failing) /\ UNCHANGED losses
  \/ Answers(failing) /\ ~ ok /\ losses < MaxLosses /\ losses' = losses + 1

ReadingOf(ok) == [ok |-> ok, node |-> IF ok THEN now.node ELSE 1,
                  faults |-> IF ok THEN now.faults ELSE {}]

\* _attempt: one reading of a series of n; an exception is a reading too.
Series(s, failing, n) ==
  /\ Len(s) < n
  /\ \E ok \in BOOLEAN : Transaction(failing, ok) /\ s' = Append(s, ReadingOf(ok))

Goes(from, to) == suite = "deep" /\ pc = from /\ pc' = to /\ UNCHANGED <<now, suite, past>>

-----------------------------------------------------------------------------
(* run_deep_diagnostics and, up to its verdict, run_recovery_check. *)

Begin ==
  /\ pc = "idle" /\ pc' = "usb"
  /\ past' = <<now>>
  /\ UNCHANGED <<now, suite, found, losses>>

\* diagnose; without access the suite goes straight to the verdict.
Usb ==
  /\ pc = "usb"
  /\ usb' = IF now.link \in {"absent", "denied"} THEN now.link ELSE "open"
  /\ pc' = IF usb' # "open" THEN "done" ELSE IF suite = "deep" THEN "listen" ELSE "health"
  /\ UNCHANGED <<now, suite, past, losses, listened, probe, health, resets, identity,
                 families, live, history>>

\* What the rule of the listen tells apart in the bytes of its 1.5 s: how many
\* control bytes (2: or more), are they most of them, is there a frame marker.
Received == {r \in [controls : 0 .. 2, dense : BOOLEAN, marker : BOOLEAN] :
               r.dense => r.controls > 0}

Nothing == [controls |-> 0, dense |-> FALSE, marker |-> FALSE]

\* A bootloader may be slow or quiet and noise may be anything; a sensor that
\* answers sends, unasked, at most the rest of a late answer, mostly payload.
\* On the other lines the listen reads nothing or fails.
Arriving(link) ==
  CASE link \in {"boot", "noise"} -> Received
    [] link = "up" -> {r \in Received : ~ r.dense}
    [] OTHER -> {Nothing}

\* Mutant: control bytes are a signal in whatever else is received.
Signal_AnyControl(r) == ~ r.marker /\ r.controls >= 2

Signal(r) == ~ r.marker /\ r.controls >= 2 /\ r.dense

\* _passive_bootloader_probe
Listen ==
  /\ Goes("listen", "probe")
  /\ \E r \in Arriving(now.link) : listened' = Signal(r)
  /\ UNCHANGED <<losses, usb, probe, health, resets, identity, families, live, history>>

\* What the probe receives in 5 s that is no answer: noise keeps coming, a
\* bootloader may be quiet, an answer may be garbled or missing.
Heard(link) ==
  CASE link = "noise" -> {"bytes"}
    [] link \in {"boot", "up"} -> {"bytes", "none"}
    [] OTHER -> {"none"}

\* _framed_health_probe
Probe ==
  /\ Goes("probe", "health")
  /\ \E ok \in BOOLEAN : /\ Transaction({}, ok)
                         /\ probe' \in IF ok THEN {"framed"} ELSE Heard(now.link)
  /\ UNCHANGED <<usb, listened, health, resets, identity, families, live, history>>

ReadHealth ==
  /\ Series(health, {}, Attempts)
  /\ Goes("health", IF Len(health') = Attempts THEN "identity" ELSE "health")
  /\ UNCHANGED <<usb, listened, probe, resets, identity, families, live, history>>

ReadIdentity ==
  /\ Series(identity, {"identity"}, Attempts)
  /\ Goes("identity", IF Len(identity') = Attempts THEN "recent" ELSE "identity")
  /\ UNCHANGED <<usb, listened, probe, health, resets, families, live, history>>

\* _valid: where in the series the readings that came are.
Valid(s) == {i \in 1 .. Len(s) : s[i].ok}

\* What the last health reading shows; without one there is no clock either.
LastHealth ==
  IF Valid(health) = {} THEN {"clock"}
  ELSE health[CHOOSE i \in Valid(health) : \A j \in Valid(health) : j <= i].faults

\* The stored records of the node that last gave its health.
Recent ==
  /\ Goes("recent", "families")
  /\ resets' = ("resets" \in LastHealth)
  /\ UNCHANGED <<losses, usb, listened, probe, health, identity, families, live, history>>

\* One query per family; "families" is the last one failing.
ReadFamily ==
  /\ Series(families, IF Len(families) = Families - 1 THEN {"families"} ELSE {}, Families)
  /\ Goes("families", IF Len(families') = Families THEN "live" ELSE "families")
  /\ UNCHANGED <<usb, listened, probe, health, resets, identity, live, history>>

ReadLive ==
  /\ Series(live, {"live"}, Attempts)
  /\ Goes("live", IF Len(live') = Attempts THEN "history" ELSE "live")
  /\ UNCHANGED <<usb, listened, probe, health, resets, identity, families, history>>

\* _history_check, around the clock of the last health reading.
CheckHistory ==
  /\ Goes("history", "done")
  /\ \/ /\ "clock" \in LastHealth
        /\ history' = "skipped" /\ UNCHANGED losses
     \/ /\ "clock" \notin LastHealth
        /\ \E ok \in BOOLEAN : /\ Transaction({"history"}, ok)
                               /\ history' = IF ok THEN "ok" ELSE "bad"
  /\ UNCHANGED <<usb, listened, probe, health, resets, identity, families, live>>

\* The recovery check reads health once and then a complete backup.
RecoveryHealth ==
  /\ suite = "recovery" /\ pc = "health"
  /\ Series(health, {}, 1)
  /\ pc' = IF Valid(health') = {} THEN "done" ELSE "families"
  /\ UNCHANGED <<now, suite, past, usb, listened, probe, resets, identity, families, live,
                 history>>

RecoveryBackup ==
  /\ suite = "recovery" /\ pc = "families"
  /\ Series(families, {"identity", "families"}, 1)
  /\ pc' = IF Valid(families') = {} THEN "done" ELSE "status"
  /\ UNCHANGED <<now, suite, past, usb, listened, probe, health, resets, identity, live,
                 history>>

\* Were reconnections counted?  Those of any read are.
RecoveryStatus ==
  /\ suite = "recovery" /\ pc = "status" /\ pc' = "done"
  /\ resets' \in BOOLEAN
  /\ UNCHANGED <<now, suite, past, losses, usb, listened, probe, health, identity, families,
                 live, history>>

Stage ==
  \/ Begin \/ Usb
  \/ Listen \/ Probe \/ ReadHealth \/ ReadIdentity \/ Recent \/ ReadFamily \/ ReadLive
  \/ CheckHistory
  \/ RecoveryHealth \/ RecoveryBackup \/ RecoveryStatus

Next == Change \/ Stage

Spec == Init /\ [][Next]_vars
-----------------------------------------------------------------------------
(* The verdict of the deep suite: _classify. *)

\* Mutant: an attempt without a reply counts as a reply without a node.
Consistent_CountsFailures ==
  \A i, j \in 1 .. Len(health) : health[i].ok = health[j].ok /\ health[i].node = health[j].node

Consistent ==
  \A i, j \in 1 .. Len(health) :
    health[i].ok /\ health[j].ok => health[i].node = health[j].node

LowBattery == "battery" \in LastHealth

IdentityFails == \E i \in 1 .. Len(identity) : ~ identity[i].ok

\* failed_queries, over the first info reading and one per family.
ConfigFails ==
  \/ identity # << >> /\ ~ identity[1].ok
  \/ \E i \in 1 .. Len(families) : ~ families[i].ok

Shows(s, fault) == \E i \in 1 .. Len(s) : s[i].ok /\ fault \in s[i].faults

LiveFails == Valid(live) = {} \/ Shows(live, "error")

\* In the order of the function: when it holds, what is said.
Rules == <<
  <<usb = "absent",                            "failed",  "usb_not_enumerated">>,
  <<usb = "denied",                            "failed",  "usb_access_denied">>,
  <<listened,                                  "failed",  "possible_bootloader_mode">>,
  <<Valid(health) = {} /\ probe # "none",     "failed",  "serial_framing_or_firmware">>,
  <<Valid(health) = {},                       "failed",  "sensor_power_mcu_or_uart">>,
  <<~ Consistent,                              "failed",  "unstable_identity">>,
  <<LowBattery,                                "warning", "power_problem">>,
  <<resets,                                    "warning", "repeated_sensor_resets">>,
  <<IdentityFails,                             "warning", "identity_or_firmware_instability">>,
  <<ConfigFails,                               "warning", "configuration_or_firmware_problem">>,
  <<LiveFails,                                 "failed",  "measurement_hardware_or_firmware">>,
  <<Shows(live, "angle"),                      "warning", "measurement_plausibility_problem">>,
  <<history = "bad",                           "warning", "history_or_storage_problem">>,
  <<TRUE,                                      "ready",   "sensor_responsive">> >>

\* The first of the rules that applies.
First(rules) ==
  rules[CHOOSE i \in DOMAIN rules : rules[i][1] /\ \A j \in 1 .. i - 1 : ~ rules[j][1]]

Verdict == LET rules == Rules IN First(rules)

Classification == Verdict[3]

\* The steps of the report that are not "passed".
NotPassed == {step \in {"listen", "framing", "health", "identity", "families", "live", "history"} :
  CASE step = "listen"   -> listened
    [] step = "framing"  -> probe # "framed"
    [] step = "health"   -> Cardinality(Valid(health)) < Attempts
    [] step = "identity" -> IdentityFails
    [] step = "families" -> ConfigFails
    [] step = "live"     -> Cardinality(Valid(live)) < Attempts \/ Shows(live, "error")
    [] step = "history"  -> history # "ok"}

(* The verdict of the recovery check: the worst of its steps. *)

RecoveryFailed ==
  usb # "open" \/ Valid(health) = {} \/ Valid(families) = {} \/ Shows(families, "sentinel")

\* Mutant: the acquisition step is reported and not counted.
RecoveryWarns_NoAxes == Shows(families, "radio") \/ LowBattery \/ resets

RecoveryWarns ==
  Shows(families, "axes") \/ Shows(families, "radio") \/ LowBattery \/ resets

Overall ==
  IF suite = "deep" THEN Verdict[2]
  ELSE IF RecoveryFailed THEN "failed" ELSE IF RecoveryWarns THEN "warning" ELSE "ready"

-----------------------------------------------------------------------------
(* Properties. *)

Done == pc = "done"

\* What is to be said of a sensor that answers: the first fault in the order of
\* the documentation.
FirstFault(at) == First(<<
  <<"battery" \in at.faults,                  "power_problem">>,
  <<"resets" \in at.faults,                   "repeated_sensor_resets">>,
  <<"identity" \in at.faults,                 "identity_or_firmware_instability">>,
  <<"families" \in at.faults,                 "configuration_or_firmware_problem">>,
  <<at.faults \cap {"live", "error"} # {},     "measurement_hardware_or_firmware">>,
  <<"angle" \in at.faults,                    "measurement_plausibility_problem">>,
  <<at.faults \cap {"clock", "history"} = {"history"}, "history_or_storage_problem">>,
  <<TRUE,                                     "sensor_responsive">> >>)[2]

\* What may be said of one situation: the outermost layer that is wrong.  That
\* no bootloader was heard does not prove its absence: then it passes for a
\* faulty line or a dead sensor, and noise may sound like a bootloader.
Named(at) ==
  CASE at.link = "absent" -> {"usb_not_enumerated"}
    [] at.link = "denied" -> {"usb_access_denied"}
    [] at.link = "silent" -> {"sensor_power_mcu_or_uart"}
    [] at.link = "noise"  -> {"possible_bootloader_mode", "serial_framing_or_firmware"}
    [] at.link = "boot"   -> {"possible_bootloader_mode", "serial_framing_or_firmware",
                              "sensor_power_mcu_or_uart"}
    [] at.link = "up"     -> {FirstFault(at)}

\* Of a sensor whose situation does not change, nothing being lost, the suite
\* names the layer that is wrong and, if the sensor answers, its first fault,
\* although it sees it only through twenty readings: a bootloader is said only
\* where one or noise is, never of a sensor that is silent or answers.  With
\* nothing wrong every step has passed.
StableVerdict ==
  Done /\ suite = "deep" /\ Len(past) = 1 /\ losses = 0 =>
    /\ Classification \in Named(past[1])
    /\ past[1].link = "up" /\ past[1].faults \cap DeepFault = {} => NotPassed = {}

Was(link) == \E i \in DOMAIN past : past[i].link = link
Had(F) == \E i \in DOMAIN past : past[i].faults \cap F # {}

\* An answer may be missing without a fault of its own.
Missed == losses > 0 \/ \E i \in DOMAIN past : past[i].link # "up"

\* Whatever changes during the run, and whatever is lost, the cause the deep
\* suite names was there at some time of it: a reply that is missing is not
\* taken for another sensor, a low battery or an error of the sensor.
CauseSeen ==
  Done /\ suite = "deep" =>
    LET said == Classification IN
    CASE said = "usb_not_enumerated" -> Was("absent")
      [] said = "usb_access_denied" -> Was("denied")
      [] said = "possible_bootloader_mode" -> Was("boot") \/ Was("noise")
      [] said = "serial_framing_or_firmware" -> Missed
      [] said = "sensor_power_mcu_or_uart" ->
           losses > Attempts \/ \E i \in DOMAIN past : past[i].link # "up"
      [] said = "unstable_identity" ->
           \E i, j \in DOMAIN past : past[i].link = "up" /\ past[j].link = "up"
                                     /\ past[i].node # past[j].node
      [] said = "power_problem" -> Had({"battery"})
      [] said = "repeated_sensor_resets" -> Had({"resets"})
      [] said = "identity_or_firmware_instability" -> Missed \/ Had({"identity"})
      [] said = "configuration_or_firmware_problem" -> Missed \/ Had({"families"})
      [] said = "measurement_hardware_or_firmware" -> Missed \/ Had({"live", "error"})
      [] said = "measurement_plausibility_problem" -> Had({"angle"})
      [] said = "history_or_storage_problem" -> Missed \/ Had({"history"})
      [] said = "sensor_responsive" -> Was("up")

Looked == IF suite = "recovery" THEN RecoveryFault
          ELSE DeepFault \ IF history = "skipped" THEN {"clock", "history"} ELSE {}

\* "ready" means that for everything the suite looks at there was a moment in
\* the run when the sensor answered without that fault.
ReadyWitnessed ==
  Done /\ Overall = "ready" =>
    \A f \in Looked : \E i \in DOMAIN past :
      past[i].link = "up" /\ f \notin past[i].faults
=============================================================================
