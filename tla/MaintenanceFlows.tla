--------------------------- MODULE MaintenanceFlows ---------------------------
(***************************************************************************)
(* The flows of several device operations in tools/radio_configuration.py, *)
(* tools/maintenance_cli.py and the recovery endpoint of                   *)
(* tools/web_service.py, on a node that may store a write it does not      *)
(* acknowledge, acknowledge one it does not store, or change other fields  *)
(* with it.                                                                *)
(*                                                                         *)
(* A flow is a list of steps.  A step that raises ends the list, and what  *)
(* the except or finally clause then has to do is collected on the way.    *)
(* Requests are served in order, so a write that takes effect late is for  *)
(* every later request one that took effect at once.                       *)
(***************************************************************************)
EXTENDS Naturals, Sequences

CONSTANTS
  Offered,    \* the flows the operator may choose
  Ignored,    \* fields the node may acknowledge and keep
  Disturbs    \* per field: the others the node may change when it stores it

Field == {"general", "uplink", "downlink", "sampling", "slot", "channels",
          "join", "network", "calibration", "burst"}
\* Local sampling is a mode of the node, not a field of a backup.
Saved == Field \ {"burst"}

Value == {"old", "new", "default", "odd"}

Validations == {"validate-channels", "validate-slot", "validate-burst"}
Flows == Validations \cup {"profile", "credentials", "post-reset", "factory-reset",
                           "reboot", "recover"}

ASSUME MaintenanceAssumption ==
  /\ Offered \subseteq Flows /\ Ignored \subseteq Field
  /\ Disturbs \in [Field -> SUBSET Saved]

VARIABLES
  dev,        \* the node's configuration and sampling mode
  sameId,     \* has the node the ID the operator confirmed?
  restarted,  \* has it restarted since the last complete backup?
  flow,       \* the flow that runs
  phase,      \* "idle", "forward", "undo", "after" or "ended"
  todo,       \* the steps left
  undo,       \* what the except or finally clause has to do
  base,       \* the complete backup a later one is compared with
  raised,     \* is an exception on its way through the clause?
  undoFailed, \* restore_error, rollback_errors
  outcome,    \* what the operator is told
  start,      \* history: the configuration when the flow began
  lied        \* history: was a write acknowledged and not stored?

node   == <<dev, sameId, restarted>>
result == <<raised, undoFailed, outcome>>
vars == <<dev, sameId, restarted, flow, phase, todo, undo, base, raised, undoFailed,
          outcome, start, lied>>

-----------------------------------------------------------------------------
(* Steps. *)

Write(f, v)         == [do |-> "write", field |-> f, value |-> v, undo |-> << >>]
Undoable(f, v, how) == [do |-> "write", field |-> f, value |-> v, undo |-> how]
Read(f, wanted)     == [do |-> "read", field |-> f, wanted |-> wanted]
Match(want)         == [do |-> "match", want |-> want]
Do(what)            == [do |-> what]

\* _write_verified: the readback has to succeed, its value is not compared.
WriteVerified(f, v) == <<Write(f, v), Read(f, Value)>>

\* A write that is read back and compared.
WriteCompared(f, v) == <<Write(f, v), Read(f, {v})>>

-----------------------------------------------------------------------------
(* The flows.  b is the complete backup each starts with. *)

PreservedFields == {"network", "join", "slot"}

ProfileField(f, b) == <<Undoable(f, "new", WriteVerified(f, b[f])), Read(f, Value)>>

Profile(b) ==
  ProfileField("general", b) \o ProfileField("uplink", b)
    \o <<Match([f \in {"general", "uplink"} |-> "new"]),
         Match([f \in PreservedFields |-> b[f]])>>

Network == Match([f \in {"network"} |-> "new"])

Credentials == WriteVerified("join", "new") \o WriteVerified("network", "new") \o <<Network>>

PostReset ==
  <<Do("confirm")>>
    \o WriteVerified("general", "new") \o WriteVerified("uplink", "new")
    \o WriteVerified("downlink", "new") \o WriteVerified("sampling", "new")
    \o WriteVerified("slot", "new") \o WriteVerified("channels", "new")
    \o WriteVerified("join", "new") \o WriteVerified("network", "new") \o <<Network>>

FactoryReset == <<Do("reset"), Do("wait")>>

Reboot == <<Do("backup"), Do("reboot"), Do("health"), Do("same"), Do("uptime")>>

\* The validated backup is that of this node: calibration is not written.
Target(b) == [f \in Saved |-> IF f = "calibration" THEN b[f] ELSE "new"]

Recover(b) == FactoryReset \o PostReset \o Reboot \o <<Match(Target(b))>>

Validate(f, b) ==
  WriteCompared(f, b[f])
    \o <<Undoable(f, "new", WriteCompared(f, b[f])), Read(f, {"new"})>>

Burst == <<Undoable("burst", "new", <<Write("burst", "old")>>), Do("listen")>>

Forward(fl, b) ==
  CASE fl = "profile"           -> Profile(b)
    [] fl = "credentials"       -> Credentials
    [] fl = "post-reset"        -> PostReset
    [] fl = "factory-reset"     -> FactoryReset
    [] fl = "reboot"            -> Reboot
    [] fl = "recover"           -> Recover(b)
    [] fl = "validate-channels" -> Validate("channels", b) \o <<Do("listen")>>
    [] fl = "validate-slot"     -> Validate("slot", b)
    [] fl = "validate-burst"    -> Burst

\* After the finally clause.
After(fl) == IF fl = "validate-burst" THEN <<Do("listen"), Do("same")>> ELSE <<Do("same")>>

Temporary(fl) ==
  CASE fl = "validate-channels" -> {"channels"}
    [] fl = "validate-slot"     -> {"slot"}
    [] OTHER                    -> {}

-----------------------------------------------------------------------------

Step == {"write", "read", "match", "confirm", "reset", "wait", "backup", "reboot", "health",
         "same", "uptime", "listen"}

TypeOK ==
  /\ dev \in [Field -> Value] /\ start \in [Field -> Value] /\ base \in [Field -> Value]
  /\ {sameId, restarted, raised, undoFailed, lied} \subseteq BOOLEAN
  /\ flow \in Flows \cup {"none"}
  /\ phase \in {"idle", "forward", "undo", "after", "ended"}
  /\ \A i \in 1 .. Len(todo) : todo[i].do \in Step
  /\ \A i \in 1 .. Len(undo) : undo[i].do \in {"write", "read"}
  /\ outcome \in {"none", "refused", "nothing to do", "rejected", "done", "failed",
                  "restore failed"}
  /\ outcome # "none" <=> phase = "ended"
  /\ phase = "after" => ~ raised /\ ~ undoFailed

Init ==
  /\ dev \in {d \in [Field -> {"old", "new"}] :
                \A f \in Field \ {"general", "uplink"} : d[f] = "old"}
  /\ sameId = TRUE /\ restarted = FALSE
  /\ flow = "none" /\ phase = "idle" /\ todo = << >> /\ undo = << >> /\ base = dev
  /\ raised = FALSE /\ undoFailed = FALSE /\ outcome = "none"
  /\ start = dev /\ lied = FALSE

-----------------------------------------------------------------------------
(* The beginning and the end of a flow. *)

Configured == dev["general"] = "new" /\ dev["uplink"] = "new"

End(what) == phase' = "ended" /\ outcome' = what

\* The backup, the confirmation or a precondition of the flow fails.
Refuse ==
  /\ phase = "idle"
  /\ flow' \in Offered
  /\ End("refused")
  /\ UNCHANGED <<node, todo, undo, base, raised, undoFailed, start, lied>>

NothingToDo ==
  /\ phase = "idle" /\ Configured
  /\ flow' = "profile" /\ flow' \in Offered
  /\ End("nothing to do")
  /\ UNCHANGED <<node, todo, undo, base, raised, undoFailed, start, lied>>

Begin ==
  /\ phase = "idle"
  /\ \E fl \in Offered :
       /\ fl = "profile" => ~ Configured
       /\ flow' = fl /\ todo' = Forward(fl, dev)
  /\ phase' = "forward"
  /\ base' = dev
  /\ UNCHANGED <<node, undo, result, start, lied>>

\* A return without the clause, or into `finally`.
ForwardEnds ==
  /\ phase = "forward" /\ todo = << >>
  /\ IF flow \in Validations
     THEN phase' = "undo" /\ UNCHANGED <<undo, outcome>>
     ELSE End("done") /\ undo' = << >>
  /\ UNCHANGED <<node, flow, todo, base, raised, undoFailed, start, lied>>

\* Mutant: the error of the clause is not looked at.
UndoEnds_Unlooked ==
  /\ phase = "undo" /\ undo = << >>
  /\ \/ raised /\ End("failed") /\ UNCHANGED todo
     \/ ~ raised /\ phase' = "after" /\ todo' = After(flow) /\ UNCHANGED outcome
  /\ UNCHANGED <<node, flow, undo, base, raised, undoFailed, start, lied>>

\* An exception on its way goes on behind `finally`: what is raised there for
\* restore_error is not reached.
UndoEnds ==
  /\ phase = "undo" /\ undo = << >>
  /\ \/ raised /\ End("failed") /\ UNCHANGED todo
     \/ ~ raised /\ undoFailed /\ End("restore failed") /\ UNCHANGED todo
     \/ /\ ~ raised /\ ~ undoFailed
        /\ phase' = "after" /\ todo' = After(flow)
        /\ UNCHANGED outcome
  /\ UNCHANGED <<node, flow, undo, base, raised, undoFailed, start, lied>>

AfterEnds ==
  /\ phase = "after" /\ todo = << >>
  /\ End("done")
  /\ UNCHANGED <<node, flow, todo, undo, base, raised, undoFailed, start, lied>>

-----------------------------------------------------------------------------
(* Steps of a flow. *)

Current == IF phase = "undo" THEN undo ELSE todo
Now     == Head(Current)

Doing(what) == phase \in {"forward", "undo", "after"} /\ Current # << >> /\ Now.do = what

\* The step is over; `more` is what it adds to the clause.
Goes(more) ==
  /\ IF phase = "undo" THEN undo' = Tail(undo) /\ UNCHANGED todo
                       ELSE todo' = Tail(todo) /\ undo' = more \o undo
  /\ UNCHANGED <<flow, phase, raised, undoFailed, outcome, start>>

\* The step raises.
Raises(more) ==
  /\ \/ /\ phase = "forward"
        /\ raised' = TRUE /\ phase' = "undo"
        /\ todo' = << >> /\ undo' = more \o undo
        /\ UNCHANGED <<undoFailed, outcome>>
     \/ /\ phase = "undo"
        /\ undoFailed' = TRUE
        /\ undo' = << >>
        /\ UNCHANGED <<raised, phase, todo, outcome>>
     \/ /\ phase = "after"
        /\ End("failed")
        /\ UNCHANGED <<raised, undoFailed, todo, undo>>
  /\ UNCHANGED <<flow, start>>

\* External: what the node may be when it has stored a write.
Stored(s) ==
  {[f \in Field |-> IF f = s.field THEN s.value ELSE IF f \in hit THEN "odd" ELSE dev[f]] :
     hit \in SUBSET (Disturbs[s.field] \ {s.field})}

WriteDone ==
  /\ Doing("write")
  /\ dev' \in Stored(Now) \cup (IF Now.field \in Ignored THEN {dev} ELSE {})
  /\ lied' = (lied \/ dev'[Now.field] # Now.value)
  /\ Goes(Now.undo)
  /\ UNCHANGED <<sameId, restarted, base>>

\* Mutant: an operation is noted once it was acknowledged.
WriteRaises_NotNoted ==
  /\ Doing("write")
  /\ dev' \in Stored(Now) \cup {dev}
  /\ Raises(<< >>)
  /\ UNCHANGED <<sameId, restarted, base, lied>>

\* Whether or not it was stored, the flow did note the operation before.
WriteRaises ==
  /\ Doing("write")
  /\ dev' \in Stored(Now) \cup {dev}
  /\ Raises(Now.undo)
  /\ UNCHANGED <<sameId, restarted, base, lied>>

\* Starting local sampling fails other than by a timeout (a framing error, an
\* error of the port): `started` is not set, and nothing will stop it.
StartUnnoted ==
  /\ Doing("write")
  /\ flow = "validate-burst" /\ phase = "forward"
  /\ dev' \in Stored(Now) \cup {dev}
  /\ Raises(<< >>)
  /\ UNCHANGED <<sameId, restarted, base, lied>>

\* The node answers a nonzero code.  Local sampling that is rejected was not
\* started and is a result; the backup of that result may fail.
StartRejected ==
  /\ Doing("write")
  /\ flow = "validate-burst" /\ phase = "forward"
  /\ \E what \in {"rejected", "failed"} : End(what)
  /\ todo' = << >>
  /\ UNCHANGED <<node, flow, undo, base, raised, undoFailed, start, lied>>

\* External: the defaults spare calibration; the ID may be another one.
ResetDone ==
  /\ Doing("reset")
  /\ dev' = [f \in Field |-> CASE f = "calibration" -> dev[f]
                               [] f = "burst"       -> "old"
                               [] OTHER             -> "default"]
  /\ sameId' \in BOOLEAN
  /\ restarted' = TRUE
  /\ Goes(<< >>) \/ Raises(<< >>)
  /\ UNCHANGED <<base, lied>>

\* A complete backup.
BackupTaken ==
  /\ Doing("backup")
  /\ base' = dev /\ restarted' = FALSE
  /\ Goes(<< >>)
  /\ UNCHANGED <<dev, sameId, lied>>

\* The request is not acknowledged; the node may miss it.
RebootSent ==
  /\ Doing("reboot")
  /\ restarted' \in {restarted, TRUE}
  /\ Goes(<< >>)
  /\ UNCHANGED <<dev, sameId, base, lied>>

\* Mutant: the ID of the node that came back is taken for the confirmed one.
Holds_AnyId ==
  \/ Now.do \in {"confirm", "wait", "listen", "health"}
  \/ Now.do = "uptime" /\ restarted
  \/ Now.do = "read" /\ dev[Now.field] \in Now.wanted
  \/ Now.do = "match" /\ \A f \in DOMAIN Now.want : dev[f] = Now.want[f]
  \/ Now.do = "same" /\ \A f \in Saved : dev[f] = base[f]

\* Mutant: the backup after a flow is taken and not compared.
Holds_NotCompared ==
  \/ Now.do \in {"wait", "listen", "match", "same"}
  \/ Now.do \in {"confirm", "health"} /\ sameId
  \/ Now.do = "uptime" /\ restarted
  \/ Now.do = "read" /\ dev[Now.field] \in Now.wanted

\* What a step that only looks requires to go on.
Holds ==
  \/ Now.do \in {"wait", "listen"}
  \/ Now.do \in {"confirm", "health"} /\ sameId
  \/ Now.do = "uptime" /\ restarted
  \/ Now.do = "read" /\ dev[Now.field] \in Now.wanted
  \/ Now.do = "match" /\ \A f \in DOMAIN Now.want : dev[f] = Now.want[f]
  \/ Now.do = "same" /\ \A f \in Saved : dev[f] = base[f]

Looks == \E what \in {"read", "match", "confirm", "wait", "health", "same", "uptime", "listen"} :
           Doing(what)

LookPasses ==
  /\ Looks
  /\ Holds
  /\ Goes(<< >>)
  /\ UNCHANGED <<node, base, lied>>

\* It finds something else; or the line, the port or a deadline fails it.
StepRaises ==
  /\ Looks \/ Doing("backup") \/ Doing("reset") \/ Doing("reboot")
  /\ Raises(<< >>)
  /\ UNCHANGED <<node, base, lied>>

\* Local sampling ends by itself after at most fifteen seconds.
BurstEnds ==
  /\ dev["burst"] # "old" /\ phase # "idle"
  /\ dev' = [dev EXCEPT !["burst"] = "old"]
  /\ UNCHANGED <<sameId, restarted, flow, phase, todo, undo, base, result, start, lied>>

Next ==
  \/ Refuse \/ NothingToDo \/ Begin \/ ForwardEnds \/ UndoEnds \/ AfterEnds
  \/ WriteDone \/ WriteRaises \/ StartUnnoted \/ StartRejected
  \/ ResetDone \/ BackupTaken \/ RebootSent \/ LookPasses \/ StepRaises \/ BurstEnds

Spec == Init /\ [][Next]_vars

-----------------------------------------------------------------------------
(* Properties. *)

Untouched(fields) == \A f \in fields : dev[f] = start[f]

\* A flow reports success only when the node has what the flow is for,
\* although a write may be acknowledged and not stored, or change fields that
\* no readback of the flow looks at: a profile with the fields of the gateway
\* preserved, a validation or a reboot that changed nothing, a recovery that
\* ends in the backup, credentials with their network.
SuccessMeansConfigured ==
  outcome = "done" =>
    /\ flow = "profile" =>
         dev["general"] = "new" /\ dev["uplink"] = "new" /\ Untouched(PreservedFields)
    /\ flow \in Validations \cup {"reboot"} => Untouched(Saved)
    /\ flow \in {"credentials", "post-reset"} => dev["network"] = "new"
    /\ flow = "recover" => sameId /\ \A f \in Saved : dev[f] = Target(start)[f]

\* Does the node leave each field of a profile alone when it stores the other?
Uncoupled == "uplink" \notin Disturbs["general"] /\ "general" \notin Disturbs["uplink"]

\* A flow that fails with no error of its clause has undone what it wrote,
\* also the write whose acknowledgement was lost: a validation in any case, a
\* profile when the node stores what it acknowledges (its rollback reads the
\* fields back and does not compare them) and does not couple its two fields
\* (the rollback writes one after the other, and only those it has begun).
FailureIsUndone ==
  outcome = "failed" /\ ~ undoFailed =>
    /\ Untouched(Temporary(flow))
    /\ flow = "profile" /\ ~ lied /\ Uncoupled => Untouched({"general", "uplink"})

\* Nothing is written to a node whose ID is not the one the operator
\* confirmed: the reset, which may change it, is the last write before that
\* is noticed.
ConfirmedNodeOnly == [][~ sameId => \A f \in Saved : dev'[f] = dev[f]]_vars
=============================================================================
