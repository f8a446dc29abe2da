----------------------------- MODULE ConfigPlans -----------------------------
(***************************************************************************)
(* The endpoints of tools/web_service.py that change a configuration, each *)
(* request in a thread of the pool: preview and apply, which meet in the   *)
(* dictionary configuration_plans, the restore of a backup, the regional   *)
(* profile and the gateway credentials of tools/radio_configuration.py.    *)
(*                                                                         *)
(* The service's lock covers a complete backup, a guarded restore, or the  *)
(* writes of one flow, and each of these is a step; between them any other *)
(* request may run.  A restore is taken as RestorePromise describes it, on *)
(* a node whose writes change no other field.                              *)
(***************************************************************************)
EXTENDS Naturals, Sequences, FiniteSets

CONSTANTS
  Client,     \* request threads
  Delivered,  \* the configurations of the nodes attached one after the other
  Value,      \* values of a field
  Further,    \* restorable fields besides the slot time
  MaxPlans,   \* bound: previews in one behaviour
  MaxCalls    \* bound: requests in one behaviour

\* Mutant: previews and restores include the general radio settings.
Restorable_General == {"slot", "general"} \cup Further

Restorable == {"slot"} \cup Further

\* "network" is what the gateway knows of the node: the ID and the join
\* parameters.
ProfileField == {"general", "uplink"}
Field  == Restorable \cup ProfileField \cup {"network"}
Config == [Field -> Value]
Node   == DOMAIN Delivered
Plan   == 1 .. MaxPlans

\* The only profile there is, EUROPE, has one value per field.
Europe == 1

ASSUME PlansAssumption ==
  /\ MaxPlans \in Nat /\ MaxCalls \in Nat /\ Europe \in Value
  /\ Further \subseteq {"sampling", "channels"}
  /\ Delivered \in Seq(Config) /\ Delivered # << >>

VARIABLES
  node,      \* the node attached
  dev,       \* its configuration
  plans,     \* configuration_plans: the plans that may be applied
  shown,     \* per plan: the node, the current and the target configuration
             \* the preview returned
  pc,        \* per thread: where its request is
  plan,      \* per thread: the plan it stores or applies
  before,    \* per thread: the backup its flow started from
  applied,   \* per thread: the profile's operations begun
  wanted,    \* per thread: the network of its credentials
  outcome,   \* per thread: what its last request returned
  made,      \* previews so far
  calls,     \* requests so far
  older,     \* history: per plan, those returned before its backup
  used,      \* history: plans handed to a restore
  rewritten, \* history: per plan, the fields a restore has written since
  promised,  \* history: is "regional profile applied" the last that was said?
  spoilers,  \* history: profile requests under way when it was
  original,  \* history: the profile's fields before any request
  mixed      \* history: did two profile requests overlap, or a rollback go wrong?

device == <<node, dev>>
desk   == <<plans, shown, made, older, used>>
flow   == <<promised, spoilers, original, mixed>>
ghosts == <<flow, rewritten>>
locals == <<plan, before, applied, wanted>>
vars   == <<node, dev, plans, shown, pc, plan, before, applied, wanted, outcome,
            made, calls, older, used, rewritten, promised, spoilers, original, mixed>>

Backup == [node : Node, config : Config]
Proposal == [node : Node, current : Config, target : Config]

TypeOK ==
  /\ node \in Node /\ dev \in Config
  /\ plans \subseteq 1 .. made
  /\ shown \in [1 .. made -> Proposal]
  /\ pc \in [Client -> {"idle", "clear", "store", "apply", "profile", "verify",
                        "rollback", "credentials", "check"}]
  /\ plan \in [Client -> 0 .. made]
  /\ before \in [Client -> Backup]
  /\ applied \in [Client -> SUBSET ProfileField]
  /\ wanted \in [Client -> Value]
  /\ outcome \in [Client -> {"none", "preview", "expired", "restored", "refused",
                             "failed", "profile", "credentials"}]
  /\ made \in 0 .. MaxPlans /\ calls \in 0 .. MaxCalls
  /\ older \in [1 .. made -> SUBSET (1 .. made)] /\ used \subseteq 1 .. made
  /\ rewritten \in [1 .. made -> SUBSET Restorable]
  /\ promised \in BOOLEAN /\ spoilers \subseteq Client
  /\ original \in [ProfileField -> Value] /\ mixed \in BOOLEAN

\* A profile request that has its backup.
Flow == {"profile", "verify", "rollback"}

Of(config) == [f \in ProfileField |-> config[f]]

Init ==
  /\ node = 1 /\ dev = Delivered[1]
  /\ plans = {} /\ shown = << >> /\ made = 0 /\ older = << >> /\ used = {}
  /\ rewritten = << >>
  /\ pc = [c \in Client |-> "idle"]
  /\ plan = [c \in Client |-> 0]
  /\ before = [c \in Client |-> [node |-> 1, config |-> Delivered[1]]]
  /\ applied = [c \in Client |-> {}]
  /\ wanted = [c \in Client |-> Delivered[1]["network"]]
  /\ outcome = [c \in Client |-> "none"]
  /\ calls = 0
  /\ promised = FALSE /\ spoilers = {} /\ original = Of(Delivered[1]) /\ mixed = FALSE

-----------------------------------------------------------------------------
\* Another node is attached (external).
Swap ==
  /\ node + 1 \in Node
  /\ node' = node + 1 /\ dev' = Delivered[node + 1]
  /\ promised' = FALSE /\ original' = Of(dev')
  /\ mixed' = \E c \in Client : pc[c] \in Flow
  /\ UNCHANGED <<desk, pc, locals, outcome, calls, spoilers, rewritten>>

Goes(c, from, to) == pc[c] = from /\ pc' = [pc EXCEPT ![c] = to]

Calls(c, to) == /\ Goes(c, "idle", to)
                /\ calls < MaxCalls /\ calls' = calls + 1

Returns(c, o) == outcome' = [outcome EXCEPT ![c] = o]

Current == [node |-> node, config |-> dev]

-----------------------------------------------------------------------------
(* preview_configuration. *)

\* The backup, under the lock; the target is the node's own configuration
\* with the values asked for.
Preview(c) ==
  /\ Calls(c, "clear")
  /\ made < MaxPlans /\ made' = made + 1
  /\ \E v \in [Restorable -> Value] :
       shown' = [p \in 1 .. made' |->
                   IF p \in DOMAIN shown THEN shown[p]
                   ELSE [node |-> node, current |-> dev,
                         target |-> [f \in Field |-> IF f \in Restorable THEN v[f] ELSE dev[f]]]]
  /\ plan' = [plan EXCEPT ![c] = made']
  /\ older' = [p \in 1 .. made' |->
                 IF p \in DOMAIN older THEN older[p]
                 ELSE 1 .. made \ {plan[d] : d \in {d \in Client : pc[d] \in {"clear", "store"}}}]
  /\ rewritten' = [p \in 1 .. made' |-> IF p \in DOMAIN rewritten THEN rewritten[p] ELSE {}]
  /\ UNCHANGED <<device, plans, used, before, applied, wanted, outcome, flow>>

\* Mutant: former plans are left in the dictionary.
Clear_Keeps(c) ==
  /\ Goes(c, "clear", "store")
  /\ UNCHANGED <<device, desk, locals, outcome, calls, ghosts>>

Clear(c) ==
  /\ Goes(c, "clear", "store")
  /\ plans' = {}
  /\ UNCHANGED <<device, shown, made, older, used, locals, outcome, calls, ghosts>>

Store(c) ==
  /\ Goes(c, "store", "idle")
  /\ plans' = plans \cup {plan[c]}
  /\ Returns(c, "preview")
  /\ UNCHANGED <<device, shown, made, older, used, locals, calls, ghosts>>

-----------------------------------------------------------------------------
(* apply_configuration. *)

Take(c) ==
  /\ Calls(c, "apply")
  /\ \E p \in plans : /\ plans' = plans \ {p}
                      /\ used' = used \cup {p}
                      /\ plan' = [plan EXCEPT ![c] = p]
  /\ UNCHANGED <<device, shown, made, older, before, applied, wanted, outcome, ghosts>>

\* The ten minutes are over: the plan is gone with the request.
Expired(c) ==
  /\ Calls(c, "idle")
  /\ \E p \in plans : plans' = plans \ {p}
  /\ Returns(c, "expired")
  /\ UNCHANGED <<device, shown, made, older, used, locals, ghosts>>

\* diff_snapshots
Differing(a, b) == {f \in Field : a[f] # b[f]}

\* build_restore_plan finds the node, something to do and nothing blocked.
CanApply(p) ==
  /\ shown[p].node = node
  /\ Differing(dev, shown[p].target) # {}
  /\ Differing(dev, shown[p].target) \subseteq Restorable

\* Wrong confirmation, nothing to do, a blocked change, a failed backup.
Refused(c) ==
  /\ Goes(c, "apply", "idle")
  /\ Returns(c, "refused")
  /\ UNCHANGED <<device, desk, locals, calls, ghosts>>

\* A restore writes the fields in fs; it may have begun with those in tried.
Writes(fs, tried, target) ==
  /\ dev' = [f \in Field |-> IF f \in fs THEN target[f] ELSE dev[f]]
  /\ rewritten' = [p \in 1 .. made |-> rewritten[p] \cup tried]

\* The backup, the plan made anew from it, its operations and the second
\* backup.
Restored(c) ==
  /\ Goes(c, "apply", "idle")
  /\ CanApply(plan[c])
  /\ LET target == shown[plan[c]].target
         todo   == Differing(dev, target)
     IN Writes(todo, todo, target)
  /\ Returns(c, "restored")
  /\ UNCHANGED <<node, desk, locals, calls, flow>>

\* A write that could not be taken back stays.
NotRestored(c) ==
  /\ Goes(c, "apply", "idle")
  /\ CanApply(plan[c])
  /\ LET target == shown[plan[c]].target
         todo   == Differing(dev, target)
     IN \E fs \in SUBSET todo : Writes(fs, todo, target)
  /\ Returns(c, "failed")
  /\ UNCHANGED <<node, desk, locals, calls, flow>>

-----------------------------------------------------------------------------
(* apply, the restore of a backup the operator sends. *)

\* One that is refused changes nothing and is left out.
BackupRestored(c) ==
  /\ Calls(c, "idle")
  /\ \E target \in Config :
       LET todo == Differing(dev, target)
       IN /\ todo # {} /\ todo \subseteq Restorable
          /\ \/ Writes(todo, todo, target) /\ Returns(c, "restored")
             \/ (\E fs \in SUBSET todo : Writes(fs, todo, target)) /\ Returns(c, "failed")
  /\ UNCHANGED <<node, desk, locals, flow>>

-----------------------------------------------------------------------------
(* apply_regional_profile. *)

Configured(config) == \A f \in ProfileField : config[f] = Europe

Promise(c) ==
  /\ promised' = TRUE
  /\ spoilers' = {d \in Client \ {c} : pc[d] \in Flow}

AlreadyConfigured(c) ==
  /\ Calls(c, "idle")
  /\ Configured(dev)
  /\ Returns(c, "profile") /\ Promise(c)
  /\ UNCHANGED <<device, desk, locals, original, mixed, rewritten>>

Profile(c) ==
  /\ Calls(c, "profile")
  /\ ~ Configured(dev)
  /\ before' = [before EXCEPT ![c] = Current]
  /\ mixed' = (mixed \/ \E d \in Client : pc[d] \in Flow)
  /\ UNCHANGED <<device, desk, plan, applied, wanted, outcome, promised, spoilers, original,
                 rewritten>>

\* The operations, in order: "general" comes before "uplink".
Begun == {{}, {"general"}, ProfileField}

Goal(f) == Europe

\* Mutant: an operation is noted after its acknowledgement.
ProfileWrites_NotedLate(c) ==
  /\ \E b \in Begun, fs \in SUBSET ProfileField :
       /\ fs \subseteq b
       /\ dev' = [f \in Field |-> IF f \in fs THEN Goal(f) ELSE dev[f]]
       /\ \/ b = ProfileField /\ Goes(c, "profile", "verify")
             /\ applied' = [applied EXCEPT ![c] = b] /\ UNCHANGED outcome
          \/ b = ProfileField /\ Goes(c, "profile", "rollback")
             /\ applied' = [applied EXCEPT ![c] = {"general"}] /\ UNCHANGED outcome
          \/ b # ProfileField /\ Goes(c, "profile", "idle")
             /\ applied' = [applied EXCEPT ![c] = {}] /\ Returns(c, "failed")
  /\ UNCHANGED <<node, desk, plan, before, wanted, calls, ghosts>>

\* The locked writes, as far as the operations in b; any of them may be kept
\* by the node, whether it is acknowledged or not.  An exception goes to the
\* except clause, out of the function if nothing was begun.
ProfileWrites(c) ==
  /\ \E b \in Begun, fs \in SUBSET ProfileField :
       /\ fs \subseteq b
       /\ dev' = [f \in Field |-> IF f \in fs THEN Goal(f) ELSE dev[f]]
       /\ applied' = [applied EXCEPT ![c] = b]
       /\ \/ b = ProfileField /\ Goes(c, "profile", "verify") /\ UNCHANGED outcome
          \/ b # {} /\ Goes(c, "profile", "rollback") /\ UNCHANGED outcome
          \/ b = {} /\ Goes(c, "profile", "idle") /\ Returns(c, "failed")
  /\ UNCHANGED <<node, desk, plan, before, wanted, calls, ghosts>>

\* Address, network and slot time as before.
Preserved(c) ==
  /\ node = before[c].node
  /\ \A f \in {"network", "slot"} : dev[f] = before[c].config[f]

ProfileApplied(c) ==
  /\ Goes(c, "verify", "idle")
  /\ Configured(dev) /\ Preserved(c)
  /\ Returns(c, "profile") /\ Promise(c)
  /\ UNCHANGED <<device, desk, locals, calls, original, mixed, rewritten>>

\* A mismatch, a changed field, a backup that raises.
ProfileDiffers(c) ==
  /\ Goes(c, "verify", "rollback")
  /\ UNCHANGED <<device, desk, locals, outcome, calls, ghosts>>

\* Mutant: the rollback writes the whole backup back, its slot time too.
Rollback_Backup(c) ==
  /\ Goes(c, "rollback", "idle")
  /\ \E fs \in SUBSET (applied[c] \cup {"slot"}) :
       /\ dev' = [f \in Field |-> IF f \in fs THEN before[c].config[f] ELSE dev[f]]
       /\ mixed' = (mixed \/ ~ applied[c] \subseteq fs \/ node # before[c].node)
  /\ promised' = (promised /\ c \notin spoilers)
  /\ Returns(c, "failed")
  /\ UNCHANGED <<node, desk, locals, calls, spoilers, original, rewritten>>

\* Under the lock again, on whatever is attached; a write that is lost,
\* refused or kept leaves its field and those after it.
Rollback(c) ==
  /\ Goes(c, "rollback", "idle")
  /\ \E fs \in SUBSET applied[c] :
       /\ dev' = [f \in Field |-> IF f \in fs THEN before[c].config[f] ELSE dev[f]]
       /\ mixed' = (mixed \/ fs # applied[c] \/ node # before[c].node)
  /\ promised' = (promised /\ c \notin spoilers)
  /\ Returns(c, "failed")
  /\ UNCHANGED <<node, desk, locals, calls, spoilers, original, rewritten>>

-----------------------------------------------------------------------------
(* change_gateway_credentials. *)

Credentials(c) ==
  /\ Calls(c, "credentials")
  /\ \E n \in Value : wanted' = [wanted EXCEPT ![c] = n]
  /\ UNCHANGED <<device, desk, plan, before, applied, outcome, ghosts>>

\* Join parameters and keys; there is no rollback.
CredentialWrites(c) ==
  /\ \/ dev' = [dev EXCEPT !["network"] = wanted[c]] \/ UNCHANGED dev
  /\ \/ Goes(c, "credentials", "check") /\ UNCHANGED outcome
     \/ Goes(c, "credentials", "idle") /\ Returns(c, "failed")
  /\ UNCHANGED <<node, desk, locals, calls, ghosts>>

Checked(c) ==
  /\ Goes(c, "check", "idle")
  /\ \/ dev["network"] = wanted[c] /\ Returns(c, "credentials")
     \/ Returns(c, "failed")
  /\ UNCHANGED <<device, desk, locals, calls, ghosts>>

-----------------------------------------------------------------------------
Request(c) ==
  \/ Preview(c) \/ Clear(c) \/ Store(c)
  \/ Take(c) \/ Expired(c) \/ Refused(c) \/ Restored(c) \/ NotRestored(c)
  \/ BackupRestored(c)
  \/ AlreadyConfigured(c) \/ Profile(c) \/ ProfileWrites(c) \/ ProfileApplied(c)
  \/ ProfileDiffers(c) \/ Rollback(c)
  \/ Credentials(c) \/ CredentialWrites(c) \/ Checked(c)

Next == Swap \/ \E c \in Client : Request(c)

Spec == Init /\ [][Next]_vars

-----------------------------------------------------------------------------
(* Properties. *)

\* The plans that may be applied are the latest: of two of them, neither was
\* returned before the preview of the other began.  A plan goes to one restore
\* at most, even when two requests name it at once.
LatestPlanOnce ==
  /\ \A p, q \in plans : p \notin older[q]
  /\ plans \cap used = {}
  /\ \A c, d \in Client :
       pc[c] = "apply" /\ pc[d] = "apply" /\ plan[c] = plan[d] => c = d

\* An apply that succeeds changes the node as its preview showed it: every
\* field has the value that was shown as the current one until the apply gives
\* it the one that was shown as the target, and a field shown with no change
\* keeps its value.  Profile requests, their rollbacks, credentials and an
\* exchange of the node between preview and apply make no difference; only a
\* field that another restore has written in between is exempt.
ChangesAsShown ==
  [][\A c \in Client :
       pc[c] = "apply" /\ pc'[c] = "idle" /\ outcome'[c] = "restored" =>
         \A f \in Field \ rewritten[plan[c]] :
           /\ dev[f] = shown[plan[c]].current[f]
           /\ dev'[f] = shown[plan[c]].target[f]]_vars

\* A profile that was reported as applied stays on its node, over restores
\* and credentials; only the rollback of a profile request that was under way
\* when it was reported takes it back.
ProfileStays == promised => Configured(dev)

\* The profile is on the node as a whole or not at all once no request writes
\* it, unless a rollback went wrong or two profile requests overlapped, one of
\* which may roll back what the other built on.
ProfileWhole ==
  ~ mixed /\ (\A c \in Client : pc[c] \notin {"verify", "rollback"})
    => Configured(dev) \/ Of(dev) = original
=============================================================================
