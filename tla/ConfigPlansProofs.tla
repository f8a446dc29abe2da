-------------------------- MODULE ConfigPlansProofs --------------------------
(***************************************************************************)
(* Proofs about ConfigPlans, for any number of request threads, of nodes,  *)
(* of values and of requests: the types, which plans can be applied, that  *)
(* what is applied is what was shown, and when a regional profile stays on *)
(* its node or is left in half.                                            *)
(***************************************************************************)
EXTENDS ConfigPlans, TLAPS

-----------------------------------------------------------------------------
(* Types. *)

\* A configuration some of whose fields take the values of another one.
LEMMA MergedConfig ==
  ASSUME NEW a \in Config, NEW b \in Config, NEW fs
  PROVE  [f \in Field |-> IF f \in fs THEN a[f] ELSE b[f]] \in Config
BY DEF Config

\* The restorable fields are neither the profile's nor the network.
LEMMA RestorableFields ==
  /\ Restorable \subseteq Field /\ ProfileField \subseteq Field /\ "network" \in Field
  /\ Restorable \cap ProfileField = {} /\ "network" \notin Restorable
BY PlansAssumption DEF Restorable, ProfileField, Field

\* A request that stores or applies a plan has one.
Holding == \A c \in Client : pc[c] \in {"clear", "store", "apply"} => plan[c] # 0

Types == TypeOK /\ Holding

LEMMA TypesInit == Init => Types
<1> SUFFICES ASSUME Init PROVE Types
  OBVIOUS
<1>1. Delivered \in Seq(Config) /\ 1 \in DOMAIN Delivered
  BY PlansAssumption
<1>2. Delivered[1] \in Config
  BY <1>1
<1>3. Of(Delivered[1]) \in [ProfileField -> Value] /\ Delivered[1]["network"] \in Value
  BY <1>2 DEF Of, Config, Field
<1>4. MaxPlans \in Nat /\ MaxCalls \in Nat
  BY PlansAssumption
<1>5. \A S : << >> \in [1 .. 0 -> S]
  OBVIOUS
<1>6. /\ shown \in [1 .. made -> Proposal] /\ older \in [1 .. made -> SUBSET (1 .. made)]
      /\ rewritten \in [1 .. made -> SUBSET Restorable]
  BY <1>5 DEF Init
<1>7. node \in Node /\ dev \in Config /\ before \in [Client -> Backup]
  BY <1>1, <1>2 DEF Init, Node, Backup
<1>8. made \in 0 .. MaxPlans /\ calls \in 0 .. MaxCalls /\ plan \in [Client -> 0 .. made]
  BY <1>4 DEF Init
<1>9. Holding
  BY DEF Init, Holding
<1>10. /\ pc \in [Client -> {"idle"}] /\ outcome \in [Client -> {"none"}]
       /\ applied \in [Client -> SUBSET ProfileField] /\ wanted \in [Client -> Value]
       /\ original \in [ProfileField -> Value]
  BY <1>3 DEF Init
<1> QED
  BY <1>6, <1>7, <1>8, <1>9, <1>10 DEF Init, TypeOK, Types

LEMMA TypesPreview ==
  ASSUME Types, NEW c \in Client, Preview(c)
  PROVE  Types'
<1>1. made' = made + 1 /\ made \in Nat /\ made' \in 0 .. MaxPlans
  BY PlansAssumption DEF Preview, TypeOK, Types
<1>2. calls' \in 0 .. MaxCalls
  BY PlansAssumption DEF Preview, Calls, TypeOK, Types
<1>3. shown' \in [1 .. made' -> Proposal]
  <2>1. PICK v \in [Restorable -> Value] :
          shown' = [p \in 1 .. made' |->
                      IF p \in DOMAIN shown THEN shown[p]
                      ELSE [node |-> node, current |-> dev,
                            target |-> [f \in Field |-> IF f \in Restorable THEN v[f] ELSE dev[f]]]]
    BY DEF Preview
  <2>2. [f \in Field |-> IF f \in Restorable THEN v[f] ELSE dev[f]] \in Config
    BY DEF TypeOK, Config, Types
  <2>3. [node |-> node, current |-> dev,
         target |-> [f \in Field |-> IF f \in Restorable THEN v[f] ELSE dev[f]]] \in Proposal
    BY <2>2 DEF Proposal, TypeOK, Types
  <2> QED
    BY <2>1, <2>3 DEF TypeOK, Types
<1>10. rewritten' \in [1 .. made' -> SUBSET Restorable]
  BY <1>1 DEF Preview, TypeOK, Types
<1>4. older' \in [1 .. made' -> SUBSET (1 .. made')]
  BY <1>1 DEF Preview, TypeOK, Types
<1>5. plan' \in [Client -> 0 .. made']
  BY <1>1 DEF Preview, TypeOK, Types
<1>6. plans' \subseteq 1 .. made' /\ used' \subseteq 1 .. made'
  BY <1>1 DEF Preview, TypeOK, Types
<1>7. pc' = [pc EXCEPT ![c] = "clear"] /\ plan' = [plan EXCEPT ![c] = made']
  BY DEF Preview, Calls, Goes
<1>8. UNCHANGED <<node, dev, before, applied, wanted, outcome, promised, spoilers,
                  original, mixed>>
  BY DEF Preview, device, flow
<1>9. Holding'
  BY <1>1, <1>7 DEF Holding, Types, TypeOK
<1> QED
  BY <1>1, <1>2, <1>3, <1>4, <1>5, <1>6, <1>7, <1>8, <1>9, <1>10 DEF TypeOK, Types

LEMMA TypesDesk ==
  ASSUME Types, NEW c \in Client,
         Clear(c) \/ Store(c) \/ Take(c) \/ Expired(c) \/ Refused(c)
  PROVE  Types'
<1>1. CASE Clear(c)
  BY <1>1 DEF Clear, Goes, device, locals, ghosts, flow, TypeOK, Types, Holding
<1>2. CASE Store(c)
  <2>1. plan[c] \in 1 .. made
    BY <1>2 DEF Store, Goes, TypeOK, Types, Holding
  <2> QED
    BY <1>2, <2>1 DEF Store, Goes, Returns, device, locals, ghosts, flow, TypeOK, Types, Holding
<1>3. CASE Take(c)
  BY <1>3, PlansAssumption
  DEF Take, Calls, Goes, device, ghosts, flow, TypeOK, Types, Holding
<1>4. CASE Expired(c)
  BY <1>4, PlansAssumption
  DEF Expired, Calls, Goes, Returns, device, locals, ghosts, flow, TypeOK, Types, Holding
<1>5. CASE Refused(c)
  BY <1>5 DEF Refused, Goes, Returns, device, desk, locals, ghosts, flow, TypeOK, Types, Holding
<1> QED
  BY <1>1, <1>2, <1>3, <1>4, <1>5

\* A restore writes restorable fields with values of a configuration.
LEMMA WritesConfig ==
  ASSUME Types, NEW target \in Config, NEW fs, NEW tried \in SUBSET Restorable,
         Writes(fs, tried, target)
  PROVE  dev' \in Config /\ rewritten' \in [1 .. made -> SUBSET Restorable]
<1>1. dev \in Config /\ rewritten \in [1 .. made -> SUBSET Restorable]
  BY DEF Types, TypeOK
<1> QED
  BY <1>1, MergedConfig DEF Writes

\* What any restore does: some of the fields in which the node differs from a
\* target, restorable ones, take its values.
LEMMA RestoreWrites ==
  ASSUME Types, NEW c \in Client, Restored(c) \/ NotRestored(c) \/ BackupRestored(c)
  PROVE  \E target \in Config, tried \in SUBSET Restorable :
           \E fs \in SUBSET tried : Writes(fs, tried, target)
<1>1. CASE Restored(c) \/ NotRestored(c)
  <2>1. shown[plan[c]].target \in Config
    BY <1>1 DEF Restored, NotRestored, Goes, Types, TypeOK, Holding, Proposal
  <2>2. Differing(dev, shown[plan[c]].target) \in SUBSET Restorable
    BY <1>1 DEF Restored, NotRestored, CanApply
  <2>3. \E fs \in SUBSET Differing(dev, shown[plan[c]].target) :
          Writes(fs, Differing(dev, shown[plan[c]].target), shown[plan[c]].target)
    BY <1>1 DEF Restored, NotRestored
  <2> QED
    BY <2>1, <2>2, <2>3
<1>2. CASE BackupRestored(c)
  BY <1>2 DEF BackupRestored
<1> QED
  BY <1>1, <1>2

LEMMA TypesRestore ==
  ASSUME Types, NEW c \in Client, Restored(c) \/ NotRestored(c) \/ BackupRestored(c)
  PROVE  Types'
<1>1. dev' \in Config /\ rewritten' \in [1 .. made -> SUBSET Restorable]
  BY RestoreWrites, WritesConfig
<1>2. UNCHANGED <<node, plans, shown, made, older, used, plan, before, applied, wanted,
                  promised, spoilers, original, mixed>>
  BY DEF Restored, NotRestored, BackupRestored, desk, locals, flow
<1>3. pc' = [pc EXCEPT ![c] = "idle"] /\ calls' \in 0 .. MaxCalls
  BY PlansAssumption
  DEF Restored, NotRestored, BackupRestored, Calls, Goes, Types, TypeOK
<1>4. outcome' = [outcome EXCEPT ![c] = "restored"] \/ outcome' = [outcome EXCEPT ![c] = "failed"]
  BY DEF Restored, NotRestored, BackupRestored, Returns
<1> QED
  BY <1>1, <1>2, <1>3, <1>4 DEF TypeOK, Types, Holding

LEMMA TypesProfile ==
  ASSUME Types, NEW c \in Client,
         AlreadyConfigured(c) \/ Profile(c) \/ ProfileWrites(c) \/ ProfileApplied(c)
           \/ ProfileDiffers(c) \/ Rollback(c)
  PROVE  Types'
<1>1. CASE AlreadyConfigured(c)
  BY <1>1, PlansAssumption
  DEF AlreadyConfigured, Calls, Goes, Returns, Promise, device, desk, locals, TypeOK,
      Types, Holding
<1>2. CASE Profile(c)
  <2>1. before' \in [Client -> Backup]
    BY <1>2 DEF Profile, Current, Backup, TypeOK, Types
  <2>2. calls' \in 0 .. MaxCalls /\ mixed' \in BOOLEAN
    BY <1>2, PlansAssumption DEF Profile, Calls, TypeOK, Types
  <2> QED
    BY <1>2, <2>1, <2>2 DEF Profile, Calls, Goes, device, desk, TypeOK, Types, Holding
<1>3. CASE ProfileWrites(c)
  <2>1. PICK b \in Begun, fs \in SUBSET ProfileField :
          /\ fs \subseteq b
          /\ dev' = [f \in Field |-> IF f \in fs THEN Goal(f) ELSE dev[f]]
          /\ applied' = [applied EXCEPT ![c] = b]
          /\ \/ b = ProfileField /\ Goes(c, "profile", "verify") /\ UNCHANGED outcome
             \/ b # {} /\ Goes(c, "profile", "rollback") /\ UNCHANGED outcome
             \/ b = {} /\ Goes(c, "profile", "idle") /\ Returns(c, "failed")
    BY <1>3 DEF ProfileWrites
  <2>2. dev' \in Config
    BY <2>1, PlansAssumption DEF Goal, TypeOK, Types, Config
  <2>3. applied' \in [Client -> SUBSET ProfileField]
    BY <2>1 DEF Begun, ProfileField, TypeOK, Types
  <2>4. /\ \E s \in {"verify", "rollback", "idle"} : pc' = [pc EXCEPT ![c] = s]
        /\ outcome' = outcome \/ outcome' = [outcome EXCEPT ![c] = "failed"]
    BY <2>1 DEF Goes, Returns
  <2> QED
    BY <1>3, <2>2, <2>3, <2>4 DEF ProfileWrites, desk, ghosts, flow, TypeOK, Types, Holding
<1>4. CASE ProfileApplied(c)
  BY <1>4
  DEF ProfileApplied, Goes, Returns, Promise, device, desk, locals, TypeOK, Types, Holding
<1>5. CASE ProfileDiffers(c)
  BY <1>5 DEF ProfileDiffers, Goes, device, desk, locals, ghosts, flow, TypeOK, Types, Holding
<1>6. CASE Rollback(c)
  <2>1. before[c].config \in Config /\ dev \in Config
    BY DEF Types, TypeOK, Backup
  <2>2. dev' \in Config
    <3>1. PICK fs \in SUBSET applied[c] :
            dev' = [f \in Field |-> IF f \in fs THEN before[c].config[f] ELSE dev[f]]
      BY <1>6 DEF Rollback
    <3> QED
      BY <2>1, <3>1, MergedConfig
  <2>3. mixed' \in BOOLEAN /\ promised' \in BOOLEAN
    BY <1>6 DEF Rollback, Types, TypeOK
  <2> QED
    BY <1>6, <2>2, <2>3
    DEF Rollback, Goes, Returns, desk, locals, TypeOK, Types, Holding
<1> QED
  BY <1>1, <1>2, <1>3, <1>4, <1>5, <1>6

LEMMA TypesCredentials ==
  ASSUME Types, NEW c \in Client, Credentials(c) \/ CredentialWrites(c) \/ Checked(c)
  PROVE  Types'
<1>1. CASE Credentials(c)
  BY <1>1, PlansAssumption
  DEF Credentials, Calls, Goes, device, desk, ghosts, flow, TypeOK, Types, Holding
<1>2. CASE CredentialWrites(c)
  <2>1. dev' \in Config
    BY <1>2 DEF CredentialWrites, TypeOK, Types, Config
  <2> QED
    BY <1>2, <2>1
    DEF CredentialWrites, Goes, Returns, desk, locals, ghosts, flow, TypeOK, Types, Holding
<1>3. CASE Checked(c)
  BY <1>3 DEF Checked, Goes, Returns, device, desk, locals, ghosts, flow, TypeOK, Types, Holding
<1> QED
  BY <1>1, <1>2, <1>3

LEMMA TypesSwap ==
  ASSUME Types, Swap
  PROVE  Types'
<1>1. node' \in Node /\ dev' \in Config
  BY PlansAssumption DEF Swap, Node
<1>2. original' \in [ProfileField -> Value]
  BY <1>1 DEF Swap, Of, Config, Field
<1> QED
  BY <1>1, <1>2 DEF Swap, desk, locals, TypeOK, Types, Holding

LEMMA TypesStep == Types /\ [Next]_vars => Types'
<1> SUFFICES ASSUME Types, [Next]_vars PROVE Types'
  OBVIOUS
<1>1. CASE Swap
  BY <1>1, TypesSwap
<1>2. CASE \E c \in Client : Request(c)
  <2>1. PICK c \in Client : Request(c)
    BY <1>2
  <2> QED
    BY <2>1, TypesPreview, TypesDesk, TypesRestore, TypesProfile, TypesCredentials
    DEF Request
<1>3. CASE UNCHANGED vars
  BY <1>3 DEF vars, TypeOK, Types, Holding
<1> QED
  BY <1>1, <1>2, <1>3 DEF Next

LEMMA AlwaysTypes == Spec => []Types
<1> QED
  BY TypesInit, TypesStep, PTL DEF Spec

\* Plans, backups, outcomes and configurations keep to their types: every
\* plan a thread holds or the dictionary lists is one that was made.
THEOREM PlansTypeCorrect == Spec => []TypeOK
<1>1. Types => TypeOK
  BY DEF Types
<1> QED
  BY <1>1, AlwaysTypes, PTL
-----------------------------------------------------------------------------
(* What is applied is what was shown. *)

\* A plan keeps the other fields of its node, and as long as that node is
\* attached, the fields no restore has written since are as the preview showed
\* them: no other request writes a restorable field, not even to roll back.
Fresh ==
  \A p \in 1 .. made :
    /\ shown[p].node <= node
    /\ \A f \in Field \ Restorable : shown[p].target[f] = shown[p].current[f]
    /\ shown[p].node = node =>
         \A f \in Restorable \ rewritten[p] : dev[f] = shown[p].current[f]

\* Steps that write no restorable field, and those that write what they note.
LEMMA FreshKept ==
  ASSUME Types, Fresh, UNCHANGED <<node, shown, made>>,
         \A p \in 1 .. made : rewritten[p] \subseteq rewritten'[p],
         \A p \in 1 .. made : \A f \in Restorable \ rewritten'[p] : dev'[f] = dev[f]
  PROVE  Fresh'
BY DEF Fresh

LEMMA FreshRestore ==
  ASSUME Types, Fresh, NEW c \in Client,
         Restored(c) \/ NotRestored(c) \/ BackupRestored(c)
  PROVE  Fresh'
<1>1. PICK target \in Config, tried \in SUBSET Restorable :
        \E fs \in SUBSET tried : Writes(fs, tried, target)
  BY RestoreWrites
<1>2. UNCHANGED <<node, shown, made>>
  BY DEF Restored, NotRestored, BackupRestored, desk
<1>3. /\ \A p \in 1 .. made : rewritten'[p] = rewritten[p] \cup tried
      /\ \A f \in Field \ tried : dev'[f] = dev[f]
  BY <1>1 DEF Writes
<1> QED
  BY <1>2, <1>3, FreshKept, RestorableFields

LEMMA FreshPreview ==
  ASSUME Types, Fresh, NEW c \in Client, Preview(c)
  PROVE  Fresh'
<1>1. made' = made + 1 /\ made \in Nat /\ UNCHANGED <<node, dev>> /\ node \in Nat
  BY PlansAssumption DEF Preview, device, Node, Types, TypeOK
<1>2. PICK v \in [Restorable -> Value] :
        shown' = [p \in 1 .. made' |->
                    IF p \in DOMAIN shown THEN shown[p]
                    ELSE [node |-> node, current |-> dev,
                          target |-> [f \in Field |-> IF f \in Restorable THEN v[f] ELSE dev[f]]]]
  BY DEF Preview
<1>3. /\ \A p \in 1 .. made : shown'[p] = shown[p] /\ rewritten'[p] = rewritten[p]
      /\ shown'[made'] = [node |-> node, current |-> dev,
            target |-> [f \in Field |-> IF f \in Restorable THEN v[f] ELSE dev[f]]]
  <2>1. DOMAIN shown = 1 .. made /\ DOMAIN rewritten = 1 .. made
    BY DEF Types, TypeOK
  <2>2. \A p \in 1 .. made : p \in 1 .. made'
    BY <1>1
  <2>3. \A p \in 1 .. made : shown'[p] = shown[p]
    BY <1>2, <2>1, <2>2
  <2>4. \A p \in 1 .. made : rewritten'[p] = rewritten[p]
    BY <2>1, <2>2 DEF Preview
  <2>5. made' \in 1 .. made' /\ made' \notin 1 .. made
    BY <1>1
  <2>6. shown'[made'] = [node |-> node, current |-> dev,
            target |-> [f \in Field |-> IF f \in Restorable THEN v[f] ELSE dev[f]]]
    BY <1>2, <2>1, <2>5
  <2> QED
    BY <2>3, <2>4, <2>6
<1>4. \A f \in Field \ Restorable : shown'[made'].target[f] = shown'[made'].current[f]
  BY <1>3
<1>5. 1 .. made' = 1 .. made \cup {made'}
  BY <1>1
<1> QED
  BY <1>1, <1>3, <1>4, <1>5 DEF Fresh

LEMMA FreshSwap ==
  ASSUME Types, Fresh, Swap
  PROVE  Fresh'
<1>1. node' = node + 1 /\ node \in Nat /\ UNCHANGED <<shown, made>>
  BY PlansAssumption DEF Swap, desk, Node, Types, TypeOK
<1>2. \A p \in 1 .. made : shown[p].node \in Nat
  BY PlansAssumption DEF Types, TypeOK, Proposal, Node
<1> QED
  BY <1>1, <1>2 DEF Fresh

LEMMA FreshStep == Types /\ Fresh /\ [Next]_vars => Fresh'
<1> SUFFICES ASSUME Types, Fresh, [Next]_vars PROVE Fresh'
  OBVIOUS
<1>1. CASE Swap
  BY <1>1, FreshSwap
<1>2. ASSUME NEW c \in Client, Request(c)
      PROVE  Fresh'
  <2>1. CASE Preview(c)
    BY <2>1, FreshPreview
  <2>2. CASE Restored(c) \/ NotRestored(c) \/ BackupRestored(c)
    BY <2>2, FreshRestore
  <2>3. CASE \/ Clear(c) \/ Store(c) \/ Take(c) \/ Expired(c) \/ Refused(c)
            \/ AlreadyConfigured(c) \/ Profile(c) \/ ProfileApplied(c)
            \/ ProfileDiffers(c) \/ Credentials(c) \/ Checked(c)
    <3>1. UNCHANGED <<node, dev, shown, made, rewritten>>
      BY <2>3
      DEF Clear, Store, Take, Expired, Refused, AlreadyConfigured, Profile, ProfileApplied,
          ProfileDiffers, Credentials, Checked, device, desk, ghosts
    <3> QED
      BY <3>1, FreshKept
  <2>4. CASE ProfileWrites(c)
    <3>1. UNCHANGED <<node, shown, made, rewritten>>
      BY <2>4 DEF ProfileWrites, desk, ghosts
    <3>2. \A f \in Field \ ProfileField : dev'[f] = dev[f]
      BY <2>4 DEF ProfileWrites
    <3> QED
      BY <3>1, <3>2, FreshKept, RestorableFields
  <2>5. CASE Rollback(c)
    <3>1. UNCHANGED <<node, shown, made, rewritten>>
      BY <2>5 DEF Rollback, desk
    <3>2. \A f \in Field \ ProfileField : dev'[f] = dev[f]
      BY <2>5 DEF Rollback, Types, TypeOK
    <3> QED
      BY <3>1, <3>2, FreshKept, RestorableFields
  <2>6. CASE CredentialWrites(c)
    <3>1. UNCHANGED <<node, shown, made, rewritten>>
      BY <2>6 DEF CredentialWrites, desk, ghosts
    <3>2. \A f \in Field \ {"network"} : dev'[f] = dev[f]
      BY <2>6 DEF CredentialWrites, Types, TypeOK, Config
    <3> QED
      BY <3>1, <3>2, FreshKept, RestorableFields
  <2> QED
    BY <1>2, <2>1, <2>2, <2>3, <2>4, <2>5, <2>6 DEF Request
<1>3. CASE UNCHANGED vars
  BY <1>3, FreshKept DEF vars
<1> QED
  BY <1>1, <1>2, <1>3 DEF Next

LEMMA AppliedStep ==
  ASSUME Types, Fresh, [Next]_vars, NEW c \in Client,
         pc[c] = "apply", pc'[c] = "idle", outcome'[c] = "restored"
  PROVE  \A f \in Field \ rewritten[plan[c]] :
           /\ dev[f] = shown[plan[c]].current[f]
           /\ dev'[f] = shown[plan[c]].target[f]
<1>1. Restored(c)
  <2>1. ~ UNCHANGED vars /\ ~ Swap
    BY DEF vars, Swap
  <2>2. PICK d \in Client : Request(d)
    BY <2>1 DEF Next
  <2>3. \A e \in Client \ {d} : pc'[e] = pc[e]
    <3>1. CASE Preview(d) \/ Clear(d) \/ Store(d) \/ Take(d) \/ Expired(d) \/ Refused(d)
      BY <3>1
      DEF Preview, Clear, Store, Take, Expired, Refused, Calls, Goes, Types, TypeOK
    <3>2. CASE Restored(d) \/ NotRestored(d) \/ BackupRestored(d) \/ AlreadyConfigured(d) \/ Profile(d)
      BY <3>2
      DEF Restored, NotRestored, BackupRestored, AlreadyConfigured, Profile, Calls, Goes, Types, TypeOK
    <3>3. CASE ProfileWrites(d)
      BY <3>3 DEF ProfileWrites, Goes, Types, TypeOK
    <3>4. CASE ProfileApplied(d) \/ ProfileDiffers(d) \/ Rollback(d)
      BY <3>4 DEF ProfileApplied, ProfileDiffers, Rollback, Goes, Types, TypeOK
    <3>5. CASE Credentials(d) \/ CredentialWrites(d) \/ Checked(d)
      BY <3>5 DEF Credentials, CredentialWrites, Checked, Calls, Goes, Types, TypeOK
    <3> QED
      BY <2>2, <3>1, <3>2, <3>3, <3>4, <3>5 DEF Request
  <2>4. d = c
    BY <2>3
  <2>5. Refused(c) \/ Restored(c) \/ NotRestored(c)
    BY <2>2, <2>4
    DEF Request, Preview, Clear, Store, Take, Expired, BackupRestored,
        AlreadyConfigured, Profile, ProfileWrites, ProfileApplied, ProfileDiffers,
        Rollback, Credentials, CredentialWrites, Checked, Calls, Goes
  <2> QED
    BY <2>5 DEF Refused, NotRestored, Returns, Types, TypeOK
<1>2. plan[c] \in 1 .. made
  BY DEF Types, TypeOK, Holding
<1>3. /\ shown[plan[c]].node = node
      /\ Differing(dev, shown[plan[c]].target) \subseteq Restorable
      /\ \A f \in Field : dev'[f] = IF f \in Differing(dev, shown[plan[c]].target)
                                    THEN shown[plan[c]].target[f] ELSE dev[f]
  BY <1>1 DEF Restored, CanApply, Writes
<1>4. \A f \in Field : dev'[f] = shown[plan[c]].target[f]
  BY <1>3 DEF Differing
<1>5. \A f \in Field \ Restorable : dev[f] = shown[plan[c]].current[f]
  BY <1>2, <1>3 DEF Differing, Fresh
<1>6. \A f \in Restorable \ rewritten[plan[c]] : dev[f] = shown[plan[c]].current[f]
  BY <1>2, <1>3 DEF Fresh
<1> QED
  BY <1>4, <1>5, <1>6

\* Whatever profile requests, rollbacks, credentials and exchanges of the node
\* come between a preview and its apply, an apply that succeeds changes every
\* field from the value the preview showed to the one it showed as the target;
\* but for the fields another restore has written in between.
THEOREM AppliesWhatWasShown == Spec => ChangesAsShown
<1>1. Init => Fresh
  BY DEF Init, Fresh
<1>2. Types /\ Fresh /\ [Next]_vars =>
        [\A c \in Client :
           pc[c] = "apply" /\ pc'[c] = "idle" /\ outcome'[c] = "restored" =>
             \A f \in Field \ rewritten[plan[c]] :
               /\ dev[f] = shown[plan[c]].current[f]
               /\ dev'[f] = shown[plan[c]].target[f]]_vars
  BY AppliedStep
<1> QED
  BY <1>1, <1>2, FreshStep, AlwaysTypes, PTL DEF Spec, ChangesAsShown

-----------------------------------------------------------------------------
(* The latest plan, once. *)

\* A plan belongs to one thread until it is in the dictionary and again when
\* it is out of it; while it is stored, no plan is older than another one.
Desk ==
  /\ \A q \in 1 .. made : \A p \in older[q] : p < q
  /\ \A p, q \in plans : p \notin older[q]
  /\ plans \cap used = {}
  /\ \A c \in Client : pc[c] \in {"clear", "store"} =>
       /\ plan[c] \notin plans \cup used
       /\ \A q \in 1 .. made : plan[c] \notin older[q]
  /\ \A c \in Client : pc[c] = "store" => \A p \in plans : p \notin older[plan[c]]
  /\ \A c \in Client : pc[c] = "apply" => plan[c] \in used
  /\ \A c, d \in Client :
       /\ pc[c] \in {"clear", "store", "apply"} /\ pc[d] \in {"clear", "store", "apply"}
       /\ plan[c] = plan[d]
       => c = d

LEMMA DeskInit == Init => Desk
BY DEF Init, Desk

\* The steps of the other requests leave the desk as it is.
LEMMA DeskUntouched ==
  ASSUME Types, Desk, UNCHANGED <<desk, plan>>,
         \A c \in Client : pc'[c] \in {"clear", "store", "apply"} => pc'[c] = pc[c]
  PROVE  Desk'
BY DEF Desk, desk, Types, TypeOK

LEMMA DeskPreview ==
  ASSUME Types, Desk, NEW c \in Client, Preview(c)
  PROVE  Desk'
<1>1. made' = made + 1 /\ made \in Nat
  BY DEF Preview, Types, TypeOK
<1>2. /\ pc' = [pc EXCEPT ![c] = "clear"] /\ plan' = [plan EXCEPT ![c] = made + 1]
      /\ pc[c] = "idle" /\ plans' = plans /\ used' = used
  BY <1>1 DEF Preview, Calls, Goes
<1>3. \A q \in 1 .. made : older'[q] = older[q]
  BY <1>1 DEF Preview, Types, TypeOK
<1>4. older'[made + 1] =
        1 .. made \ {plan[d] : d \in {d \in Client : pc[d] \in {"clear", "store"}}}
  BY <1>1 DEF Preview, Types, TypeOK
<1>5. plans \subseteq 1 .. made /\ used \subseteq 1 .. made /\ plan \in [Client -> 0 .. made]
  BY DEF Types, TypeOK
<1>6. \A q \in 1 .. made' : \A p \in older'[q] : p < q
  BY <1>1, <1>3, <1>4 DEF Desk
<1>7. \A p, q \in plans' : p \notin older'[q]
  BY <1>2, <1>3, <1>5 DEF Desk
<1>8. ASSUME NEW d \in Client, pc'[d] \in {"clear", "store"}
      PROVE  /\ plan'[d] \notin plans' \cup used'
             /\ \A q \in 1 .. made' : plan'[d] \notin older'[q]
  <2>1. CASE d = c
    <3>1. plan'[d] = made + 1
      BY <1>2, <1>5, <2>1
    <3>2. plan'[d] \notin plans' \cup used'
      BY <1>1, <1>2, <1>5, <3>1
    <3>3. \A q \in 1 .. made' : plan'[d] \notin older'[q]
      BY <1>1, <1>6, <3>1
    <3> QED
      BY <3>2, <3>3
  <2>2. CASE d # c
    <3>1. plan'[d] = plan[d] /\ pc[d] \in {"clear", "store"}
      BY <1>2, <1>5, <1>8, <2>2 DEF Types, TypeOK
    <3>2. plan[d] \notin older'[made + 1]
      BY <1>4, <3>1
    <3> QED
      BY <1>1, <1>2, <1>3, <3>1, <3>2 DEF Desk
  <2> QED
    BY <2>1, <2>2
<1>9. ASSUME NEW d \in Client, pc'[d] = "store"
      PROVE  \A p \in plans' : p \notin older'[plan'[d]]
  <2>1. d # c /\ pc[d] = "store" /\ plan'[d] = plan[d]
    BY <1>2, <1>5, <1>9 DEF Types, TypeOK
  <2>2. plan[d] \in 1 .. made
    BY <1>1, <1>5, <2>1 DEF Types, Holding
  <2> QED
    BY <1>2, <1>3, <2>1, <2>2 DEF Desk
<1>10. \A d \in Client : pc'[d] = "apply" => plan'[d] \in used'
  BY <1>2, <1>5 DEF Desk, Types, TypeOK
<1>11. \A d, e \in Client :
         /\ pc'[d] \in {"clear", "store", "apply"} /\ pc'[e] \in {"clear", "store", "apply"}
         /\ plan'[d] = plan'[e]
         => d = e
  BY <1>1, <1>2, <1>5 DEF Desk, Types, TypeOK
<1> QED
  BY <1>2, <1>6, <1>7, <1>8, <1>9, <1>10, <1>11 DEF Desk

LEMMA DeskSteps ==
  ASSUME Types, Desk, NEW c \in Client, Clear(c) \/ Store(c) \/ Take(c) \/ Expired(c)
  PROVE  Desk'
<1>1. CASE Clear(c)
  BY <1>1 DEF Clear, Goes, locals, Desk, Types, TypeOK
<1>2. CASE Store(c)
  <2>1. /\ plans' = plans \cup {plan[c]} /\ pc[c] = "store" /\ pc' = [pc EXCEPT ![c] = "idle"]
        /\ UNCHANGED <<plan, made, older, used>>
    BY <1>2 DEF Store, Goes, locals
  <2>2. plan[c] \in 1 .. made /\ plans \subseteq 1 .. made
    BY <2>1 DEF Types, TypeOK, Holding
  <2>3. \A d \in Client \ {c} : pc'[d] = pc[d]
    BY <2>1 DEF Types, TypeOK
  <2>4. pc'[c] = "idle"
    BY <2>1 DEF Types, TypeOK
  <2>5. /\ plan[c] \notin plans \cup used
        /\ \A q \in 1 .. made : plan[c] \notin older[q]
        /\ \A p \in plans : p \notin older[plan[c]]
    BY <2>1 DEF Desk
  <2>6. \A p, q \in plans' : p \notin older[q]
    BY <2>1, <2>2, <2>5 DEF Desk
  <2>7. plans' \cap used = {}
    BY <2>1, <2>5 DEF Desk
  <2>8. ASSUME NEW d \in Client, pc'[d] \in {"clear", "store"}
        PROVE  plan[d] \notin plans' \cup used /\ \A q \in 1 .. made : plan[d] \notin older[q]
    BY <2>1, <2>3, <2>4, <2>8 DEF Desk
  <2>9. ASSUME NEW d \in Client, pc'[d] = "store"
        PROVE  \A p \in plans' : p \notin older[plan[d]]
    <3>1. d # c /\ pc[d] = "store"
      BY <2>3, <2>4, <2>9
    <3>2. plan[d] \in 1 .. made
      BY <3>1 DEF Types, TypeOK, Holding
    <3> QED
      BY <2>1, <2>5, <3>1, <3>2 DEF Desk
  <2> QED
    BY <2>1, <2>3, <2>4, <2>6, <2>7, <2>8, <2>9 DEF Desk
<1>3. CASE Take(c)
  BY <1>3 DEF Take, Calls, Goes, Desk, Types, TypeOK
<1>4. CASE Expired(c)
  BY <1>4 DEF Expired, Calls, Goes, locals, Desk, Types, TypeOK
<1> QED
  BY <1>1, <1>2, <1>3, <1>4

LEMMA DeskStep == Types /\ Desk /\ [Next]_vars => Desk'
<1> SUFFICES ASSUME Types, Desk, [Next]_vars PROVE Desk'
  OBVIOUS
<1>1. CASE Swap
  BY <1>1, DeskUntouched DEF Swap, locals
<1>2. ASSUME NEW c \in Client, Request(c)
      PROVE  Desk'
  <2>1. CASE Preview(c)
    BY <2>1, DeskPreview
  <2>2. CASE Clear(c) \/ Store(c) \/ Take(c) \/ Expired(c)
    BY <2>2, DeskSteps
  <2>3. CASE Refused(c) \/ Restored(c) \/ NotRestored(c) \/ BackupRestored(c)
    BY <2>3, DeskUntouched
    DEF Refused, Restored, NotRestored, BackupRestored, Calls, Goes, locals, Types, TypeOK
  <2>4. CASE AlreadyConfigured(c) \/ Profile(c) \/ ProfileWrites(c)
    BY <2>4, DeskUntouched
    DEF AlreadyConfigured, Profile, ProfileWrites, Calls, Goes, locals, Types, TypeOK
  <2>5. CASE ProfileApplied(c) \/ ProfileDiffers(c) \/ Rollback(c)
    BY <2>5, DeskUntouched
    DEF ProfileApplied, ProfileDiffers, Rollback, Goes, locals, Types, TypeOK
  <2>6. CASE Credentials(c) \/ CredentialWrites(c) \/ Checked(c)
    BY <2>6, DeskUntouched
    DEF Credentials, CredentialWrites, Checked, Calls, Goes, locals, Types, TypeOK
  <2> QED
    BY <1>2, <2>1, <2>2, <2>3, <2>4, <2>5, <2>6 DEF Request
<1>3. CASE UNCHANGED vars
  BY <1>3, DeskUntouched DEF vars, desk
<1> QED
  BY <1>1, <1>2, <1>3 DEF Next

\* Only the latest previews can be applied, and each of them once, however
\* the requests interleave without a lock.
THEOREM LatestAndOnce == Spec => []LatestPlanOnce
<1>1. Desk => LatestPlanOnce
  BY DEF Desk, LatestPlanOnce
<1> QED
  BY <1>1, AlwaysTypes, DeskInit, DeskStep, PTL DEF Spec

-----------------------------------------------------------------------------
(* The profile stays. *)

\* While the profile is promised, every request that may still write it or
\* take it back was under way when it was.
Stays ==
  promised =>
    /\ Configured(dev)
    /\ \A c \in Client : pc[c] \in Flow => c \in spoilers

\* Steps that leave the profile's fields, its requests and its promise alone.
LEMMA StaysUntouched ==
  ASSUME Stays, UNCHANGED <<promised, spoilers>>,
         \A f \in ProfileField : dev'[f] = dev[f],
         \A c \in Client : pc'[c] \in Flow => pc[c] \in Flow
  PROVE  Stays'
BY DEF Stays, Configured

\* What a restore or the credentials write is no field of the profile.
LEMMA OtherFields ==
  ASSUME NEW c \in Client, Types,
         Restored(c) \/ NotRestored(c) \/ BackupRestored(c) \/ CredentialWrites(c)
  PROVE  \A f \in ProfileField : dev'[f] = dev[f]
<1>1. CASE CredentialWrites(c)
  BY <1>1 DEF CredentialWrites, ProfileField, Field, Config, Types, TypeOK
<1>2. CASE Restored(c) \/ NotRestored(c) \/ BackupRestored(c)
  BY <1>2, RestoreWrites, RestorableFields DEF Writes
<1> QED
  BY <1>1, <1>2

LEMMA StaysStep == Types /\ Stays /\ [Next]_vars => Stays'
<1> SUFFICES ASSUME Types, Stays, [Next]_vars PROVE Stays'
  OBVIOUS
<1>1. CASE Swap
  BY <1>1 DEF Swap, Stays
<1>2. ASSUME NEW c \in Client, Request(c)
      PROVE  Stays'
  <2>1. CASE Preview(c) \/ Clear(c) \/ Store(c) \/ Take(c) \/ Expired(c) \/ Refused(c)
    BY <2>1, StaysUntouched
    DEF Preview, Clear, Store, Take, Expired, Refused, Calls, Goes, device, ghosts, flow, Flow,
        Types, TypeOK
  <2>2. CASE Restored(c) \/ NotRestored(c) \/ BackupRestored(c)
    BY <2>2, StaysUntouched, OtherFields
    DEF Restored, NotRestored, BackupRestored, Calls, Goes, ghosts, flow, Flow, Types, TypeOK
  <2>3. CASE AlreadyConfigured(c)
    BY <2>3
    DEF AlreadyConfigured, Calls, Goes, Promise, device, Stays, Flow, Configured, Types, TypeOK
  <2>4. CASE Profile(c)
    BY <2>4 DEF Profile, Calls, device, Stays
  <2>5. CASE ProfileWrites(c)
    <3>1. pc[c] = "profile" /\ UNCHANGED <<promised, spoilers>>
      BY <2>5 DEF ProfileWrites, Goes, ghosts, flow
    <3>2. Configured(dev) => Configured(dev')
      BY <2>5 DEF ProfileWrites, Configured, Goal, ProfileField, Field
    <3>3. \A d \in Client \ {c} : pc'[d] = pc[d]
      BY <2>5 DEF ProfileWrites, Goes, Types, TypeOK
    <3> QED
      BY <3>1, <3>2, <3>3 DEF Stays, Flow
  <2>6. CASE ProfileApplied(c)
    BY <2>6
    DEF ProfileApplied, Goes, Promise, device, Stays, Flow, Configured, Types, TypeOK
  <2>7. CASE ProfileDiffers(c)
    BY <2>7, StaysUntouched DEF ProfileDiffers, Goes, device, ghosts, flow, Flow, Types, TypeOK
  <2>8. CASE Rollback(c)
    BY <2>8 DEF Rollback, Goes, Stays, Flow
  <2>9. CASE Credentials(c) \/ Checked(c)
    BY <2>9, StaysUntouched
    DEF Credentials, Checked, Calls, Goes, device, ghosts, flow, Flow, Types, TypeOK
  <2>10. CASE CredentialWrites(c)
    BY <2>10, StaysUntouched, OtherFields
    DEF CredentialWrites, Goes, ghosts, flow, Flow, Types, TypeOK
  <2> QED
    BY <1>2, <2>1, <2>2, <2>3, <2>4, <2>5, <2>6, <2>7, <2>8, <2>9, <2>10 DEF Request
<1>3. CASE UNCHANGED vars
  BY <1>3, StaysUntouched DEF vars
<1> QED
  BY <1>1, <1>2, <1>3 DEF Next

\* A reported profile is on its node until the node is changed or a profile
\* request that was already under way rolls back.
THEOREM ReportedProfileStays == Spec => []ProfileStays
<1>1. Init => Stays
  BY DEF Init, Stays
<1>2. Stays => ProfileStays
  BY DEF Stays, ProfileStays
<1> QED
  BY <1>1, <1>2, AlwaysTypes, StaysStep, PTL DEF Spec

-----------------------------------------------------------------------------
(* The profile is whole. *)

\* While no two profile requests overlap and no rollback went wrong, the one
\* under way has seen the original fields and has changed only those it has
\* noted.
Whole ==
  ~ mixed =>
    /\ \A c, d \in Client : pc[c] \in Flow /\ pc[d] \in Flow => c = d
    /\ \A c \in Client : pc[c] \in Flow =>
         /\ before[c].node = node
         /\ \A f \in ProfileField : before[c].config[f] = original[f]
    /\ \A c \in Client : pc[c] = "profile" => \A f \in ProfileField : dev[f] = original[f]
    /\ \A c \in Client : pc[c] \in {"verify", "rollback"} =>
         \A f \in ProfileField \ applied[c] : dev[f] = original[f]
    /\ (\A c \in Client : pc[c] \notin {"verify", "rollback"}) =>
         Configured(dev) \/ \A f \in ProfileField : dev[f] = original[f]

LEMMA WholeInit == Init => Whole
BY DEF Init, Whole, Of, Flow

\* Steps that leave the profile's fields and its requests alone.
LEMMA WholeUntouched ==
  ASSUME Whole, UNCHANGED <<node, original, mixed>>,
         \A f \in ProfileField : dev'[f] = dev[f],
         \A c \in Client : (pc[c] \in Flow \/ pc'[c] \in Flow) =>
           pc'[c] = pc[c] /\ before'[c] = before[c] /\ applied'[c] = applied[c]
  PROVE  Whole'
<1> SUFFICES ASSUME ~ mixed
             PROVE  Whole'
  BY DEF Whole
<1>1. \A c \in Client : pc'[c] \in Flow <=> pc[c] \in Flow
  OBVIOUS
<1>2. \A c \in Client : pc'[c] \in {"verify", "rollback"} <=> pc[c] \in {"verify", "rollback"}
  BY DEF Flow
<1>3. Configured(dev) => Configured(dev')
  BY DEF Configured
<1> QED
  BY <1>1, <1>2, <1>3 DEF Whole, Flow

LEMMA WholeProfile ==
  ASSUME Types, Whole, NEW c \in Client, Profile(c)
  PROVE  Whole'
<1> SUFFICES ASSUME ~ mixed'
             PROVE  Whole'
  BY DEF Whole
<1>1. ~ mixed /\ \A d \in Client : pc[d] \notin Flow
  BY DEF Profile
<1>2. UNCHANGED <<node, dev, applied, original>> /\ ~ Configured(dev)
  BY DEF Profile, device
<1>3. \A f \in ProfileField : dev[f] = original[f]
  BY <1>1, <1>2 DEF Whole, Flow
<1>4. \A d \in Client : pc'[d] = IF d = c THEN "profile" ELSE pc[d]
  BY DEF Profile, Calls, Goes, Types, TypeOK
<1>5. before'[c] = [node |-> node, config |-> dev]
  BY DEF Profile, Current, Types, TypeOK
<1> QED
  BY <1>1, <1>2, <1>3, <1>4, <1>5 DEF Whole, Flow

LEMMA WholeWrites ==
  ASSUME Types, Whole, NEW c \in Client, ProfileWrites(c)
  PROVE  Whole'
<1> SUFFICES ASSUME ~ mixed
             PROVE  Whole'
  BY DEF Whole, ProfileWrites, ghosts, flow
<1>1. UNCHANGED <<node, before, original, mixed>> /\ pc[c] = "profile"
  BY DEF ProfileWrites, Goes, ghosts, flow
<1>2. PICK b \in Begun, fs \in SUBSET ProfileField :
        /\ fs \subseteq b
        /\ dev' = [f \in Field |-> IF f \in fs THEN Goal(f) ELSE dev[f]]
        /\ applied' = [applied EXCEPT ![c] = b]
        /\ \/ b = ProfileField /\ Goes(c, "profile", "verify") /\ UNCHANGED outcome
           \/ b # {} /\ Goes(c, "profile", "rollback") /\ UNCHANGED outcome
           \/ b = {} /\ Goes(c, "profile", "idle") /\ Returns(c, "failed")
  BY DEF ProfileWrites
<1>3. \A d \in Client \ {c} : pc[d] \notin Flow
  BY <1>1 DEF Whole, Flow
<1>4. /\ before[c].node = node
      /\ \A f \in ProfileField : before[c].config[f] = original[f] /\ dev[f] = original[f]
  BY <1>1 DEF Whole, Flow
<1>5. /\ \A d \in Client \ {c} : pc'[d] = pc[d]
      /\ pc'[c] \in {"verify", "rollback"} \/ (b = {} /\ pc'[c] = "idle")
  BY <1>2 DEF Goes, Types, TypeOK
<1>6. applied'[c] = b
  BY <1>2 DEF Types, TypeOK
<1>7. \A f \in ProfileField \ b : dev'[f] = original[f]
  BY <1>2, <1>4 DEF Field
<1>8. CASE pc'[c] \in {"verify", "rollback"}
  BY <1>1, <1>3, <1>4, <1>5, <1>6, <1>7, <1>8 DEF Whole, Flow
<1>9. CASE b = {} /\ pc'[c] = "idle"
  BY <1>1, <1>3, <1>4, <1>5, <1>7, <1>9 DEF Whole, Flow
<1> QED
  BY <1>5, <1>8, <1>9

LEMMA WholeEnds ==
  ASSUME Types, Whole, NEW c \in Client,
         ProfileApplied(c) \/ ProfileDiffers(c) \/ Rollback(c)
  PROVE  Whole'
<1> SUFFICES ASSUME ~ mixed'
             PROVE  Whole'
  BY DEF Whole
<1>0. ~ mixed
  <2>1. CASE ProfileApplied(c) \/ ProfileDiffers(c)
    BY <2>1 DEF ProfileApplied, ProfileDiffers, ghosts, flow
  <2>2. CASE Rollback(c)
    BY <2>2 DEF Rollback
  <2> QED
    BY <2>1, <2>2
<1>1. CASE ProfileApplied(c)
  <2>1. UNCHANGED <<node, dev, before, applied, original>> /\ Configured(dev)
    BY <1>1 DEF ProfileApplied, device, locals
  <2>2. \A d \in Client : pc'[d] = IF d = c THEN "idle" ELSE pc[d]
    BY <1>1 DEF ProfileApplied, Goes, Types, TypeOK
  <2> QED
    BY <1>0, <2>1, <2>2 DEF Whole, Flow
<1>2. CASE ProfileDiffers(c)
  <2>1. UNCHANGED <<node, dev, before, applied, original>> /\ pc[c] = "verify"
    BY <1>2 DEF ProfileDiffers, Goes, device, locals, ghosts, flow
  <2>2. \A d \in Client : pc'[d] = IF d = c THEN "rollback" ELSE pc[d]
    BY <1>2 DEF ProfileDiffers, Goes, Types, TypeOK
  <2> QED
    BY <1>0, <2>1, <2>2 DEF Whole, Flow
<1>3. CASE Rollback(c)
  <2>1. UNCHANGED <<node, before, applied, original>> /\ pc[c] = "rollback"
    BY <1>3 DEF Rollback, Goes, locals
  <2>2. \A d \in Client : pc'[d] = IF d = c THEN "idle" ELSE pc[d]
    BY <1>3 DEF Rollback, Goes, Types, TypeOK
  <2>3. dev' = [f \in Field |-> IF f \in applied[c] THEN before[c].config[f] ELSE dev[f]]
    BY <1>3 DEF Rollback
  <2>4. /\ \A f \in ProfileField : before[c].config[f] = original[f]
        /\ \A f \in ProfileField \ applied[c] : dev[f] = original[f]
    BY <1>0, <2>1 DEF Whole, Flow
  <2>5. \A f \in ProfileField : dev'[f] = original[f]
    BY <2>3, <2>4 DEF Field
  <2>6. \A d \in Client : pc'[d] \notin Flow
    BY <1>0, <2>1, <2>2 DEF Whole, Flow
  <2> QED
    BY <1>0, <2>1, <2>5, <2>6 DEF Whole, Flow
<1> QED
  BY <1>1, <1>2, <1>3

LEMMA WholeStep == Types /\ Whole /\ [Next]_vars => Whole'
<1> SUFFICES ASSUME Types, Whole, [Next]_vars PROVE Whole'
  OBVIOUS
<1>1. CASE Swap
  <2> SUFFICES ASSUME ~ mixed'
               PROVE  Whole'
    BY DEF Whole
  <2>1. \A c \in Client : pc'[c] \notin Flow
    BY <1>1 DEF Swap
  <2>2. \A f \in ProfileField : dev'[f] = original'[f]
    BY <1>1 DEF Swap, Of
  <2> QED
    BY <2>1, <2>2 DEF Whole, Flow
<1>2. ASSUME NEW c \in Client, Request(c)
      PROVE  Whole'
  <2>1. CASE Preview(c) \/ Clear(c) \/ Store(c) \/ Take(c) \/ Expired(c) \/ Refused(c)
    BY <2>1, WholeUntouched
    DEF Preview, Clear, Store, Take, Expired, Refused, Calls, Goes, device, locals, ghosts, flow,
        Flow, Types, TypeOK
  <2>2. CASE Restored(c) \/ NotRestored(c) \/ BackupRestored(c)
    BY <2>2, WholeUntouched, OtherFields
    DEF Restored, NotRestored, BackupRestored, Calls, Goes, locals, ghosts, flow, Flow, Types, TypeOK
  <2>3. CASE AlreadyConfigured(c)
    BY <2>3, WholeUntouched
    DEF AlreadyConfigured, Calls, Goes, device, locals, Flow, Types, TypeOK
  <2>4. CASE Credentials(c) \/ Checked(c)
    BY <2>4, WholeUntouched
    DEF Credentials, Checked, Calls, Goes, device, locals, ghosts, flow, Flow, Types, TypeOK
  <2>5. CASE CredentialWrites(c)
    BY <2>5, WholeUntouched, OtherFields
    DEF CredentialWrites, Goes, locals, ghosts, flow, Flow, Types, TypeOK
  <2> QED
    BY <1>2, <2>1, <2>2, <2>3, <2>4, <2>5, WholeProfile, WholeWrites, WholeEnds DEF Request
<1>3. CASE UNCHANGED vars
  BY <1>3, WholeUntouched DEF vars
<1> QED
  BY <1>1, <1>2, <1>3 DEF Next

\* Between its writes, its comparison and its rollback a profile request may
\* meet any other request; unless two profile requests overlap or a rollback
\* fails, the profile is afterwards on the node as a whole or not at all.
THEOREM ProfileWholeOrNot == Spec => []ProfileWhole
<1>1. Types /\ Whole => ProfileWhole
  <2> SUFFICES ASSUME Types, Whole, ~ mixed, \A c \in Client : pc[c] \notin {"verify", "rollback"}
               PROVE  Configured(dev) \/ Of(dev) = original
    BY DEF ProfileWhole
  <2>1. Configured(dev) \/ \A f \in ProfileField : dev[f] = original[f]
    BY DEF Whole
  <2>2. (\A f \in ProfileField : dev[f] = original[f]) => Of(dev) = original
    BY DEF Of, Types, TypeOK
  <2> QED
    BY <2>1, <2>2
<1> QED
  BY <1>1, AlwaysTypes, WholeInit, WholeStep, PTL DEF Spec
=============================================================================
