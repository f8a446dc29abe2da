--------------------------- MODULE RestorePromise ---------------------------
(***************************************************************************)
(* What a caller of DeviceService.apply_restore may rely on, without the   *)
(* messages: the node's configuration moves between its original value and *)
(* the wanted one, field by field, until one outcome is reported.  On a    *)
(* coupled node only "refused" and "restored" mean anything.               *)
(***************************************************************************)
EXTENDS FiniteSets

CONSTANTS Field, Value

VARIABLES
  config,    \* the node's configuration
  original,  \* the configuration before the restore
  wanted,    \* the configuration of the snapshot
  outcome,   \* "open" until apply_restore returns or raises
  clean,     \* no rollback error is reported
  suspect,   \* the operation an error without acknowledgement names
  coupled    \* a node whose writes change other fields too

vars == <<config, original, wanted, outcome, clean, suspect, coupled>>

Init ==
  /\ config = original
  /\ outcome = "open" /\ clean = TRUE /\ suspect = {}
  /\ coupled \in BOOLEAN

Differing == {f \in Field : config[f] # original[f]}

\* One field takes its wanted or its original value; with it, another one
\* any value if the node is coupled.
Change(f) ==
  \E v \in {original[f], wanted[f]} :
    \/ config' = [config EXCEPT ![f] = v]
    \/ /\ coupled
       /\ \E g \in Field \ {f}, w \in Value :
            config' = [config EXCEPT ![f] = v, ![g] = w]

Work ==
  /\ outcome = "open"
  /\ \/ \E f \in Field : Change(f)
     \/ UNCHANGED config
  /\ suspect' \in {{}} \cup {{f} : f \in Field}
  /\ UNCHANGED <<original, wanted, outcome, clean, coupled>>

Refuse  == config = original /\ outcome' = "refused" /\ UNCHANGED clean
Restore == config = wanted /\ outcome' = "restored" /\ UNCHANGED clean

\* A failure either reports that the rollback went wrong, or leaves at most
\* the suspect operation in place.
Fail == /\ outcome' = "failed"
        /\ clean' \in BOOLEAN
        /\ clean' /\ ~ coupled => Differing \subseteq suspect

Decide ==
  /\ outcome = "open"
  /\ Refuse \/ Restore \/ Fail
  /\ UNCHANGED <<config, original, wanted, suspect, coupled>>

\* A write still on its way when the failure is reported.
Late ==
  /\ outcome = "failed"
  /\ \E f \in IF clean /\ ~ coupled THEN suspect ELSE Field : Change(f)
  /\ UNCHANGED <<original, wanted, outcome, clean, suspect, coupled>>

Next == Work \/ Decide \/ Late

Spec == Init /\ [][Next]_vars /\ WF_vars(Decide)
=============================================================================
