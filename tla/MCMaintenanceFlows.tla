-------------------------- MODULE MCMaintenanceFlows --------------------------
(* A small instance of MaintenanceFlows for TLC. *)
EXTENDS MaintenanceFlows

AllFlows == Flows

\* Two writes change a field that only the comparison of backups sees.
Coupled == [f \in Field |-> CASE f = "general"  -> {"slot"}
                              [] f = "channels" -> {"sampling"}
                              [] OTHER          -> {}]
=============================================================================
