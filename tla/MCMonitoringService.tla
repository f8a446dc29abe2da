-------------------------- MODULE MCMonitoringService --------------------------
(* Small instances of MonitoringService for TLC. *)
EXTENDS MonitoringService, TLC

CONSTANTS c1, c2, t1, t2

=============================================================================
