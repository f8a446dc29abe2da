----------------------- MODULE MCRestoreTransaction -----------------------
(* Small instances of RestoreTransaction for TLC. *)
EXTENDS RestoreTransaction

Snapshot(s, c, r, k) ==
  [f \in Field |-> CASE f = "sampling" -> s
                     [] f = "channels" -> c
                     [] f = "radio_slot_time" -> r
                     [] OTHER -> k]

\* Slot time 0 is a value a node may report and a restore cannot write back.
McDeployed == {Snapshot(1, 1, 0, 1), Snapshot(1, 1, 1, 1)}

\* Plans of three operations, of two, of one, an unencodable target, a
\* blocked difference, and no difference at all.
McBackups == {Snapshot(2, 2, 2, 1), Snapshot(2, 1, 2, 1), Snapshot(1, 2, 1, 1),
              Snapshot(2, 2, 0, 1), Snapshot(2, 1, 1, 2), Snapshot(1, 1, 1, 1)}

\* All writes validated, as in the service; one missing.
McValidated == {Restorable, Restorable \ {"channels"}}
=============================================================================
