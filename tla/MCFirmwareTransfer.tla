-------------------------- MODULE MCFirmwareTransfer --------------------------
(* Small instances of FirmwareTransfer for TLC. *)
EXTENDS FirmwareTransfer
=============================================================================
