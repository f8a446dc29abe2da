----------------------------- MODULE MCFrameLink -----------------------------
(* Small instances of FrameLink for TLC: the three control bytes and one   *)
(* plain byte.                                                             *)
EXTENDS FrameLink

CONSTANT Plain

McByte == {DLE, STX, ETX, Plain}
=============================================================================
