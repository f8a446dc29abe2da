--------------------------- MODULE FirmwareTransfer ---------------------------
(***************************************************************************)
(* tools/firmware_service.py: flash_g6_til90 restarts the node into its    *)
(* bootloader and send_xmodem sends the image block by block.  A response  *)
(* is one byte that names no block, and nothing empties the reader's       *)
(* buffer between two packets.                                             *)
(***************************************************************************)
EXTENDS Naturals, Sequences

CONSTANTS
  Blocks,       \* total_blocks
  Modulus,      \* block numbers are taken modulo this (256)
  Tries,        \* attempts for a block (11)
  EotTries,     \* attempts for the end of transmission (10)
  Probes,       \* apk_crc_probe_retries: packets sent with a wrong CRC first
  MaxFaults,    \* bound: packets and responses lost or garbled
  MaxStrays     \* bound: responses the sender does not expect when they come

ASSUME FirmwareAssumption ==
  /\ {Blocks, Tries, EotTries} \subseteq Nat \ {0}
  /\ Modulus \in Nat \ {0, 1, 2}
  /\ {Probes, MaxFaults, MaxStrays} \subseteq Nat

VARIABLES
  phase,    \* where flash_g6_til90 is
  block,    \* the block in hand, Blocks + 1 for the end of transmission
  attempt,  \* _attempt: packets sent of it
  waiting,  \* is next_byte waiting for the response to the last packet?
  probes,   \* probe_retries
  req,      \* packets on their way
  resp,     \* bytes on their way or in the buffer of the reader
  boot,     \* the node: its firmware or its bootloader
  got,      \* blocks the bootloader has
  faults,   \* bound counter
  strays    \* bound counter: late responses and repeated prompts

sender == <<phase, block, attempt, waiting, probes>>
line   == <<req, resp>>
vars == <<phase, block, attempt, waiting, probes, req, resp, boot, got, faults, strays>>

Bytes == {"C", "ACK", "NAK", "CAN", "noise"}
Packet == [block : 1 .. Blocks + 1, good : BOOLEAN]

TypeOK ==
  /\ phase \in {"idle", "prompt", "blocks", "eot", "return", "flashed", "failed", "broken"}
  /\ block \in 1 .. Blocks + 1
  /\ attempt \in Nat
  /\ phase = "blocks" => attempt <= Tries
  /\ phase = "eot" => attempt <= EotTries
  /\ waiting \in BOOLEAN
  /\ probes \in 0 .. Probes
  /\ req \in Seq(Packet) /\ resp \in Seq(Bytes)
  /\ boot \in {"firmware", "prompting", "receiving", "cancelled"}
  /\ got \in 0 .. Blocks
  /\ faults \in 0 .. MaxFaults /\ strays \in 0 .. MaxStrays

Init ==
  /\ phase = "idle" /\ block = 1 /\ attempt = 0 /\ waiting = FALSE /\ probes = Probes
  /\ req = << >> /\ resp = << >>
  /\ boot = "firmware" /\ got = 0
  /\ faults = 0 /\ strays = 0

-----------------------------------------------------------------------------
(* flash_g6_til90 around the transfer. *)

\* Backup, image and confirmation are checked; the restart and the password
\* are sent, a second apart and without waiting for an answer.  The node may
\* miss them and go on with its firmware.
Restart ==
  /\ phase = "idle"
  /\ phase' = "prompt"
  /\ \/ boot' = "prompting" /\ resp' = Append(resp, "C")
     \/ UNCHANGED <<boot, resp>>
  /\ UNCHANGED <<block, attempt, waiting, probes, req, got, faults, strays>>

\* wait_for: bytes up to the first prompt are dropped.
Prompted ==
  /\ phase = "prompt" /\ resp # << >>
  /\ phase' = IF Head(resp) = "C" THEN "blocks" ELSE "prompt"
  /\ resp' = Tail(resp)
  /\ UNCHANGED <<block, attempt, waiting, probes, req, boot, got, faults, strays>>

\* No prompt in ten seconds.
NotPrompted ==
  /\ phase = "prompt" /\ resp = << >>
  /\ phase' = "failed"
  /\ UNCHANGED <<block, attempt, waiting, probes, line, boot, got, faults, strays>>

\* The first backup that succeeds decides: product and version; or none does
\* within the deadline.
Returned ==
  /\ phase = "return"
  /\ \/ phase' = "flashed" /\ boot = "firmware"
     \/ phase' = "failed"
  /\ UNCHANGED <<block, attempt, waiting, probes, line, boot, got, faults, strays>>

-----------------------------------------------------------------------------
(* send_xmodem. *)

\* Mutant: every packet is counted as a probe.
SendBlock_AllProbes ==
  /\ phase = "blocks" /\ ~ waiting /\ attempt < Tries
  /\ req' = Append(req, [block |-> block, good |-> probes = 0])
  /\ probes' = probes - 1
  /\ attempt' = attempt + 1 /\ waiting' = TRUE
  /\ UNCHANGED <<phase, block, resp, boot, got, faults, strays>>

\* The first packets carry a wrong CRC on purpose.
SendBlock ==
  /\ phase = "blocks" /\ ~ waiting /\ attempt < Tries
  /\ req' = Append(req, [block |-> block, good |-> probes = 0])
  /\ probes' = IF probes = 0 THEN 0 ELSE probes - 1
  /\ attempt' = attempt + 1 /\ waiting' = TRUE
  /\ UNCHANGED <<phase, block, resp, boot, got, faults, strays>>

SendEot ==
  /\ phase = "eot" /\ ~ waiting /\ attempt < EotTries
  /\ req' = Append(req, [block |-> block, good |-> TRUE])
  /\ attempt' = attempt + 1 /\ waiting' = TRUE
  /\ UNCHANGED <<phase, block, probes, resp, boot, got, faults, strays>>

\* Not acknowledged after the last attempt.
GiveUp ==
  /\ ~ waiting
  /\ \/ phase = "blocks" /\ attempt = Tries
     \/ phase = "eot" /\ attempt = EotTries
  /\ phase' = "failed"
  /\ UNCHANGED <<block, attempt, waiting, probes, line, boot, got, faults, strays>>

\* Mutant: the attempts are counted for the whole transfer.
Accept_GoesOnCounting ==
  /\ waiting' = FALSE
  /\ IF phase = "eot" THEN phase' = "return" /\ UNCHANGED <<block, attempt>>
     ELSE /\ block' = block + 1
          /\ phase' = IF block = Blocks THEN "eot" ELSE "blocks"
          /\ attempt' = IF block = Blocks THEN 0 ELSE attempt

\* Mutant: the loop over the blocks ends one early.
Accept_OneShort ==
  /\ waiting' = FALSE
  /\ IF phase = "eot" THEN phase' = "return" /\ UNCHANGED <<block, attempt>>
     ELSE /\ phase' = IF block + 1 >= Blocks THEN "eot" ELSE "blocks"
          /\ block' = IF block + 1 >= Blocks THEN Blocks + 1 ELSE block + 1
          /\ attempt' = 0

\* The next block, then the end of transmission, then the node's return.
Accept ==
  /\ waiting' = FALSE
  /\ IF phase = "eot" THEN phase' = "return" /\ UNCHANGED <<block, attempt>>
     ELSE /\ block' = block + 1
          /\ phase' = IF block = Blocks THEN "eot" ELSE "blocks"
          /\ attempt' = 0

\* Whatever byte comes first is the response to the last packet.
ReadByte ==
  /\ waiting /\ resp # << >>
  /\ resp' = Tail(resp)
  /\ CASE Head(resp) = "ACK" -> Accept
       [] Head(resp) = "CAN" /\ phase = "blocks" ->
            phase' = "failed" /\ waiting' = FALSE /\ UNCHANGED <<block, attempt>>
       [] OTHER -> waiting' = FALSE /\ UNCHANGED <<phase, block, attempt>>
  /\ UNCHANGED <<probes, req, boot, got, faults, strays>>

\* Mutant: a missing response is waited for again.
Timeout_WaitsOn ==
  /\ waiting
  /\ req = << >> /\ resp = << >>
  /\ UNCHANGED vars

\* Two seconds without a byte: nothing is on its way, or it comes late.
Timeout ==
  /\ waiting
  /\ \/ req = << >> /\ resp = << >> /\ UNCHANGED strays
     \/ req \o resp # << >> /\ strays < MaxStrays /\ strays' = strays + 1
  /\ waiting' = FALSE
  /\ UNCHANGED <<phase, block, attempt, probes, line, boot, got, faults>>

\* A write is short, or the port raises.
PortFails ==
  /\ phase \in {"prompt", "blocks", "eot"}
  /\ phase' = "broken" /\ waiting' = FALSE
  /\ UNCHANGED <<block, attempt, probes, line, boot, got, faults, strays>>

-----------------------------------------------------------------------------
(* External: the line and an XMODEM receiver. *)

Fault == faults < MaxFaults /\ faults' = faults + 1

LosePacket ==
  /\ req # << >> /\ Fault
  /\ req' = Tail(req)
  /\ UNCHANGED <<sender, resp, boot, got, strays>>

GarblePacket ==
  /\ req # << >> /\ Head(req).good /\ Head(req).block <= Blocks /\ Fault
  /\ req' = [req EXCEPT ![1] = [Head(req) EXCEPT !.good = FALSE]]
  /\ UNCHANGED <<sender, resp, boot, got, strays>>

LoseResponse ==
  /\ resp # << >> /\ Fault
  /\ resp' = Tail(resp)
  /\ UNCHANGED <<sender, req, boot, got, strays>>

GarbleResponse ==
  /\ resp # << >> /\ Head(resp) # "noise" /\ Fault
  /\ resp' = [resp EXCEPT ![1] = "noise"]
  /\ UNCHANGED <<sender, req, boot, got, strays>>

\* The prompt is repeated until the first packet arrives.
PromptAgain ==
  /\ boot = "prompting" /\ strays < MaxStrays
  /\ resp' = Append(resp, "C")
  /\ strays' = strays + 1
  /\ UNCHANGED <<sender, req, boot, got, faults>>

\* Block numbers that are the same byte in a packet.
SameNumber(a, b) ==
  \E q \in 0 .. Blocks : a = b + q * Modulus \/ b = a + q * Modulus

Answer(byte) == resp' = Append(resp, byte)

\* A packet that is neither the next block nor the last one again is the end
\* of the transfer for the receiver; the end of transmission starts the node's
\* firmware, which answers nothing.
Receive ==
  /\ req # << >>
  /\ req' = Tail(req)
  /\ LET p == Head(req)
         listening == boot \in {"prompting", "receiving"}
         block_read(n) == p.block <= Blocks /\ p.good /\ SameNumber(p.block, n) IN
     \/ ~ listening /\ UNCHANGED <<resp, boot, got>>
     \/ /\ listening /\ p.block = Blocks + 1
        /\ Answer("ACK") /\ boot' = "firmware" /\ UNCHANGED got
     \/ /\ listening /\ p.block <= Blocks /\ ~ p.good
        /\ Answer("NAK") /\ boot' = "receiving" /\ UNCHANGED got
     \/ /\ listening /\ block_read(got + 1)
        /\ Answer("ACK") /\ boot' = "receiving" /\ got' = got + 1
     \/ /\ listening /\ block_read(got)
        /\ Answer("ACK") /\ boot' = "receiving" /\ UNCHANGED got
     \/ /\ listening /\ p.block <= Blocks /\ p.good
        /\ ~ block_read(got + 1) /\ ~ block_read(got)
        /\ Answer("CAN") /\ boot' = "cancelled" /\ UNCHANGED got
  /\ UNCHANGED <<sender, faults, strays>>

SenderStep ==
  \/ Prompted \/ NotPrompted \/ Returned
  \/ SendBlock \/ SendEot \/ GiveUp \/ ReadByte \/ Timeout

Next ==
  \/ Restart \/ SenderStep \/ PortFails
  \/ LosePacket \/ GarblePacket \/ LoseResponse \/ GarbleResponse \/ PromptAgain \/ Receive

\* Every wait of the sender has a deadline; packets arrive or get lost.
Spec == Init /\ [][Next]_vars /\ WF_vars(SenderStep) /\ WF_vars(Receive)

-----------------------------------------------------------------------------
(* Properties. *)

\* The sender is ahead of the bootloader by no more blocks than responses
\* came late or unexpected, as long as these are too few to lead it round the
\* block numbers: without them a transfer that is reported complete is
\* complete, whatever was lost or garbled on the way.
LeadBounded == strays + 1 < Modulus => block - 1 <= got + strays

\* A transfer is not given up for fewer faults than a block has tries beyond
\* the probes, unless a response was late or unexpected.
TriesSuffice ==
  phase = "failed" /\ boot = "receiving" /\ strays = 0
    => faults + Probes >= Tries \/ faults >= EotTries

\* A transfer that begins ends: every retry is counted.
TransferEnds == phase = "prompt" ~> phase \in {"flashed", "failed", "broken"}
=============================================================================
