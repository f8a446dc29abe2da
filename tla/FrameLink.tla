------------------------------ MODULE FrameLink ------------------------------
(***************************************************************************)
(* The DLE-stuffed UART framing of tools/packet_parser/frame.py: a sender  *)
(* that puts the bytes of encode_frame on the line one by one, possibly    *)
(* with noise between frames, and a receiver that feeds the chunks a port  *)
(* read returns to a StreamFrameParser.  The receiver makes a new parser   *)
(* for every query, so a parser may start anywhere in the byte stream.     *)
(***************************************************************************)
EXTENDS Naturals, Sequences

CONSTANTS
  Byte, DLE, STX, ETX,
  Noise,          \* bytes that may appear between two frames
  MaxBodySize,    \* StreamFrameParser.max_body_size
  MaxSent,        \* bound: longest body the sender encodes
  ChunkFrames     \* bound: frames one read may complete

ASSUME FrameAssumption ==
  /\ {DLE, STX, ETX} \subseteq Byte
  /\ DLE # STX /\ DLE # ETX /\ STX # ETX
  /\ Noise \subseteq Byte
  /\ MaxBodySize \in Nat \ {0} /\ MaxSent \in Nat /\ ChunkFrames \in Nat

VARIABLES
  pos,      \* what the sender emits next
  sending,  \* the body bytes of the running frame emitted so far
  state,    \* StreamFrameParser._state
  body,     \* StreamFrameParser._body
  frames,   \* `frames`, the bodies completed by the running call of feed
  raised,   \* has the running call of feed raised? the rest of its chunk is lost
  startedIn \* history: the parser's state when the running frame started,
            \* "missed" if it has not been fed every byte of it since

transmitter == <<pos, sending>>
parser == <<state, body, frames, raised>>
frameVars == <<pos, sending, state, body, frames, raised, startedIn>>

State == {"WAIT_DLE", "WAIT_STX", "IN_BODY", "AFTER_BODY_DLE"}

FrameTypeOK ==
  /\ pos \in {"edge", "gap", "stx", "body", "dup", "etx"}
  /\ sending \in Seq(Byte)
  /\ state \in State
  /\ body \in Seq(Byte)
  /\ frames \in Seq(Seq(Byte))
  /\ raised \in BOOLEAN
  /\ startedIn \in State \cup {"missed"}

FrameInit ==
  /\ pos = "edge" /\ sending = << >>
  /\ state = "WAIT_DLE" /\ body = << >> /\ frames = << >> /\ raised = FALSE
  /\ startedIn = "missed"

-----------------------------------------------------------------------------
(* StreamFrameParser.feed on one byte. *)

\* reset(), and the exception that drops the frames of this call.
Raise ==
  /\ state' = "WAIT_DLE" /\ body' = << >>
  /\ frames' = << >> /\ raised' = TRUE

\* Mutant: the size is tested one byte too late.
Store_OneMore(b) ==
  IF Len(body) > MaxBodySize
  THEN Raise
  ELSE /\ body' = Append(body, b) /\ state' = "IN_BODY"
       /\ UNCHANGED <<frames, raised>>

\* _append, and the state feed is in afterwards.
Store(b) ==
  IF Len(body) >= MaxBodySize
  THEN Raise
  ELSE /\ body' = Append(body, b) /\ state' = "IN_BODY"
       /\ UNCHANGED <<frames, raised>>

Outside(b) ==
  /\ state = "WAIT_DLE"
  /\ state' = IF b = DLE THEN "WAIT_STX" ELSE "WAIT_DLE"
  /\ UNCHANGED <<body, frames, raised>>

Opening(b) ==
  /\ state = "WAIT_STX"
  /\ IF b = STX THEN state' = "IN_BODY" /\ body' = << >>
                ELSE state' = "WAIT_DLE" /\ UNCHANGED body
  /\ UNCHANGED <<frames, raised>>

InBody(b) ==
  /\ state = "IN_BODY"
  /\ IF b = DLE THEN state' = "AFTER_BODY_DLE" /\ UNCHANGED <<body, frames, raised>>
                ELSE Store(b)

\* Mutant: an escaped DLE is dropped.
AfterDle_DropsEscaped(b) ==
  /\ state = "AFTER_BODY_DLE"
  /\ \/ b = DLE /\ state' = "IN_BODY" /\ UNCHANGED <<body, frames, raised>>
     \/ /\ b = ETX
        /\ frames' = Append(frames, body)
        /\ body' = << >> /\ state' = "WAIT_DLE"
        /\ UNCHANGED raised
     \/ b \notin {DLE, ETX} /\ Raise

\* Mutant: a bad byte after DLE is passed over and the body goes on.
AfterDle_GoesOn(b) ==
  /\ state = "AFTER_BODY_DLE"
  /\ \/ b = DLE /\ Store(DLE)
     \/ /\ b = ETX
        /\ frames' = Append(frames, body)
        /\ body' = << >>
        /\ UNCHANGED <<state, raised>>
     \/ b \notin {DLE, ETX} /\ state' = "IN_BODY" /\ UNCHANGED <<body, frames, raised>>

AfterDle(b) ==
  /\ state = "AFTER_BODY_DLE"
  /\ \/ b = DLE /\ Store(DLE)
     \/ /\ b = ETX
        /\ frames' = Append(frames, body)
        /\ body' = << >> /\ state' = "WAIT_DLE"
        /\ UNCHANGED raised
     \/ b \notin {DLE, ETX} /\ Raise

Feed(b) ==
  IF raised THEN UNCHANGED parser
            ELSE Outside(b) \/ Opening(b) \/ InBody(b) \/ AfterDle(b)

-----------------------------------------------------------------------------
(* encode_frame: DLE STX, the body with every DLE doubled, DLE ETX. *)

Emit(b, from, to) == pos = from /\ pos' = to /\ Feed(b)

\* A frame skipped from its first byte or later is missed.
Follow == startedIn' = IF raised THEN "missed" ELSE startedIn

EmitStart ==
  /\ Len(frames) < ChunkFrames
  /\ \E from \in {"edge", "gap"} : Emit(DLE, from, "stx")
  /\ sending' = << >>
  /\ startedIn' = IF raised THEN "missed" ELSE state

EmitStx == Emit(STX, "stx", "body") /\ UNCHANGED sending /\ Follow

EmitPlain ==
  /\ Len(sending) < MaxSent
  /\ \E b \in Byte \ {DLE} :
       Emit(b, "body", "body") /\ sending' = Append(sending, b)
  /\ Follow

EmitDle == Len(sending) < MaxSent /\ Emit(DLE, "body", "dup")
             /\ UNCHANGED sending /\ Follow

EmitDleAgain == Emit(DLE, "dup", "body") /\ sending' = Append(sending, DLE)
                  /\ Follow

EmitStop == Emit(DLE, "body", "etx") /\ UNCHANGED sending /\ Follow

EmitEtx == Emit(ETX, "etx", "edge") /\ UNCHANGED sending /\ Follow

EmitNoise ==
  /\ Len(frames) < ChunkFrames
  /\ \E b \in Noise, from \in {"edge", "gap"} : Emit(b, from, "gap")
  /\ UNCHANGED <<sending, startedIn>>

-----------------------------------------------------------------------------
(* The callers of feed. *)

\* feed returns, or its exception reaches the caller: the next read starts.
ChunkEnds ==
  /\ frames' = << >> /\ raised' = FALSE
  /\ UNCHANGED <<transmitter, state, body, startedIn>>

\* run_query, run_history and _write_and_ack each make their own parser.
NewParser ==
  /\ frames = << >> /\ ~ raised
  /\ state' = "WAIT_DLE" /\ body' = << >>
  /\ startedIn' = "missed"
  /\ UNCHANGED <<transmitter, frames, raised>>

FrameNext ==
  \/ EmitStart \/ EmitStx \/ EmitPlain \/ EmitDle \/ EmitDleAgain
  \/ EmitStop \/ EmitEtx \/ EmitNoise
  \/ ChunkEnds \/ NewParser

FrameSpec == FrameInit /\ [][FrameNext]_frameVars

-----------------------------------------------------------------------------
(* Properties. *)

\* Whatever noise came before, and wherever in the stream the parser was made
\* or lost a chunk, the end of one complete frame leaves it waiting for the
\* next one: line trouble costs at most the frame it falls into.
Resynchronised == pos = "edge" => state = "WAIT_DLE"

\* A body of at most max_body_size bytes whose frame found the parser waiting
\* comes out of the last byte of its frame, unescaped and whole, behind the
\* frames of the same chunk; however the reads split it.
FrameDelivered ==
  [][pos = "etx" /\ pos' = "edge" /\ startedIn = "WAIT_DLE"
     /\ Len(sending) <= MaxBodySize
     => frames' = Append(frames, sending)]_frameVars

\* The decoded body, complete or not, never exceeds the limit, also not when
\* what is collected is noise or the tail of another frame.
BodyBounded ==
  /\ Len(body) <= MaxBodySize
  /\ \A i \in 1 .. Len(frames) : Len(frames[i]) <= MaxBodySize
=============================================================================
