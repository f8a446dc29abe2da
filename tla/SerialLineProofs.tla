--------------------------- MODULE SerialLineProofs ---------------------------
(***************************************************************************)
(* Proofs about what crosses the serial line.                              *)
(*                                                                         *)
(* FrameLink, for every alphabet, noise and size limit: the types, that    *)
(* one frame resynchronises the parser, that no body grows past the limit, *)
(* and that the parser inverts the encoder.                                *)
(*                                                                         *)
(* FirmwareTransfer, for an image of any number of blocks, any numbers of  *)
(* attempts and any number of faults and late responses: the types, how    *)
(* far the sender may be ahead, and that its attempts are enough.          *)
(***************************************************************************)
EXTENDS FirmwareTransfer, FrameLink, TLAPS

-----------------------------------------------------------------------------
(* Frames. *)

LEMMA AppendFacts ==
  ASSUME NEW S, NEW s \in Seq(S), NEW e \in S
  PROVE  /\ Append(s, e) \in Seq(S)
         /\ Len(s) \in Nat /\ Len(Append(s, e)) = Len(s) + 1
         /\ \A i \in 1 .. Len(Append(s, e)) :
              \/ i \in 1 .. Len(s) /\ Append(s, e)[i] = s[i]
              \/ i = Len(s) + 1 /\ Append(s, e)[i] = e
  OBVIOUS

\* Where the parser can be at each position of the sender.
Aligned ==
  /\ raised => state = "WAIT_DLE"
  /\ pos = "edge" => state = "WAIT_DLE"
  /\ pos = "body" => state # "AFTER_BODY_DLE"
  /\ pos \in {"dup", "etx"} => state # "IN_BODY"

\* The parser holds what was sent of a frame it has followed from its start.
Following ==
  startedIn = "WAIT_DLE" /\ Len(sending) <= MaxBodySize =>
    /\ pos \in {"stx", "body", "dup", "etx"} => ~ raised
    /\ pos = "stx" => state = "WAIT_STX" /\ sending = << >>
    /\ pos = "body" => state = "IN_BODY" /\ body = sending
    /\ pos \in {"dup", "etx"} => state = "AFTER_BODY_DLE" /\ body = sending

IInv == FrameTypeOK /\ BodyBounded /\ Aligned /\ Following

USE FrameAssumption DEF FrameAssumption

-----------------------------------------------------------------------------
\* One byte keeps the parser's types and the size limit.
LEMMA FeedTypes ==
  ASSUME FrameTypeOK, BodyBounded, NEW b \in Byte, Feed(b)
  PROVE  /\ state' \in State /\ body' \in Seq(Byte)
         /\ frames' \in Seq(Seq(Byte)) /\ raised' \in BOOLEAN
         /\ BodyBounded'
<1>1. /\ body \in Seq(Byte) /\ frames \in Seq(Seq(Byte)) /\ Len(body) \in Nat
      /\ << >> \in Seq(Byte) /\ << >> \in Seq(Seq(Byte)) /\ DLE \in Byte
      /\ Len(<< >>) = 0
  BY DEF FrameTypeOK
<1>2. ASSUME Raise PROVE /\ state' \in State /\ body' \in Seq(Byte)
                         /\ frames' \in Seq(Seq(Byte)) /\ raised' \in BOOLEAN
                         /\ BodyBounded'
  BY <1>1, <1>2 DEF Raise, State, BodyBounded
<1>3. ASSUME NEW c \in Byte, Store(c)
      PROVE  /\ state' \in State /\ body' \in Seq(Byte)
             /\ frames' \in Seq(Seq(Byte)) /\ raised' \in BOOLEAN
             /\ BodyBounded'
  <2>1. CASE Len(body) >= MaxBodySize
    BY <1>2, <1>3, <2>1 DEF Store
  <2>2. CASE ~ (Len(body) >= MaxBodySize)
    <3>1. body' = Append(body, c) /\ state' = "IN_BODY" /\ frames' = frames /\ raised' = raised
      BY <1>3, <2>2 DEF Store
    <3>2. body' \in Seq(Byte) /\ Len(body') = Len(body) + 1
      BY <1>1, <3>1, AppendFacts
    <3>3. Len(body') <= MaxBodySize
      BY <1>1, <2>2, <3>2
    <3> QED BY <3>1, <3>2, <3>3 DEF FrameTypeOK, State, BodyBounded
  <2> QED BY <2>1, <2>2
<1>4. CASE raised
  BY <1>4 DEF Feed, parser, FrameTypeOK, BodyBounded
<1>5. CASE Outside(b) \/ Opening(b)
  <2>1. body' \in {body, << >>} /\ frames' = frames /\ raised' = raised /\ state' \in State
    BY <1>5 DEF Outside, Opening, State
  <2>2. 0 <= MaxBodySize
    OBVIOUS
  <2> QED BY <1>1, <2>1, <2>2 DEF FrameTypeOK, BodyBounded
<1>6. CASE InBody(b)
  <2>1. CASE b = DLE
    BY <1>6, <2>1 DEF InBody, FrameTypeOK, State, BodyBounded
  <2> QED BY <1>3, <1>6, <2>1 DEF InBody
<1>7. CASE AfterDle(b)
  <2>1. CASE b = ETX
    <3>1. /\ frames' = Append(frames, body) /\ body' = << >>
          /\ state' = "WAIT_DLE" /\ raised' = raised
      BY <1>7, <2>1 DEF AfterDle
    <3>2. /\ frames' \in Seq(Seq(Byte)) /\ Len(frames') = Len(frames) + 1
          /\ \A i \in 1 .. Len(frames) : frames'[i] = frames[i]
          /\ frames'[Len(frames) + 1] = body
      BY <1>1, <3>1, AppendFacts
    <3>3. ASSUME NEW i \in 1 .. Len(frames') PROVE Len(frames'[i]) <= MaxBodySize
      <4>1. i \in 1 .. Len(frames) \/ i = Len(frames) + 1
        BY <1>1, <3>2
      <4> QED BY <3>2, <4>1 DEF BodyBounded
    <3> QED BY <1>1, <3>1, <3>2, <3>3 DEF FrameTypeOK, State, BodyBounded
  <2> QED BY <1>1, <1>2, <1>3, <1>7, <2>1 DEF AfterDle
<1> QED
  BY <1>4, <1>5, <1>6, <1>7 DEF Feed

\* What one byte does to the parser's state.
LEMMA FeedState ==
  ASSUME FrameTypeOK, Aligned, NEW b \in Byte, Feed(b)
  PROVE  /\ raised' => state' = "WAIT_DLE"
         /\ b = DLE => /\ state = "IN_BODY" => state' = "AFTER_BODY_DLE"
                       /\ state # "IN_BODY" => state' # "AFTER_BODY_DLE"
         /\ b # DLE => state' # "AFTER_BODY_DLE"
         /\ b = DLE /\ state' = "IN_BODY" => state = "AFTER_BODY_DLE"
         /\ b = ETX /\ state # "IN_BODY" => state' = "WAIT_DLE"
<1>1. CASE raised
  BY <1>1 DEF Feed, parser, Aligned
<1>2. CASE ~ raised
  BY <1>2 DEF Feed, Outside, Opening, InBody, AfterDle,
     Store, Raise, FrameTypeOK, State
<1> QED BY <1>1, <1>2

\* What the sender's steps have in common.
Emits(b, from, to) ==
  /\ pos = from /\ pos' = to /\ Feed(b) /\ b \in Byte
  /\ sending' \in Seq(Byte)
  /\ startedIn' \in State \cup {"missed"}

LEMMA EmitCases ==
  ASSUME FrameTypeOK
  PROVE  /\ EmitStart => \E from \in {"edge", "gap"} : Emits(DLE, from, "stx")
         /\ EmitStx => Emits(STX, "stx", "body")
         /\ EmitPlain => \E b \in Byte \ {DLE} : Emits(b, "body", "body")
         /\ EmitDle => Emits(DLE, "body", "dup")
         /\ EmitDleAgain => Emits(DLE, "dup", "body")
         /\ EmitStop => Emits(DLE, "body", "etx")
         /\ EmitEtx => Emits(ETX, "etx", "edge")
         /\ EmitNoise => \E b \in Noise, from \in {"edge", "gap"} : Emits(b, from, "gap")
<1>1. DLE \in Byte /\ STX \in Byte /\ ETX \in Byte /\ Noise \subseteq Byte
  OBVIOUS
<1>2. /\ sending \in Seq(Byte) /\ startedIn \in State \cup {"missed"} /\ state \in State
      /\ << >> \in Seq(Byte)
      /\ \A c \in Byte : Append(sending, c) \in Seq(Byte)
  BY AppendFacts DEF FrameTypeOK
<1>3. Follow => startedIn' \in State \cup {"missed"}
  BY <1>2 DEF Follow
<1>4. EmitStart => \E from \in {"edge", "gap"} : Emits(DLE, from, "stx")
  BY <1>1, <1>2 DEF EmitStart, Emit, Emits
<1>5. EmitStx => Emits(STX, "stx", "body")
  BY <1>1, <1>2, <1>3 DEF EmitStx, Emit, Emits
<1>6. EmitPlain => \E b \in Byte \ {DLE} : Emits(b, "body", "body")
  BY <1>2, <1>3 DEF EmitPlain, Emit, Emits
<1>7. EmitDle => Emits(DLE, "body", "dup")
  BY <1>1, <1>2, <1>3 DEF EmitDle, Emit, Emits
<1>8. EmitDleAgain => Emits(DLE, "dup", "body")
  BY <1>1, <1>2, <1>3 DEF EmitDleAgain, Emit, Emits
<1>9. EmitStop => Emits(DLE, "body", "etx")
  BY <1>1, <1>2, <1>3 DEF EmitStop, Emit, Emits
<1>10. EmitEtx => Emits(ETX, "etx", "edge")
  BY <1>1, <1>2, <1>3 DEF EmitEtx, Emit, Emits
<1>11. EmitNoise => \E b \in Noise, from \in {"edge", "gap"} : Emits(b, from, "gap")
  BY <1>1, <1>2 DEF EmitNoise, Emit, Emits
<1> QED
  BY <1>4, <1>5, <1>6, <1>7, <1>8, <1>9, <1>10, <1>11

\* A byte of a frame the parser follows is stored, or moves the state on.
LEMMA FeedFollowed ==
  ASSUME FrameTypeOK, ~ raised, NEW b \in Byte, Feed(b),
         Len(body) < MaxBodySize,
         \/ state = "IN_BODY" /\ b # DLE
         \/ state = "AFTER_BODY_DLE" /\ b = DLE
  PROVE  state' = "IN_BODY" /\ body' = Append(body, b) /\ ~ raised'
<1>1. ~ (Len(body) >= MaxBodySize)
  BY DEF FrameTypeOK
<1>2. Store(b) => state' = "IN_BODY" /\ body' = Append(body, b) /\ ~ raised'
  BY <1>1 DEF Store
<1> QED BY <1>2 DEF Feed, Outside, Opening, InBody, AfterDle

-----------------------------------------------------------------------------
LEMMA InvInit == FrameInit => IInv
<1> SUFFICES ASSUME FrameInit PROVE IInv
  OBVIOUS
<1>1. << >> \in Seq(Byte) /\ << >> \in Seq(Seq(Byte)) /\ Len(<< >>) = 0 /\ 0 <= MaxBodySize
  OBVIOUS
<1>2. FrameTypeOK
  BY <1>1 DEF FrameInit, FrameTypeOK, State
<1>3. BodyBounded
  BY <1>1 DEF FrameInit, BodyBounded
<1>4. Aligned /\ Following
  BY DEF FrameInit, Aligned, Following
<1> QED BY <1>2, <1>3, <1>4 DEF IInv

\* A step of the sender keeps the types, the limit and the alignment.
LEMMA EmitKeeps ==
  ASSUME IInv, NEW b, NEW from, NEW to, Emits(b, from, to),
         <<from, to>> \in {<<"edge", "stx">>, <<"gap", "stx">>, <<"stx", "body">>,
                          <<"body", "body">>, <<"body", "dup">>, <<"dup", "body">>,
                          <<"body", "etx">>, <<"etx", "edge">>, <<"edge", "gap">>,
                          <<"gap", "gap">>},
         from = "body" => (b = DLE <=> to # "body"),
         from = "dup" => b = DLE,
         from = "etx" => b = ETX,
         from = "stx" => b = STX
  PROVE  FrameTypeOK' /\ BodyBounded' /\ Aligned'
<1>1. /\ state' \in State /\ body' \in Seq(Byte)
      /\ frames' \in Seq(Seq(Byte)) /\ raised' \in BOOLEAN /\ BodyBounded'
  BY FeedTypes DEF IInv, Emits
<1>2. FrameTypeOK'
  BY <1>1 DEF IInv, Emits, FrameTypeOK
<1>3. /\ raised' => state' = "WAIT_DLE"
      /\ b = DLE => /\ state = "IN_BODY" => state' = "AFTER_BODY_DLE"
                    /\ state # "IN_BODY" => state' # "AFTER_BODY_DLE"
      /\ b # DLE => state' # "AFTER_BODY_DLE"
      /\ b = DLE /\ state' = "IN_BODY" => state = "AFTER_BODY_DLE"
      /\ b = ETX /\ state # "IN_BODY" => state' = "WAIT_DLE"
  BY FeedState DEF IInv, Emits
<1>4. pos = from /\ pos' = to
  BY DEF Emits
<1>5. DLE # ETX /\ DLE # STX
  OBVIOUS
<1>6. pos' = "edge" => state' = "WAIT_DLE"
  BY <1>3, <1>4 DEF IInv, Aligned
<1>7. pos' = "body" => state' # "AFTER_BODY_DLE"
  BY <1>3, <1>4, <1>5 DEF IInv, Aligned
<1>8. pos' \in {"dup", "etx"} => state' # "IN_BODY"
  BY <1>3, <1>4 DEF IInv, Aligned
<1> QED
  BY <1>1, <1>2, <1>3, <1>6, <1>7, <1>8 DEF Aligned

LEMMA FollowingStart ==
  ASSUME IInv, EmitStart
  PROVE  Following'
<1>1. PICK from \in {"edge", "gap"} : pos' = "stx" /\ Feed(DLE)
  BY DEF EmitStart, Emit
<1>2. startedIn' = (IF raised THEN "missed" ELSE state) /\ sending' = << >>
  BY DEF EmitStart
<1>3. state = "WAIT_DLE" /\ ~ raised => state' = "WAIT_STX" /\ ~ raised'
  BY <1>1 DEF Feed, Outside, Opening, InBody, AfterDle
<1> QED BY <1>1, <1>2, <1>3 DEF Following, IInv, FrameTypeOK, State

LEMMA FollowingEmit ==
  ASSUME IInv,
         EmitStx \/ EmitPlain \/ EmitDle \/ EmitDleAgain
         \/ EmitStop \/ EmitEtx
  PROVE  Following'
<1>1. startedIn' = (IF raised THEN "missed" ELSE startedIn)
  BY DEF EmitStx, EmitPlain, EmitDle, EmitDleAgain, EmitStop,
     EmitEtx, Follow
<1> SUFFICES ASSUME startedIn = "WAIT_DLE", ~ raised, Len(sending') <= MaxBodySize
             PROVE  Following'
  BY <1>1 DEF Following
<1>2. /\ sending \in Seq(Byte) /\ Len(sending) \in Nat /\ body \in Seq(Byte)
      /\ Len(body) \in Nat /\ DLE \in Byte
  BY DEF IInv, FrameTypeOK
<1>3. CASE EmitStx
  <2>1. Feed(STX) /\ pos = "stx" /\ pos' = "body" /\ sending' = sending
    BY <1>3 DEF EmitStx, Emit
  <2>2. state = "WAIT_STX" /\ sending = << >>
    BY <2>1 DEF IInv, Following
  <2> QED BY <2>1, <2>2 DEF Feed, Outside, Opening, InBody,
     AfterDle, Following
<1>4. CASE EmitPlain
  <2>1. PICK b \in Byte \ {DLE} : /\ Feed(b) /\ pos = "body" /\ pos' = "body"
                                 /\ sending' = Append(sending, b)
    BY <1>4 DEF EmitPlain, Emit
  <2>2. Len(sending') = Len(sending) + 1
    BY <1>2, <2>1, AppendFacts
  <2>3. Len(sending) < MaxBodySize /\ Len(sending) <= MaxBodySize
    BY <1>2, <2>2
  <2>4. state = "IN_BODY" /\ body = sending
    BY <2>1, <2>3 DEF IInv, Following
  <2>5. state' = "IN_BODY" /\ body' = Append(body, b) /\ ~ raised'
    BY <2>1, <2>3, <2>4, FeedFollowed DEF IInv
  <2> QED BY <2>1, <2>4, <2>5 DEF Following
<1>5. CASE EmitDle \/ EmitStop
  <2>1. /\ Feed(DLE) /\ pos = "body" /\ pos' \in {"dup", "etx"} /\ sending' = sending
    BY <1>5 DEF EmitDle, EmitStop, Emit
  <2>2. state = "IN_BODY" /\ body = sending
    BY <2>1 DEF IInv, Following
  <2>3. state' = "AFTER_BODY_DLE" /\ body' = body /\ raised' = raised
    BY <2>1, <2>2 DEF Feed, Outside, Opening, InBody, AfterDle
  <2> QED BY <2>1, <2>2, <2>3 DEF Following
<1>6. CASE EmitDleAgain
  <2>1. /\ Feed(DLE) /\ pos = "dup" /\ pos' = "body"
        /\ sending' = Append(sending, DLE)
    BY <1>6 DEF EmitDleAgain, Emit
  <2>2. Len(sending') = Len(sending) + 1
    BY <1>2, <2>1, AppendFacts
  <2>3. Len(sending) < MaxBodySize /\ Len(sending) <= MaxBodySize
    BY <1>2, <2>2
  <2>4. state = "AFTER_BODY_DLE" /\ body = sending
    BY <2>1, <2>3 DEF IInv, Following
  <2>5. state' = "IN_BODY" /\ body' = Append(body, DLE) /\ ~ raised'
    BY <1>2, <2>1, <2>3, <2>4, FeedFollowed DEF IInv
  <2> QED BY <2>1, <2>4, <2>5 DEF Following
<1>7. CASE EmitEtx
  <2>1. pos' = "edge"
    BY <1>7 DEF EmitEtx, Emit
  <2> QED BY <2>1 DEF Following
<1> QED BY <1>3, <1>4, <1>5, <1>6, <1>7

LEMMA FollowingNoise ==
  ASSUME EmitNoise
  PROVE  Following'
<1>1. pos' = "gap"
  BY DEF EmitNoise, Emit
<1> QED BY <1>1 DEF Following

LEMMA CallerKeeps ==
  ASSUME IInv, ChunkEnds \/ NewParser
  PROVE  IInv'
<1>1. << >> \in Seq(Byte) /\ << >> \in Seq(Seq(Byte)) /\ Len(<< >>) = 0 /\ 0 <= MaxBodySize
  OBVIOUS
<1>2. CASE ChunkEnds
  <2>1. FrameTypeOK'
    BY <1>1, <1>2 DEF ChunkEnds, IInv, FrameTypeOK, transmitter
  <2>3. BodyBounded'
    BY <1>1, <1>2 DEF ChunkEnds, IInv, BodyBounded
  <2>2. Aligned' /\ Following'
    BY <1>2 DEF ChunkEnds, IInv, Aligned, Following, transmitter
  <2> QED BY <2>1, <2>2, <2>3 DEF IInv
<1>3. CASE NewParser
  <2>1. FrameTypeOK' /\ BodyBounded'
    BY <1>1, <1>3 DEF NewParser, IInv, FrameTypeOK, BodyBounded, transmitter,
       State
  <2>2. Aligned' /\ Following'
    BY <1>3 DEF NewParser, IInv, Aligned, Following, transmitter
  <2> QED BY <2>1, <2>2 DEF IInv
<1> QED BY <1>2, <1>3

LEMMA InvNext == IInv /\ [FrameNext]_frameVars => IInv'
<1> SUFFICES ASSUME IInv, [FrameNext]_frameVars PROVE IInv'
  OBVIOUS
<1>1. CASE UNCHANGED frameVars
  BY <1>1 DEF frameVars, IInv, FrameTypeOK, BodyBounded, Aligned, Following
<1>2. CASE EmitStart
  <2>1. PICK from \in {"edge", "gap"} : Emits(DLE, from, "stx")
    BY <1>2, EmitCases DEF IInv
  <2> QED BY <1>2, <2>1, EmitKeeps, FollowingStart DEF IInv
<1>3. CASE EmitStx
  BY <1>3, EmitCases, EmitKeeps, FollowingEmit DEF IInv
<1>4. CASE EmitPlain
  <2>1. PICK b \in Byte \ {DLE} : Emits(b, "body", "body")
    BY <1>4, EmitCases DEF IInv
  <2> QED BY <1>4, <2>1, EmitKeeps, FollowingEmit DEF IInv
<1>5. CASE EmitDle
  BY <1>5, EmitCases, EmitKeeps, FollowingEmit DEF IInv
<1>6. CASE EmitDleAgain
  BY <1>6, EmitCases, EmitKeeps, FollowingEmit DEF IInv
<1>7. CASE EmitStop
  BY <1>7, EmitCases, EmitKeeps, FollowingEmit DEF IInv
<1>8. CASE EmitEtx
  BY <1>8, EmitCases, EmitKeeps, FollowingEmit DEF IInv
<1>9. CASE EmitNoise
  <2>1. PICK b \in Noise, from \in {"edge", "gap"} : Emits(b, from, "gap")
    BY <1>9, EmitCases DEF IInv
  <2> QED BY <1>9, <2>1, EmitKeeps, FollowingNoise DEF IInv
<1>10. CASE ChunkEnds \/ NewParser
  BY <1>10, CallerKeeps
<1> QED
  BY <1>1, <1>2, <1>3, <1>4, <1>5, <1>6, <1>7, <1>8, <1>9, <1>10 DEF FrameNext

\* The parser and the sender keep their types for every alphabet.
THEOREM FrameTypes == FrameSpec => []FrameTypeOK
  BY InvInit, InvNext, PTL DEF FrameSpec, IInv

\* One complete frame resynchronises the parser, for any noise, any chunking
\* and any place in the stream at which the parser was created.
THEOREM FrameResync == FrameSpec => []Resynchronised
<1>1. IInv => Resynchronised
  BY DEF IInv, Aligned, Resynchronised
<1> QED BY <1>1, InvInit, InvNext, PTL DEF FrameSpec

\* No body grows past max_body_size.
THEOREM FrameBounded == FrameSpec => []BodyBounded
  BY InvInit, InvNext, PTL DEF FrameSpec, IInv

\* The parser inverts encode_frame: a frame that finds the parser waiting is
\* delivered whole, for every body up to the limit and every split into reads.
THEOREM FrameRoundTrip == FrameSpec => FrameDelivered
<1>1. ASSUME IInv, [FrameNext]_frameVars, pos = "etx", pos' = "edge",
             startedIn = "WAIT_DLE", Len(sending) <= MaxBodySize
      PROVE  frames' = Append(frames, sending)
  <2>1. state = "AFTER_BODY_DLE" /\ body = sending /\ ~ raised
    BY <1>1 DEF IInv, Following
  <2>2. Feed(ETX)
    BY <1>1 DEF FrameNext, frameVars, EmitStart, EmitStx, EmitPlain,
       EmitDle, EmitDleAgain,
               EmitStop, EmitEtx, EmitNoise, Emit, ChunkEnds,
                  NewParser, transmitter
  <2> QED BY <2>1, <2>2 DEF Feed, Outside, Opening, InBody,
     AfterDle
<1>2. IInv /\ [FrameNext]_frameVars =>
        [pos = "etx" /\ pos' = "edge" /\ startedIn = "WAIT_DLE"
         /\ Len(sending) <= MaxBodySize => frames' = Append(frames, sending)]_frameVars
  BY <1>1
<1> QED BY <1>2, InvInit, InvNext, PTL DEF FrameSpec, FrameDelivered

HIDE FrameAssumption DEF FrameAssumption

-----------------------------------------------------------------------------
(* Firmware transfer. *)

USE FirmwareAssumption DEF FirmwareAssumption

-----------------------------------------------------------------------------
(* Sequences and block numbers. *)

LEMMA Constants ==
  /\ Blocks \in Nat /\ Blocks >= 1 /\ Tries \in Nat /\ Tries >= 1
  /\ EotTries \in Nat /\ EotTries >= 1
  /\ Modulus \in Nat /\ Modulus >= 3
  /\ Probes \in Nat /\ MaxFaults \in Nat /\ MaxStrays \in Nat
<1>1. Blocks \in Nat \ {0} /\ Tries \in Nat \ {0} /\ EotTries \in Nat \ {0}
  OBVIOUS
<1>2. Probes \in Nat /\ MaxFaults \in Nat /\ MaxStrays \in Nat
  OBVIOUS
<1> QED BY <1>1, <1>2

LEMMA TailFacts ==
  ASSUME NEW S, NEW s \in Seq(S), s # << >>
  PROVE  /\ Head(s) \in S /\ Head(s) = s[1] /\ 1 \in 1 .. Len(s)
         /\ Tail(s) \in Seq(S)
         /\ Len(Tail(s)) \in Nat /\ Len(s) = Len(Tail(s)) + 1
         /\ Len(Tail(s)) = Len(s) - 1 /\ Len(s) >= 1
         /\ \A i \in 1 .. Len(Tail(s)) : i + 1 \in 1 .. Len(s) /\ Tail(s)[i] = s[i + 1]
  OBVIOUS

\* Garbling changes the oldest message alone.
LEMMA FirstFacts ==
  ASSUME NEW S, NEW s \in Seq(S), s # << >>, NEW e \in S
  PROVE  /\ [s EXCEPT ![1] = e] \in Seq(S)
         /\ Len([s EXCEPT ![1] = e]) = Len(s)
         /\ \A i \in 1 .. Len(s) :
              [s EXCEPT ![1] = e][i] = IF i = 1 THEN e ELSE s[i]
  OBVIOUS

\* Numbers less than Modulus apart are told apart by their byte.
LEMMA NearNumbers ==
  ASSUME NEW a \in Nat, NEW b \in Nat, b <= a + 1, a < b + Modulus, SameNumber(a, b)
  PROVE  a = b
<1>1. PICK q \in 0 .. Blocks : a = b + q * Modulus \/ b = a + q * Modulus
  BY DEF SameNumber
<1>2. q \in Nat /\ Modulus \in Nat /\ Modulus >= 3
  BY Constants
<1>3. q >= 1 => q * Modulus >= Modulus
  BY <1>2
<1>4. q * Modulus \in Nat
  BY <1>2
<1>5. q = 0
  BY <1>1, <1>2, <1>3, <1>4
<1> QED BY <1>1, <1>2, <1>5

-----------------------------------------------------------------------------
(* The inductive invariants. *)

\* Where the sender is, and what is on the line before it starts.
Stages ==
  /\ phase \in {"idle", "prompt"} =>
       block = 1 /\ attempt = 0 /\ req = << >> /\ got = 0 /\ boot \in {"firmware", "prompting"}
  /\ phase = "idle" => resp = << >> /\ boot = "firmware"
  /\ phase = "blocks" => block <= Blocks
  /\ phase = "eot" => block = Blocks + 1
  /\ waiting => phase \in {"blocks", "eot"}

\* Packets arrive in the order of their blocks, none older than what the
\* bootloader has, none newer than what the sender has in hand.
Ordered ==
  /\ got <= block
  /\ \A j \in 1 .. Len(req) : got <= req[j].block /\ req[j].block <= block
  /\ \A i, j \in 1 .. Len(req) : i <= j => req[i].block <= req[j].block

\* While the sender runs, packets and responses under way are the one waited
\* for and those that a late response or a repeated prompt left over.
Active == phase \in {"prompt", "blocks", "eot"}

Outstanding ==
  Active => Len(req) + Len(resp)
              <= strays + (IF waiting \/ phase = "prompt" THEN 1 ELSE 0)

\* The k-th message to be read stands for a block that the sender will have
\* passed, by then, by no more than the strays there are.
Lag ==
  /\ block <= got + strays + 1
  /\ Active => \A j \in 1 .. Len(req) :
       block + Len(resp) + j <= req[j].block + strays + 1
  /\ Active /\ block <= Blocks => \A k \in 1 .. Len(resp) :
       resp[k] = "ACK" => block + k <= got + strays + 1

\* The message waited for will count as the acceptance of the last packet.
Unspoiled ==
  /\ waiting
  /\ \/ \E j \in 1 .. Len(req) : req[j].good
     \/ \E k \in 1 .. Len(resp) : resp[k] = "ACK"

\* With no response late nothing is left over when the sender stops or goes on,
\* and the answer to the end of transmission comes from a node that restarts.
Settled ==
  strays = 0 =>
    /\ phase \in {"return", "flashed", "failed"} => req = << >>
    /\ phase = "return" => boot # "receiving"
    /\ phase = "eot" /\ boot = "receiving" =>
         \A k \in 1 .. Len(resp) : resp[k] # "ACK"
    /\ phase = "eot" => \A j \in 1 .. Len(req) : req[j].block = Blocks + 1
    /\ \A k \in 1 .. Len(resp) : resp[k] = "CAN" => boot = "cancelled"

\* Every attempt but the one under way had its own fault or probe.
Counted ==
  strays = 0 /\ boot \in {"prompting", "receiving"} =>
    /\ phase = "blocks" =>
         attempt <= faults + (Probes - probes) + (IF Unspoiled THEN 1 ELSE 0)
    /\ phase = "eot" => attempt <= faults + (IF Unspoiled THEN 1 ELSE 0)
    /\ phase = "failed" /\ boot = "receiving" =>
         faults + Probes >= Tries \/ faults >= EotTries

Bounded == strays + 1 < Modulus => Lag

-----------------------------------------------------------------------------
(* Types, stages and the order of the packets. *)

LEMMA MessageTypes ==
  /\ \A b \in 1 .. Blocks + 1, g \in BOOLEAN : [block |-> b, good |-> g] \in Packet
  /\ {"C", "ACK", "NAK", "CAN", "noise"} \subseteq Bytes
  /\ \A p \in Packet : p.block \in Nat /\ p.block <= Blocks + 1 /\ p.good \in BOOLEAN
  BY Constants DEF Packet, Bytes

Typed == TypeOK /\ Stages /\ Ordered

\* What the bootloader does with a packet.
LEMMA Received ==
  ASSUME TypeOK, Receive
  PROVE  /\ req # << >> /\ req' = Tail(req) /\ UNCHANGED <<sender, faults, strays>>
         /\ \/ /\ boot \notin {"prompting", "receiving"}
               /\ UNCHANGED <<resp, boot, got>>
            \/ /\ boot \in {"prompting", "receiving"} /\ req[1].block = Blocks + 1
               /\ resp' = Append(resp, "ACK") /\ boot' = "firmware" /\ got' = got
            \/ /\ boot \in {"prompting", "receiving"} /\ ~ req[1].good
               /\ req[1].block <= Blocks
               /\ resp' = Append(resp, "NAK") /\ boot' = "receiving" /\ got' = got
            \/ /\ boot \in {"prompting", "receiving"} /\ req[1].good
               /\ req[1].block <= Blocks /\ SameNumber(req[1].block, got + 1)
               /\ resp' = Append(resp, "ACK") /\ boot' = "receiving" /\ got' = got + 1
            \/ /\ boot \in {"prompting", "receiving"} /\ req[1].good
               /\ req[1].block <= Blocks /\ SameNumber(req[1].block, got)
               /\ resp' = Append(resp, "ACK") /\ boot' = "receiving" /\ got' = got
            \/ /\ boot \in {"prompting", "receiving"} /\ req[1].good
               /\ req[1].block <= Blocks
               /\ resp' = Append(resp, "CAN") /\ boot' = "cancelled" /\ got' = got
<1>1. req # << >> /\ req \in Seq(Packet)
  BY DEF Receive, TypeOK
<1>2. Head(req) = req[1]
  BY <1>1, TailFacts
<1> QED BY <1>1, <1>2 DEF Receive, Answer

LEMMA TypedInit == Init => Typed
<1> SUFFICES ASSUME Init PROVE Typed
  OBVIOUS
<1>1. req \in Seq(Packet) /\ resp \in Seq(Bytes) /\ Len(req) = 0 /\ Len(resp) = 0
  BY DEF Init
<1>2. TypeOK
  <2>1. block \in 1 .. Blocks + 1 /\ probes \in 0 .. Probes /\ got \in 0 .. Blocks
        /\ faults \in 0 .. MaxFaults /\ strays \in 0 .. MaxStrays
    BY Constants DEF Init
  <2> QED BY <1>1, <2>1 DEF Init, TypeOK
<1>3. Stages /\ Ordered
  BY <1>1, Constants DEF Init, Stages, Ordered
<1> QED BY <1>2, <1>3 DEF Typed

\* What the next block is, when the bootloader takes one.
LEMMA TakenIsNext ==
  ASSUME Typed, Receive, got' # got
  PROVE  /\ got' = got + 1 /\ got + 1 <= req[1].block /\ req[1].block <= Blocks
         /\ got + 1 <= block
<1>1. /\ got' = got + 1 /\ req[1].block <= Blocks
      /\ SameNumber(req[1].block, got + 1)
      /\ req # << >> /\ req \in Seq(Packet) /\ got \in Nat /\ block \in Nat
  BY Received, Constants DEF Typed, TypeOK
<1>2. 1 \in 1 .. Len(req) /\ req[1].block \in Nat
  BY <1>1, TailFacts, MessageTypes
<1>3. got <= req[1].block /\ req[1].block <= block
  BY <1>2 DEF Typed, Ordered
<1>4. got # req[1].block
  <2> SUFFICES ASSUME got = req[1].block PROVE FALSE
    OBVIOUS
  <2>1. got = got + 1
    BY <1>1, NearNumbers, Constants
  <2> QED BY <1>1, <2>1
<1> QED BY <1>1, <1>2, <1>3, <1>4

LEMMA ReceiveTyped ==
  ASSUME Typed, Receive
  PROVE  TypeOK' /\ Stages'
<1>1. req # << >> /\ req \in Seq(Packet) /\ resp \in Seq(Bytes) /\ req' = Tail(req)
      /\ UNCHANGED <<phase, block, attempt, waiting, probes, faults, strays>>
  BY Received DEF Typed, TypeOK, sender
<1>2. req' \in Seq(Packet)
  BY <1>1, TailFacts
<1>3. resp' \in Seq(Bytes) /\ boot' \in {"firmware", "prompting", "receiving", "cancelled"}
  <2>1. TypeOK
    BY DEF Typed
  <2>2. \/ resp' = resp /\ boot' = boot
        \/ /\ \E b \in {"ACK", "NAK", "CAN"} : resp' = Append(resp, b)
           /\ boot' \in {"firmware", "receiving", "cancelled"}
    BY <2>1, Received
  <2>3. \A b \in {"ACK", "NAK", "CAN"} : Append(resp, b) \in Seq(Bytes)
    BY <1>1, MessageTypes, AppendFacts
  <2> QED BY <1>1, <2>1, <2>2, <2>3 DEF TypeOK
<1>4. got' \in 0 .. Blocks
  <2>1. CASE got' = got
    BY <2>1 DEF Typed, TypeOK
  <2>2. CASE got' # got
    <3>1. got \in Nat /\ 1 \in 1 .. Len(req) /\ req[1].block \in Nat
      BY <1>1, TailFacts, MessageTypes, Constants DEF Typed, TypeOK
    <3> QED BY <2>2, <3>1, TakenIsNext, Constants
  <2> QED BY <2>1, <2>2
<1>5. TypeOK'
  BY <1>1, <1>2, <1>3, <1>4 DEF Typed, TypeOK
<1>6. Stages'
  BY <1>1 DEF Typed, Stages
<1> QED BY <1>5, <1>6

LEMMA AcceptEffect ==
  ASSUME Typed, ReadByte
  PROVE  /\ waiting' = FALSE /\ resp' = Tail(resp) /\ resp # << >>
         /\ waiting /\ phase \in {"blocks", "eot"} /\ resp \in Seq(Bytes)
         /\ UNCHANGED <<probes, req, boot, got, faults, strays>>
         /\ \/ /\ resp[1] = "ACK" /\ phase = "eot" /\ phase' = "return"
               /\ UNCHANGED <<block, attempt>>
            \/ /\ resp[1] = "ACK" /\ phase = "blocks" /\ block' = block + 1
               /\ phase' = (IF block = Blocks THEN "eot" ELSE "blocks")
               /\ attempt' = 0
            \/ /\ resp[1] = "CAN" /\ phase = "blocks" /\ phase' = "failed"
               /\ UNCHANGED <<block, attempt>>
            \/ resp[1] # "ACK" /\ UNCHANGED <<phase, block, attempt>>
<1>1. waiting /\ resp # << >> /\ resp' = Tail(resp) /\ resp \in Seq(Bytes)
      /\ UNCHANGED <<probes, req, boot, got, faults, strays>>
  BY DEF ReadByte, Typed, TypeOK
<1>2. phase \in {"blocks", "eot"}
  BY <1>1 DEF Typed, Stages
<1>3. Head(resp) = resp[1]
  BY <1>1, TailFacts
<1>4. CASE resp[1] = "ACK"
  <2>1. Accept
    BY <1>3, <1>4 DEF ReadByte
  <2> QED BY <1>1, <1>2, <1>4, <2>1 DEF Accept
<1>5. CASE resp[1] = "CAN" /\ phase = "blocks"
  BY <1>1, <1>2, <1>3, <1>5 DEF ReadByte
<1>6. CASE resp[1] # "ACK" /\ ~ (resp[1] = "CAN" /\ phase = "blocks")
  BY <1>1, <1>2, <1>3, <1>6 DEF ReadByte
<1> QED BY <1>4, <1>5, <1>6

LEMMA SendEffect ==
  ASSUME Typed, SendBlock \/ SendEot
  PROVE  /\ phase \in {"blocks", "eot"} /\ ~ waiting /\ waiting' = TRUE
         /\ attempt' = attempt + 1
         /\ UNCHANGED <<phase, block, resp, boot, got, faults, strays>>
         /\ \E p \in Packet :
              /\ req' = Append(req, p) /\ p.block = block
              /\ p.good = (phase = "eot" \/ probes = 0)
         /\ probes' = IF phase = "eot" \/ probes = 0 THEN probes ELSE probes - 1
         /\ phase = "blocks" => attempt < Tries
         /\ phase = "eot" => attempt < EotTries
<1>1. block \in 1 .. Blocks + 1
  BY DEF Typed, TypeOK
<1>2. CASE SendBlock
  <2>1. (probes = 0) \in BOOLEAN
    OBVIOUS
  <2>2. [block |-> block, good |-> probes = 0] \in Packet
    BY <1>1, <2>1, MessageTypes
  <2> QED BY <1>2, <2>2 DEF SendBlock
<1>3. CASE SendEot
  <2>1. [block |-> block, good |-> TRUE] \in Packet
    BY <1>1, MessageTypes
  <2> QED BY <1>3, <2>1 DEF SendEot
<1> QED BY <1>2, <1>3

LEMMA GarbleEffect ==
  ASSUME Typed, GarblePacket
  PROVE  /\ req # << >> /\ req \in Seq(Packet) /\ req' \in Seq(Packet) /\ Len(req') = Len(req)
         /\ req'[1].block = req[1].block /\ req'[1].good = FALSE
         /\ \A i \in 1 .. Len(req) : i # 1 => req'[i] = req[i]
         /\ faults < MaxFaults /\ faults' = faults + 1
         /\ UNCHANGED <<phase, block, attempt, waiting, probes, resp, boot, got, strays>>
<1>1. req # << >> /\ req \in Seq(Packet)
      /\ req' = [req EXCEPT ![1] = [Head(req) EXCEPT !.good = FALSE]]
      /\ faults < MaxFaults /\ faults' = faults + 1
      /\ UNCHANGED <<phase, block, attempt, waiting, probes, resp, boot, got, strays>>
  BY DEF GarblePacket, Fault, Typed, TypeOK, sender
<1>2. 1 \in 1 .. Len(req) /\ Head(req) = req[1] /\ Head(req) \in Packet
  BY <1>1, TailFacts
<1>3. /\ [Head(req) EXCEPT !.good = FALSE] \in Packet
      /\ [Head(req) EXCEPT !.good = FALSE].block = req[1].block
      /\ [Head(req) EXCEPT !.good = FALSE].good = FALSE
  BY <1>2 DEF Packet
<1> QED BY <1>1, <1>2, <1>3, FirstFacts

LEMMA TypedStep ==
  ASSUME Typed, Next
  PROVE  TypeOK' /\ Stages'
<1> USE Constants
<1>0. /\ req \in Seq(Packet) /\ resp \in Seq(Bytes) /\ block \in 1 .. Blocks + 1
      /\ attempt \in Nat
  BY DEF Typed, TypeOK
<1>1. CASE Restart
  <2>1. resp' \in Seq(Bytes)
    BY <1>0, <1>1, MessageTypes, AppendFacts DEF Restart
  <2> QED BY <1>1, <2>1 DEF Restart, Typed, TypeOK, Stages
<1>2. CASE Prompted
  <2>1. resp' \in Seq(Bytes)
    BY <1>0, <1>2, TailFacts DEF Prompted
  <2>2. /\ phase = "prompt" /\ phase' \in {"blocks", "prompt"}
        /\ UNCHANGED <<block, attempt, waiting, probes, req, boot, got, faults, strays>>
    BY <1>2 DEF Prompted
  <2>3. block = 1 /\ attempt = 0
    BY <2>2 DEF Typed, Stages
  <2>4. TypeOK'
    BY <2>1, <2>2, <2>3 DEF Typed, TypeOK
  <2> QED BY <2>2, <2>3, <2>4 DEF Typed, Stages
<1>3. CASE NotPrompted \/ Returned \/ GiveUp \/ PortFails
  <2>1. /\ phase' \in {"failed", "flashed", "broken"} /\ waiting' \in {waiting, FALSE}
        /\ UNCHANGED <<block, attempt, probes, req, resp, boot, got, faults, strays>>
    BY <1>3 DEF NotPrompted, Returned, GiveUp, PortFails, line
  <2>2. waiting' = FALSE
    BY <1>3, <2>1 DEF NotPrompted, Returned, GiveUp, PortFails, Typed, TypeOK, Stages
  <2> QED BY <2>1, <2>2 DEF Typed, TypeOK, Stages
<1>4. CASE SendBlock \/ SendEot
  <2>0. /\ phase \in {"blocks", "eot"} /\ waiting' = TRUE /\ attempt' = attempt + 1
        /\ UNCHANGED <<phase, block, resp, boot, got, faults, strays>>
        /\ phase = "blocks" => attempt < Tries
        /\ phase = "eot" => attempt < EotTries
    BY <1>4, SendEffect
  <2>1. req' \in Seq(Packet)
    <3>1. PICK p \in Packet : req' = Append(req, p)
      BY <1>4, SendEffect
    <3> QED BY <1>0, <3>1, AppendFacts
  <2>2. probes' \in 0 .. Probes
    <3>1. probes' = probes \/ (probes # 0 /\ probes' = probes - 1)
      BY <1>4, SendEffect
    <3> QED BY <3>1 DEF Typed, TypeOK
  <2>3. TypeOK'
    BY <1>0, <2>0, <2>1, <2>2 DEF Typed, TypeOK
  <2> QED BY <2>0, <2>3 DEF Typed, Stages
<1>5. CASE ReadByte
  <2>1. resp' \in Seq(Bytes)
    BY <1>5, AcceptEffect, TailFacts
  <2>2. phase = "blocks" => block + 1 \in 1 .. Blocks + 1
    BY <1>0 DEF Typed, Stages
  <2>3. /\ waiting' = FALSE /\ phase \in {"blocks", "eot"}
        /\ UNCHANGED <<probes, req, boot, got, faults, strays>>
    BY <1>5, AcceptEffect
  <2>4. \/ UNCHANGED <<block, attempt>> /\ phase' \in {phase, "return", "failed"}
        \/ /\ phase = "blocks" /\ block' = block + 1 /\ attempt' = 0
           /\ phase' = IF block = Blocks THEN "eot" ELSE "blocks"
    BY <1>5, AcceptEffect
  <2>5. TypeOK'
    <3>1. block' \in 1 .. Blocks + 1 /\ attempt' \in Nat
      BY <1>0, <2>2, <2>4
    <3>2. /\ phase' = "blocks" => attempt' <= Tries
          /\ phase' = "eot" => attempt' <= EotTries
      BY <2>3, <2>4 DEF Typed, TypeOK
    <3> QED BY <2>1, <2>3, <2>4, <3>1, <3>2 DEF Typed, TypeOK
  <2>6. Stages'
    BY <1>0, <2>2, <2>3, <2>4 DEF Typed, Stages
  <2> QED BY <2>5, <2>6
<1>6. CASE Timeout
  <2>1. /\ waiting /\ waiting' = FALSE /\ strays' \in 0 .. MaxStrays
        /\ UNCHANGED <<phase, block, attempt, probes, req, resp, boot, got, faults>>
    BY <1>6 DEF Timeout, Typed, TypeOK, line
  <2> QED BY <2>1 DEF Typed, TypeOK, Stages
<1>7. CASE LosePacket
  <2>1. req' \in Seq(Packet)
    BY <1>0, <1>7, TailFacts DEF LosePacket
  <2> QED BY <1>7, <2>1 DEF LosePacket, Fault, Typed, TypeOK, Stages, sender
<1>8. CASE GarblePacket
  <2>1. phase \notin {"idle", "prompt"}
    BY <1>8, GarbleEffect DEF Typed, Stages
  <2>2. /\ req' \in Seq(Packet) /\ faults' \in 0 .. MaxFaults
        /\ UNCHANGED <<phase, block, attempt, waiting, probes, resp, boot, got, strays>>
    <3>1. /\ req' \in Seq(Packet) /\ faults < MaxFaults /\ faults' = faults + 1
          /\ UNCHANGED <<phase, block, attempt, waiting, probes, resp, boot, got, strays>>
      BY <1>8, GarbleEffect
    <3>2. faults' \in 0 .. MaxFaults
      BY <3>1 DEF Typed, TypeOK
    <3> QED BY <3>1, <3>2
  <2> QED BY <2>1, <2>2 DEF Typed, TypeOK, Stages
<1>9. CASE LoseResponse
  <2>1. resp' \in Seq(Bytes)
    BY <1>0, <1>9, TailFacts DEF LoseResponse
  <2> QED BY <1>9, <2>1 DEF LoseResponse, Fault, Typed, TypeOK, Stages, sender
<1>10. CASE GarbleResponse
  <2>1. resp' \in Seq(Bytes)
    BY <1>0, <1>10, MessageTypes, FirstFacts DEF GarbleResponse
  <2> QED BY <1>10, <2>1 DEF GarbleResponse, Fault, Typed, TypeOK, Stages, sender
<1>11. CASE PromptAgain
  <2>1. resp' \in Seq(Bytes)
    BY <1>0, <1>11, MessageTypes, AppendFacts DEF PromptAgain
  <2> QED BY <1>11, <2>1 DEF PromptAgain, Typed, TypeOK, Stages, sender
<1>12. CASE Receive
  BY <1>12, ReceiveTyped
<1> QED
  BY <1>1, <1>2, <1>3, <1>4, <1>5, <1>6, <1>7, <1>8, <1>9, <1>10, <1>11, <1>12
  DEF Next, SenderStep

\* The steps that leave the packets under way alone.
LEMMA OtherSteps ==
  ASSUME Typed, Next,
         ~ (SendBlock \/ SendEot \/ LosePacket \/ GarblePacket \/ Receive)
  PROVE  UNCHANGED <<req, got>> /\ block' \in {block, block + 1}
<1>1. CASE ReadByte
  BY <1>1, AcceptEffect
<1>2. CASE ~ ReadByte
  BY <1>2 DEF Next, SenderStep, Restart, Prompted, NotPrompted, Returned, GiveUp, Timeout,
              PortFails, LoseResponse, GarbleResponse, PromptAgain, line, sender
<1> QED BY <1>1, <1>2

LEMMA OrderedStep ==
  ASSUME Typed, Next
  PROVE  Ordered'
<1>0. req \in Seq(Packet) /\ block \in Nat /\ got \in Nat
      /\ \A j \in 1 .. Len(req) : req[j].block \in Nat
  BY Constants, MessageTypes DEF Typed, TypeOK
<1>1. CASE SendBlock \/ SendEot
  <2>1. PICK p \in Packet : req' = Append(req, p) /\ p.block = block
    BY <1>1, SendEffect
  <2>2. UNCHANGED <<block, got>>
    BY <1>1, SendEffect
  <2>3. \A i \in 1 .. Len(req') :
          \/ i \in 1 .. Len(req) /\ req'[i] = req[i]
          \/ i = Len(req) + 1 /\ req'[i] = p
    BY <1>0, <2>1, AppendFacts
  <2>4. \A i \in 1 .. Len(req') : got <= req'[i].block /\ req'[i].block <= block
    BY <1>0, <2>1, <2>3 DEF Typed, Ordered
  <2>5. ASSUME NEW i \in 1 .. Len(req'), NEW j \in 1 .. Len(req'), i <= j
        PROVE  req'[i].block <= req'[j].block
    <3>1. CASE j \in 1 .. Len(req) /\ req'[j] = req[j]
      <4>1. i \in 1 .. Len(req) /\ req'[i] = req[i]
        BY <1>0, <2>3, <2>5, <3>1
      <4> QED BY <2>5, <3>1, <4>1 DEF Typed, Ordered
    <3>2. CASE req'[j] = p
      BY <2>1, <2>4, <3>2
    <3> QED BY <2>3, <3>1, <3>2
  <2> QED BY <2>2, <2>4, <2>5 DEF Typed, Ordered
<1>2. CASE LosePacket
  <2>1. /\ \A i \in 1 .. Len(req') : i + 1 \in 1 .. Len(req) /\ req'[i] = req[i + 1]
        /\ UNCHANGED <<block, got>>
    BY <1>0, <1>2, TailFacts DEF LosePacket, sender
  <2>2. ASSUME NEW i \in 1 .. Len(req'), NEW j \in 1 .. Len(req'), i <= j
        PROVE  req'[i].block <= req'[j].block
    <3>1. i + 1 <= j + 1
      BY <2>2
    <3> QED BY <2>1, <3>1 DEF Typed, Ordered
  <2> QED BY <1>0, <2>1, <2>2 DEF Typed, Ordered
<1>3. CASE GarblePacket
  <2>1. /\ Len(req') = Len(req) /\ UNCHANGED <<block, got>>
        /\ \A i \in 1 .. Len(req) : req'[i].block = req[i].block
    BY <1>3, GarbleEffect
  <2> QED BY <2>1 DEF Typed, Ordered
<1>4. CASE Receive
  <2>1. req # << >> /\ req' = Tail(req) /\ block' = block
    BY <1>4, Received DEF Typed, sender
  <2>2. /\ \A i \in 1 .. Len(req') : i + 1 \in 1 .. Len(req) /\ req'[i] = req[i + 1]
        /\ 1 \in 1 .. Len(req)
    BY <1>0, <2>1, TailFacts
  <2>3. \A i \in 1 .. Len(req) : req[1].block <= req[i].block
    BY <2>2 DEF Typed, Ordered
  <2>4. got' <= block /\ \A i \in 1 .. Len(req) : got' <= req[i].block
    <3>1. CASE got' = got
      BY <3>1 DEF Typed, Ordered
    <3>2. CASE got' # got
      <4>1. got' = got + 1 /\ got + 1 <= req[1].block /\ got + 1 <= block
        BY <1>4, <3>2, TakenIsNext
      <4> QED BY <1>0, <2>2, <2>3, <4>1
    <3> QED BY <3>1, <3>2
  <2>5. ASSUME NEW i \in 1 .. Len(req'), NEW j \in 1 .. Len(req'), i <= j
        PROVE  req'[i].block <= req'[j].block
    <3>1. i + 1 <= j + 1
      BY <2>5
    <3> QED BY <2>2, <3>1 DEF Typed, Ordered
  <2> QED BY <2>1, <2>2, <2>4, <2>5 DEF Typed, Ordered
<1>5. CASE ~ (SendBlock \/ SendEot \/ LosePacket \/ GarblePacket \/ Receive)
  <2>1. UNCHANGED <<req, got>> /\ block' \in {block, block + 1}
    BY <1>5, OtherSteps
  <2> QED BY <1>0, <2>1 DEF Typed, Ordered
<1> QED BY <1>1, <1>2, <1>3, <1>4, <1>5

LEMMA TypedInv == Spec => []Typed
<1>1. Typed /\ [Next]_vars => Typed'
  <2> SUFFICES ASSUME Typed, [Next]_vars PROVE Typed'
    OBVIOUS
  <2>1. CASE UNCHANGED vars
    BY <2>1 DEF vars, Typed, TypeOK, Stages, Ordered
  <2>2. CASE Next
    BY <2>2, TypedStep, OrderedStep DEF Typed
  <2> QED BY <2>1, <2>2
<1> QED BY <1>1, TypedInit, PTL DEF Spec

\* The variables of the transfer keep their types; that the bootloader never
\* takes more blocks than the image has rests on the order of the packets, and
\* that no block is tried more often than it may be on the retry counts.
THEOREM TypeCorrect == Spec => []TypeOK
<1>1. Typed => TypeOK
  BY DEF Typed
<1> QED BY <1>1, TypedInv, PTL

-----------------------------------------------------------------------------
(* What is under way. *)

LEMMA OutstandingStep ==
  ASSUME Typed, Outstanding, Next
  PROVE  Outstanding'
<1> USE DEF Active
<1>0. /\ req \in Seq(Packet) /\ resp \in Seq(Bytes) /\ Len(req) \in Nat /\ Len(resp) \in Nat
      /\ strays \in Nat
      /\ waiting => phase \in {"blocks", "eot"}
  BY Constants DEF Typed, TypeOK, Stages
<1>1. CASE Restart
  <2>1. req = << >> /\ resp = << >> /\ phase' = "prompt"
        /\ UNCHANGED <<req, strays>> /\ (resp' = Append(resp, "C") \/ resp' = resp)
    BY <1>1 DEF Restart, Typed, Stages
  <2>2. Len(req') = 0 /\ Len(resp') \in Nat /\ Len(resp') <= 1
    <3>1. Len(req) = 0 /\ Len(resp) = 0
      BY <2>1
    <3>2. Len(Append(resp, "C")) = 1
      BY <1>0, <3>1, AppendFacts, MessageTypes
    <3>3. req' = req /\ (resp' = Append(resp, "C") \/ resp' = resp)
      BY <2>1
    <3>4. Len(req') = 0
      BY <3>1, <3>3
    <3>5. CASE resp' = Append(resp, "C")
      BY <3>2, <3>4, <3>5
    <3>6. CASE resp' = resp
      BY <3>1, <3>4, <3>6
    <3> QED BY <3>3, <3>5, <3>6
  <2>3. phase' = "prompt" /\ strays' \in Nat
    BY <1>0, <2>1
  <2> QED BY <2>2, <2>3 DEF Outstanding
<1>2. CASE Prompted
  <2>1. phase = "prompt" /\ UNCHANGED <<req, strays, waiting>> /\ Len(resp) = Len(resp') + 1
        /\ Len(resp') \in Nat
    BY <1>0, <1>2, TailFacts DEF Prompted
  <2> QED BY <1>0, <2>1 DEF Outstanding
<1>3. CASE NotPrompted \/ Returned \/ GiveUp \/ PortFails
  BY <1>3 DEF NotPrompted, Returned, GiveUp, PortFails, Outstanding
<1>4. CASE SendBlock \/ SendEot
  <2>1. PICK p \in Packet : req' = Append(req, p)
    BY <1>4, SendEffect
  <2>2. Len(req') = Len(req) + 1
    BY <1>0, <2>1, AppendFacts
  <2>3. /\ phase \in {"blocks", "eot"} /\ ~ waiting /\ waiting'
        /\ UNCHANGED <<phase, resp, strays>>
    BY <1>4, SendEffect
  <2> QED BY <1>0, <2>2, <2>3 DEF Outstanding
<1>5. CASE ReadByte
  <2>1. /\ phase \in {"blocks", "eot"} /\ phase' # "prompt" /\ ~ waiting'
        /\ UNCHANGED <<req, strays>> /\ resp # << >> /\ resp' = Tail(resp)
    BY <1>5, AcceptEffect
  <2>2. Len(resp) = Len(resp') + 1 /\ Len(resp') \in Nat
    BY <1>0, <2>1, TailFacts
  <2> QED BY <1>0, <2>1, <2>2 DEF Outstanding
<1>6. CASE Timeout
  <2>1. waiting /\ waiting' = FALSE /\ UNCHANGED <<phase, req, resp>>
        /\ \/ req = << >> /\ resp = << >> /\ strays' = strays
           \/ strays' = strays + 1
    BY <1>6 DEF Timeout, line
  <2> QED BY <1>0, <2>1 DEF Outstanding
<1>7. CASE LosePacket
  <2>1. UNCHANGED <<phase, waiting, resp, strays>> /\ Len(req) = Len(req') + 1 /\ Len(req') \in Nat
    BY <1>0, <1>7, TailFacts DEF LosePacket, sender
  <2> QED BY <1>0, <2>1 DEF Outstanding
<1>8. CASE GarblePacket
  <2>1. UNCHANGED <<phase, waiting, resp, strays>> /\ Len(req') = Len(req)
    BY <1>8, GarbleEffect
  <2> QED BY <2>1 DEF Outstanding
<1>9. CASE LoseResponse
  <2>1. UNCHANGED <<phase, waiting, req, strays>> /\ Len(resp) = Len(resp') + 1 /\ Len(resp') \in Nat
    BY <1>0, <1>9, TailFacts DEF LoseResponse, sender
  <2> QED BY <1>0, <2>1 DEF Outstanding
<1>10. CASE GarbleResponse
  <2>1. UNCHANGED <<phase, waiting, req, strays>> /\ Len(resp') = Len(resp)
    BY <1>0, <1>10, FirstFacts, MessageTypes DEF GarbleResponse, sender
  <2> QED BY <2>1 DEF Outstanding
<1>11. CASE PromptAgain
  <2>1. UNCHANGED <<phase, waiting, req>> /\ strays' = strays + 1 /\ Len(resp') = Len(resp) + 1
    BY <1>0, <1>11, AppendFacts, MessageTypes DEF PromptAgain, sender
  <2> QED BY <1>0, <2>1 DEF Outstanding
<1>12. CASE Receive
  <2>1. /\ UNCHANGED <<phase, waiting, strays>> /\ req # << >> /\ req' = Tail(req)
        /\ \/ resp' = resp
           \/ \E b \in {"ACK", "NAK", "CAN"} : resp' = Append(resp, b)
    BY <1>12, Received DEF Typed, sender
  <2>2. Len(resp') \in {Len(resp), Len(resp) + 1}
    BY <1>0, <2>1, MessageTypes, AppendFacts
  <2>3. Len(req) = Len(req') + 1 /\ Len(req') \in Nat
    BY <1>0, <2>1, TailFacts
  <2> QED BY <1>0, <2>1, <2>2, <2>3 DEF Outstanding
<1> QED
  BY <1>1, <1>2, <1>3, <1>4, <1>5, <1>6, <1>7, <1>8, <1>9, <1>10, <1>11, <1>12
  DEF Next, SenderStep

LEMMA OutstandingInv == Spec => []Outstanding
<1>1. Init => Outstanding
  BY DEF Init, Outstanding, Active
<1>2. Typed /\ Outstanding /\ [Next]_vars => Outstanding'
  <2> SUFFICES ASSUME Typed, Outstanding, [Next]_vars PROVE Outstanding'
    OBVIOUS
  <2>1. CASE UNCHANGED vars
    BY <2>1 DEF vars, Outstanding, Active
  <2> QED BY <2>1, OutstandingStep
<1> QED BY <1>1, <1>2, TypedInv, PTL DEF Spec

-----------------------------------------------------------------------------
(* How far the sender may be ahead. *)

\* The bytes the sender reads next but one, and so on.
LEMMA LagTail ==
  ASSUME Typed, Lag, resp # << >>, resp' = Tail(resp),
         UNCHANGED <<req, got, strays>>,
         \/ block' = block
         \/ block' = block + 1 /\ resp[1] = "ACK" /\ block <= Blocks /\ Active,
         phase' \in {"blocks", "eot", "prompt"} => Active
  PROVE  Lag'
<1>0. /\ resp \in Seq(Bytes) /\ block \in Nat /\ got \in Nat /\ strays \in Nat /\ Blocks \in Nat
      /\ Len(resp) \in Nat
      /\ \A j \in 1 .. Len(req) : req[j].block \in Nat
  BY Constants, MessageTypes DEF Typed, TypeOK
<1>1. /\ 1 \in 1 .. Len(resp) /\ Len(resp') = Len(resp) - 1 /\ Len(resp) >= 1
      /\ \A k \in 1 .. Len(resp') : k + 1 \in 1 .. Len(resp) /\ resp'[k] = resp[k + 1]
  BY <1>0, TailFacts
<1>2. block' = block \/ block' = block + 1
  OBVIOUS
<1>3. block' <= got + strays + 1
  <2>1. CASE block' = block
    BY <2>1 DEF Lag
  <2>2. CASE block' # block
    <3>1. block + 1 <= got + strays + 1
      BY <1>1, <2>2 DEF Lag
    <3> QED BY <2>2, <3>1
  <2> QED BY <2>1, <2>2
<1>4. ASSUME Active', NEW j \in 1 .. Len(req)
      PROVE  block' + Len(resp') + j <= req[j].block + strays + 1
  <2>1. block + Len(resp) + j <= req[j].block + strays + 1 /\ req[j].block \in Nat /\ j \in Nat
    BY <1>0, <1>4 DEF Lag, Active
  <2>2. \A b, l, i, m \in Nat : l >= 1 /\ b + l + i <= m
          => b + (l - 1) + i <= m /\ (b + 1) + (l - 1) + i <= m
    OBVIOUS
  <2>3. req[j].block + strays + 1 \in Nat
    BY <1>0, <2>1
  <2>4. /\ block + (Len(resp) - 1) + j <= req[j].block + strays + 1
        /\ (block + 1) + (Len(resp) - 1) + j <= req[j].block + strays + 1
    BY <1>0, <1>1, <2>1, <2>2, <2>3
  <2> QED BY <1>1, <1>2, <2>4
<1>5. ASSUME Active', NEW k \in 1 .. Len(resp'), block' <= Blocks, resp'[k] = "ACK"
      PROVE  block' + k <= got + strays + 1
  <2>1. block <= Blocks
    BY <1>0, <1>2, <1>5
  <2>2. block + (k + 1) <= got + strays + 1
    BY <1>1, <1>5, <2>1 DEF Lag, Active
  <2>3. CASE block' = block
    BY <1>0, <2>2, <2>3
  <2>4. CASE block' = block + 1
    BY <1>0, <2>2, <2>4
  <2> QED BY <1>2, <2>3, <2>4
<1> QED BY <1>3, <1>4, <1>5 DEF Lag

\* A late or unexpected response widens what is allowed.
LEMMA LagStray ==
  ASSUME Typed, Lag, Outstanding, UNCHANGED <<req, resp, got, block>>,
         strays' = strays \/ strays' = strays + 1, Active' => Active
  PROVE  Lag'
<1>0. /\ block \in Nat /\ got \in Nat /\ strays \in Nat /\ Len(resp) \in Nat
      /\ \A j \in 1 .. Len(req) : req[j].block \in Nat
  BY Constants, MessageTypes DEF Typed, TypeOK
<1>1. \A j \in 1 .. Len(req) : j \in Nat
  OBVIOUS
<1>2. \A k \in 1 .. Len(resp) : k \in Nat
  OBVIOUS
<1>3. ASSUME NEW j \in 1 .. Len(req), Active'
      PROVE  block + Len(resp) + j <= req[j].block + strays' + 1
  <2>1. block + Len(resp) + j <= req[j].block + strays + 1
    BY <1>3 DEF Lag
  <2> QED BY <1>0, <1>1, <2>1
<1>4. ASSUME NEW k \in 1 .. Len(resp), Active', block <= Blocks, resp[k] = "ACK"
      PROVE  block + k <= got + strays' + 1
  <2>1. block + k <= got + strays + 1
    BY <1>4 DEF Lag
  <2> QED BY <1>0, <1>2, <2>1
<1>5. block <= got + strays' + 1
  BY <1>0 DEF Lag
<1> QED BY <1>3, <1>4, <1>5 DEF Lag

LEMMA LagReceive ==
  ASSUME Typed, Lag, strays + 1 < Modulus, Receive
  PROVE  Lag'
<1>0. /\ req \in Seq(Packet) /\ resp \in Seq(Bytes) /\ block \in Nat /\ got \in Nat
      /\ strays \in Nat /\ Blocks \in Nat /\ Modulus \in Nat /\ Len(resp) \in Nat
      /\ \A j \in 1 .. Len(req) : req[j].block \in Nat
  BY Constants, MessageTypes DEF Typed, TypeOK
<1>1. /\ req # << >> /\ req' = Tail(req) /\ UNCHANGED <<phase, block, strays>>
      /\ \/ UNCHANGED <<resp, got>>
         \/ resp' = Append(resp, "ACK") /\ got' = got /\ req[1].block = Blocks + 1
         \/ got' = got /\ \E b \in {"NAK", "CAN"} : resp' = Append(resp, b)
         \/ /\ resp' = Append(resp, "ACK") /\ got' \in {got, got + 1}
            /\ SameNumber(req[1].block, got')
  BY Received DEF Typed, sender
<1>2. /\ 1 \in 1 .. Len(req)
      /\ \A j \in 1 .. Len(req') : j + 1 \in 1 .. Len(req) /\ req'[j] = req[j + 1]
  BY <1>0, <1>1, TailFacts
<1>3. got' = got \/ got' = got + 1
  BY <1>1
<1>4. Len(resp') = Len(resp) \/ Len(resp') = Len(resp) + 1
  <2>1. \A b \in Bytes : Len(Append(resp, b)) = Len(resp) + 1
    BY <1>0, AppendFacts
  <2> QED BY <1>0, <1>1, <2>1, MessageTypes
<1>5. ASSUME NEW j \in 1 .. Len(req'), Active
      PROVE  block + Len(resp') + j <= req'[j].block + strays + 1
  <2>1. block + Len(resp) + (j + 1) <= req[j + 1].block + strays + 1
    BY <1>2, <1>5 DEF Lag
  <2>2. req'[j] = req[j + 1] /\ req[j + 1].block \in Nat /\ j \in Nat
    <3>1. j + 1 \in 1 .. Len(req) /\ req'[j] = req[j + 1]
      BY <1>2
    <3>2. req[j + 1].block \in Nat
      BY <1>0, <3>1
    <3>3. j \in Nat
      OBVIOUS
    <3> QED BY <3>1, <3>2, <3>3
  <2>3. \A m, l \in Nat : block + l + (j + 1) <= m + strays + 1
         => block + l + j <= m + strays + 1 /\ block + (l + 1) + j <= m + strays + 1
    BY <1>0, <2>2
  <2>4. /\ block + Len(resp) + j <= req[j + 1].block + strays + 1
        /\ block + (Len(resp) + 1) + j <= req[j + 1].block + strays + 1
    BY <1>0, <2>1, <2>2, <2>3
  <2> QED BY <1>4, <2>2, <2>4
<1>6. ASSUME NEW k \in 1 .. Len(resp'), Active, block <= Blocks, resp'[k] = "ACK"
      PROVE  block + k <= got' + strays + 1
  <2>1. CASE k \in 1 .. Len(resp) /\ resp'[k] = resp[k]
    <3>1. block + k <= got + strays + 1
      BY <1>6, <2>1 DEF Lag
    <3> QED BY <1>0, <1>3, <2>1, <3>1
  <2>2. CASE k = Len(resp) + 1 /\ resp' = Append(resp, "ACK")
    <3>1. got <= req[1].block /\ req[1].block <= block
      BY <1>2 DEF Typed, Ordered
    <3>2. got' \in {got, got + 1} /\ SameNumber(req[1].block, got')
      BY <1>0, <1>1, <1>6, <2>2, <3>1, AppendFacts
    <3>3. req[1].block < got' + Modulus
      <4>1. block <= got + strays + 1 /\ req[1].block \in Nat
        BY <1>0, <1>2 DEF Lag
      <4>2. \A p \in Nat : p <= block /\ block <= got + strays + 1
              => p < got + Modulus /\ p < (got + 1) + Modulus
        BY <1>0
      <4> QED BY <1>3, <3>1, <4>1, <4>2
    <3>4. req[1].block = got'
      <4>1. req[1].block \in Nat
        BY <1>0, <1>2
      <4>2. \A p \in Nat : got <= p => got <= p + 1 /\ got + 1 <= p + 1
        BY <1>0
      <4>3. got' <= req[1].block + 1 /\ got' \in Nat
        <5>1. got <= req[1].block + 1 /\ got + 1 <= req[1].block + 1
          BY <3>1, <4>1, <4>2
        <5> QED BY <1>0, <1>3, <5>1
      <4> QED BY <3>2, <3>3, <4>1, <4>3, NearNumbers
    <3>5. block + Len(resp) + 1 <= req[1].block + strays + 1
      BY <1>2, <1>6 DEF Lag
    <3> QED BY <1>0, <2>2, <3>4, <3>5
  <2>3. CASE resp' = resp
    BY <1>6, <2>1, <2>3
  <2>4. CASE \E b \in {"NAK", "CAN", "ACK"} : resp' = Append(resp, b)
    <3>1. PICK b \in {"NAK", "CAN", "ACK"} : resp' = Append(resp, b)
      BY <2>4
    <3>2. \/ k \in 1 .. Len(resp) /\ resp'[k] = resp[k]
          \/ k = Len(resp) + 1 /\ resp'[k] = b
      BY <1>0, <3>1, MessageTypes, AppendFacts
    <3> QED BY <1>6, <2>1, <2>2, <3>1, <3>2
  <2> QED BY <1>1, <2>3, <2>4
<1>7. block <= got' + strays + 1
  BY <1>0, <1>3 DEF Lag
<1> QED BY <1>1, <1>5, <1>6, <1>7 DEF Lag, Active

LEMMA LagStep ==
  ASSUME Typed, Outstanding, Lag, strays + 1 < Modulus, Next
  PROVE  Lag'
<1>0. /\ req \in Seq(Packet) /\ resp \in Seq(Bytes) /\ block \in Nat /\ got \in Nat
      /\ strays \in Nat /\ Blocks \in Nat /\ Len(resp) \in Nat /\ Len(req) \in Nat
      /\ \A j \in 1 .. Len(req) : req[j].block \in Nat
  BY Constants, MessageTypes DEF Typed, TypeOK
<1>1. CASE Restart
  <2>1. req = << >> /\ resp = << >> /\ UNCHANGED <<block, req, got, strays>>
        /\ (resp' = Append(resp, "C") \/ resp' = resp)
    BY <1>1 DEF Restart, Typed, Stages
  <2>2. \A k \in 1 .. Len(resp') : resp'[k] # "ACK"
    <3>1. Len(resp) = 0
      BY <2>1
    <3>2. "C" \in Bytes
      BY MessageTypes
    <3>3. \A k \in 1 .. Len(Append(resp, "C")) : Append(resp, "C")[k] = "C"
      BY <1>0, <3>1, <3>2, AppendFacts
    <3>4. CASE resp' = Append(resp, "C")
      BY <3>3, <3>4
    <3>5. CASE resp' = resp
      BY <3>1, <3>5
    <3> QED BY <2>1, <3>4, <3>5
  <2> QED BY <1>0, <2>1, <2>2 DEF Lag
<1>2. CASE Prompted
  BY <1>2, LagTail DEF Prompted, Active
<1>3. CASE NotPrompted \/ Returned \/ GiveUp \/ PortFails
  BY <1>0, <1>3, LagStray DEF NotPrompted, Returned, GiveUp, PortFails, line, Active
<1>4. CASE SendBlock \/ SendEot
  <2>1. PICK p \in Packet : req' = Append(req, p) /\ p.block = block
    BY <1>4, SendEffect
  <2>2. /\ phase \in {"blocks", "eot"} /\ ~ waiting
        /\ UNCHANGED <<phase, block, resp, got, strays>>
    BY <1>4, SendEffect
  <2>3. ASSUME NEW j \in 1 .. Len(req')
        PROVE  block + Len(resp) + j <= req'[j].block + strays + 1
    <3>1. CASE j \in 1 .. Len(req) /\ req'[j] = req[j]
      BY <2>2, <3>1 DEF Lag, Active
    <3>2. CASE j = Len(req) + 1 /\ req'[j] = p
      <4>1. Len(req) + Len(resp) <= strays
        BY <1>0, <2>2 DEF Outstanding, Active
      <4> QED BY <1>0, <2>1, <3>2, <4>1
    <3> QED BY <1>0, <2>1, <3>1, <3>2, AppendFacts
  <2> QED BY <2>2, <2>3 DEF Lag, Active
<1>5. CASE ReadByte
  <2>1. /\ resp' = Tail(resp) /\ resp # << >> /\ phase \in {"blocks", "eot"}
        /\ UNCHANGED <<req, got, strays>>
        /\ \/ block' = block
           \/ block' = block + 1 /\ resp[1] = "ACK" /\ phase = "blocks"
    BY <1>5, AcceptEffect
  <2>2. phase = "blocks" => block <= Blocks
    BY DEF Typed, Stages
  <2> QED BY <2>1, <2>2, LagTail DEF Active
<1>6. CASE Timeout
  <2>1. UNCHANGED <<phase, req, resp, got, block>> /\ (strays' = strays \/ strays' = strays + 1)
    BY <1>6 DEF Timeout, line
  <2> QED BY <2>1, LagStray DEF Active
<1>7. CASE LosePacket
  <2>1. /\ \A j \in 1 .. Len(req') : j + 1 \in 1 .. Len(req) /\ req'[j] = req[j + 1]
        /\ UNCHANGED <<phase, block, resp, got, strays>>
    BY <1>0, <1>7, TailFacts DEF LosePacket, sender
  <2>2. ASSUME NEW j \in 1 .. Len(req'), Active
        PROVE  block + Len(resp) + j <= req'[j].block + strays + 1
    <3>1. block + Len(resp) + (j + 1) <= req[j + 1].block + strays + 1
      BY <2>1, <2>2 DEF Lag
    <3>2. req'[j] = req[j + 1] /\ req[j + 1].block \in Nat /\ j \in Nat
      <4>1. j + 1 \in 1 .. Len(req) /\ req'[j] = req[j + 1]
        BY <2>1
      <4>2. req[j + 1].block \in Nat
        BY <1>0, <4>1
      <4>3. j \in Nat
        OBVIOUS
      <4> QED BY <4>1, <4>2, <4>3
    <3>3. \A m \in Nat : block + Len(resp) + (j + 1) <= m + strays + 1
                         => block + Len(resp) + j <= m + strays + 1
      BY <1>0, <3>2
    <3> QED BY <3>1, <3>2, <3>3
  <2> QED BY <2>1, <2>2 DEF Lag, Active
<1>8. CASE GarblePacket
  <2>1. /\ Len(req') = Len(req) /\ UNCHANGED <<phase, block, resp, got, strays>>
        /\ \A i \in 1 .. Len(req) : req'[i].block = req[i].block
    BY <1>8, GarbleEffect
  <2> QED BY <2>1 DEF Lag, Active
<1>9. CASE LoseResponse
  BY <1>9, LagTail DEF LoseResponse, sender, Active
<1>10. CASE GarbleResponse
  <2>1. UNCHANGED <<phase, block, req, got, strays>> /\ Len(resp') = Len(resp)
        /\ \A k \in 1 .. Len(resp) : resp'[k] = IF k = 1 THEN "noise" ELSE resp[k]
    BY <1>0, <1>10, FirstFacts, MessageTypes DEF GarbleResponse, sender
  <2> QED BY <2>1 DEF Lag, Active
<1>11. CASE PromptAgain
  <2>1. UNCHANGED <<phase, block, req, got>> /\ strays' = strays + 1
        /\ resp' = Append(resp, "C")
    BY <1>11 DEF PromptAgain, sender
  <2>2. /\ Len(resp') = Len(resp) + 1
        /\ \A k \in 1 .. Len(resp') :
             \/ k \in 1 .. Len(resp) /\ resp'[k] = resp[k]
             \/ resp'[k] = "C"
    BY <1>0, <2>1, AppendFacts, MessageTypes
  <2>3. ASSUME NEW j \in 1 .. Len(req), Active
        PROVE  block + Len(resp') + j <= req[j].block + strays' + 1
    <3>1. block + Len(resp) + j <= req[j].block + strays + 1
      BY <2>3 DEF Lag
    <3>2. req[j].block \in Nat /\ j \in Nat
      BY <1>0
    <3>3. \A m \in Nat : block + Len(resp) + j <= m + strays + 1
            => block + (Len(resp) + 1) + j <= m + (strays + 1) + 1
      BY <1>0, <3>2
    <3>4. block + (Len(resp) + 1) + j <= req[j].block + (strays + 1) + 1
      BY <3>1, <3>2, <3>3
    <3> QED BY <2>1, <2>2, <3>4
  <2>4. ASSUME NEW k \in 1 .. Len(resp'), Active, block <= Blocks, resp'[k] = "ACK"
        PROVE  block + k <= got + strays' + 1
    <3>1. k \in 1 .. Len(resp) /\ block + k <= got + strays + 1
      BY <2>2, <2>4 DEF Lag
    <3> QED BY <1>0, <2>1, <3>1
  <2>5. block <= got + strays' + 1
    BY <1>0, <2>1 DEF Lag
  <2> QED BY <2>1, <2>3, <2>4, <2>5 DEF Lag, Active
<1>12. CASE Receive
  BY <1>12, LagReceive
<1> QED
  BY <1>1, <1>2, <1>3, <1>4, <1>5, <1>6, <1>7, <1>8, <1>9, <1>10, <1>11, <1>12
  DEF Next, SenderStep

LEMMA StraysGrow ==
  ASSUME Typed, Next
  PROVE  strays' = strays \/ strays' = strays + 1
<1>1. CASE ReadByte
  BY <1>1, AcceptEffect
<1>2. CASE SendBlock \/ SendEot
  BY <1>2, SendEffect
<1>3. CASE ~ (ReadByte \/ SendBlock \/ SendEot)
  BY <1>3 DEF Next, SenderStep, Restart, Prompted, NotPrompted, Returned, GiveUp, Timeout,
              PortFails, LosePacket, GarblePacket, LoseResponse, GarbleResponse,
              PromptAgain, Receive
<1> QED BY <1>1, <1>2, <1>3

\* The sender is never further ahead of the bootloader than the number of
\* responses that came late or unasked, for every image size and every number
\* of faults, while these are too few to wrap the block number: a complete
\* transfer without late responses is complete on the node.
THEOREM LeadIsBounded == Spec => []LeadBounded
<1>1. Init => Bounded
  BY Constants DEF Init, Bounded, Lag, Active
<1>2. Typed /\ Outstanding /\ Bounded /\ [Next]_vars => Bounded'
  <2> SUFFICES ASSUME Typed, Outstanding, Bounded, [Next]_vars, (strays + 1 < Modulus)'
               PROVE  Lag'
    BY DEF Bounded
  <2>1. CASE UNCHANGED vars
    BY <2>1 DEF vars, Bounded, Lag, Active
  <2>2. CASE Next
    <3>1. strays \in Nat /\ Modulus \in Nat
      BY Constants DEF Typed, TypeOK
    <3>2. strays + 1 < Modulus
      BY <2>2, <3>1, StraysGrow
    <3> QED BY <2>2, <3>2, LagStep DEF Bounded
  <2> QED BY <2>1, <2>2
<1>3. Typed /\ Bounded => LeadBounded
  <2> SUFFICES ASSUME Typed, Lag PROVE block - 1 <= got + strays
    BY DEF Bounded, LeadBounded
  <2>1. block \in Nat /\ got \in Nat /\ strays \in Nat
    BY Constants DEF Typed, TypeOK
  <2> QED BY <2>1 DEF Lag
<1> QED BY <1>1, <1>2, <1>3, TypedInv, OutstandingInv, PTL DEF Spec

-----------------------------------------------------------------------------
(* How many faults end a transfer. *)

LEMMA OneUnderWay ==
  ASSUME Typed, Outstanding, strays = 0, phase \in {"blocks", "eot"}
  PROVE  /\ resp # << >> => req = << >> /\ Len(resp) = 1
         /\ req # << >> => resp = << >> /\ Len(req) = 1
         /\ ~ waiting => req = << >> /\ resp = << >>
<1>1. /\ req \in Seq(Packet) /\ resp \in Seq(Bytes) /\ Len(req) \in Nat /\ Len(resp) \in Nat
      /\ Len(req) + Len(resp) <= IF waiting THEN 1 ELSE 0
  BY DEF Typed, TypeOK, Outstanding, Active
<1>2. /\ \A s \in Seq(Packet) : Len(s) = 0 => s = << >>
      /\ \A s \in Seq(Bytes) : Len(s) = 0 => s = << >>
  OBVIOUS
<1>3. \A m, n \in Nat : m + n <= 1 => m = 0 \/ (m = 1 /\ n = 0)
  OBVIOUS
<1>4. \A m, n \in Nat : m + n <= 0 => m = 0 /\ n = 0
  OBVIOUS
<1>5. ~ waiting => req = << >> /\ resp = << >>
  BY <1>1, <1>2, <1>4
<1>6. Len(req) = 0 \/ (Len(req) = 1 /\ Len(resp) = 0)
  BY <1>1, <1>3, <1>4
<1>7. Len(resp) = 0 \/ (Len(resp) = 1 /\ Len(req) = 0)
  <2>1. Len(resp) + Len(req) <= IF waiting THEN 1 ELSE 0
    BY <1>1
  <2> QED BY <1>1, <1>3, <1>4, <2>1
<1> QED BY <1>1, <1>2, <1>5, <1>6, <1>7

LEMMA SettledReceive ==
  ASSUME Typed, Settled, strays = 0, Receive
  PROVE  Settled'
<1>0. req \in Seq(Packet) /\ resp \in Seq(Bytes)
  BY DEF Typed, TypeOK
<1>1. req # << >> /\ req' = Tail(req) /\ UNCHANGED <<phase, strays>>
  BY Received DEF Typed, sender
<1>2. phase \notin {"return", "flashed", "failed"}
  BY <1>1 DEF Settled
<1>3. /\ 1 \in 1 .. Len(req)
      /\ \A j \in 1 .. Len(req') : j + 1 \in 1 .. Len(req) /\ req'[j] = req[j + 1]
  BY <1>0, <1>1, TailFacts
<1>4. phase = "eot" /\ boot' = "receiving" => FALSE
  <2>1. phase = "eot" => req[1].block = Blocks + 1 /\ Blocks \in Nat
    BY <1>3, Constants DEF Settled
  <2>2. phase = "eot" => ~ (req[1].block <= Blocks)
    BY <2>1
  <2>3. boot' = "receiving" => req[1].block <= Blocks
    BY Received DEF Typed
  <2> QED BY <2>2, <2>3
<1>5. ASSUME NEW k \in 1 .. Len(resp'), resp'[k] = "CAN"
      PROVE  boot' = "cancelled"
  <2>1. CASE boot \notin {"prompting", "receiving"}
    <3>1. UNCHANGED <<resp, boot>>
      BY <2>1, Received DEF Typed
    <3> QED BY <1>5, <3>1 DEF Settled
  <2>2. CASE boot \in {"prompting", "receiving"}
    <3>1. PICK b \in {"ACK", "NAK", "CAN"} :
            resp' = Append(resp, b) /\ (b = "CAN" => boot' = "cancelled")
      BY <2>2, Received DEF Typed
    <3>2. \/ k \in 1 .. Len(resp) /\ resp'[k] = resp[k]
          \/ k = Len(resp) + 1 /\ resp'[k] = b
      BY <1>0, <3>1, AppendFacts, MessageTypes
    <3>3. \A m \in 1 .. Len(resp) : resp[m] # "CAN"
      BY <2>2 DEF Settled
    <3> QED BY <1>5, <3>1, <3>2, <3>3
  <2> QED BY <2>1, <2>2
<1> QED BY <1>1, <1>2, <1>3, <1>4, <1>5 DEF Settled

LEMMA SettledStep ==
  ASSUME Typed, Outstanding, Settled, strays = 0, strays' = 0, Next
  PROVE  Settled'
<1>0. req \in Seq(Packet) /\ resp \in Seq(Bytes)
  BY DEF Typed, TypeOK
<1>1. CASE Restart
  <2>1. /\ resp = << >> /\ phase' = "prompt"
        /\ (resp' = Append(resp, "C") \/ resp' = resp)
    BY <1>1 DEF Restart, Typed, Stages
  <2>2. \A k \in 1 .. Len(Append(resp, "C")) : Append(resp, "C")[k] = "C"
    <3>1. Len(resp) = 0
      BY <2>1
    <3> QED BY <1>0, <3>1, AppendFacts, MessageTypes
  <2>3. \A k \in 1 .. Len(resp') : resp'[k] # "CAN"
    <3>1. CASE resp' = Append(resp, "C")
      BY <2>2, <3>1
    <3>2. CASE resp' = resp
      BY <2>1, <3>2
    <3> QED BY <2>1, <3>1, <3>2
  <2> QED BY <2>1, <2>3 DEF Settled
<1>2. CASE Prompted
  <2>1. /\ phase' \in {"blocks", "prompt"} /\ boot' = boot
        /\ \A k \in 1 .. Len(resp') : k + 1 \in 1 .. Len(resp) /\ resp'[k] = resp[k + 1]
    BY <1>0, <1>2, TailFacts DEF Prompted
  <2> QED BY <2>1 DEF Settled
<1>3. CASE NotPrompted \/ Returned \/ GiveUp \/ PortFails
  <2>1. /\ phase' \in {"failed", "flashed", "broken"} /\ UNCHANGED <<req, resp, boot>>
    BY <1>3 DEF NotPrompted, Returned, GiveUp, PortFails, line
  <2>2. phase' # "broken" => req = << >>
    <3>1. CASE NotPrompted
      BY <3>1 DEF NotPrompted, Typed, Stages
    <3>2. CASE Returned
      BY <3>2 DEF Returned, Settled
    <3>3. CASE GiveUp
      BY <3>3, OneUnderWay DEF GiveUp
    <3>4. CASE PortFails
      BY <3>4 DEF PortFails
    <3> QED BY <1>3, <3>1, <3>2, <3>3, <3>4
  <2> QED BY <2>1, <2>2 DEF Settled
<1>4. CASE SendBlock \/ SendEot
  <2>1. PICK p \in Packet : req' = Append(req, p) /\ p.block = block
    BY <1>4, SendEffect
  <2>2. phase \in {"blocks", "eot"} /\ UNCHANGED <<phase, block, resp, boot>>
    BY <1>4, SendEffect
  <2>3. ASSUME phase = "eot", NEW j \in 1 .. Len(req')
        PROVE  req'[j].block = Blocks + 1
    <3>1. \/ j \in 1 .. Len(req) /\ req'[j] = req[j]
          \/ j = Len(req) + 1 /\ req'[j] = p
      BY <1>0, <2>1, AppendFacts
    <3> QED BY <2>1, <2>3, <3>1 DEF Settled, Typed, Stages
  <2> QED BY <2>2, <2>3 DEF Settled
<1>5. CASE ReadByte
  <2>1. /\ phase \in {"blocks", "eot"} /\ resp # << >> /\ resp' = Tail(resp)
        /\ UNCHANGED <<req, boot>>
        /\ phase' = "return" => phase = "eot" /\ resp[1] = "ACK"
    BY <1>5, AcceptEffect
  <2>2. req' = << >> /\ Len(resp) = 1
    BY <2>1, OneUnderWay
  <2>3. Len(resp') = 0 /\ 1 \in 1 .. Len(resp)
    BY <1>0, <2>1, <2>2, TailFacts
  <2>4. phase' = "return" => boot' # "receiving"
    BY <2>1, <2>3 DEF Settled
  <2> QED BY <2>2, <2>3, <2>4 DEF Settled
<1>6. CASE Timeout
  BY <1>6 DEF Timeout, line, Settled
<1>7. CASE LosePacket
  <2>1. /\ UNCHANGED <<phase, resp, boot>> /\ req # << >>
        /\ \A j \in 1 .. Len(req') : j + 1 \in 1 .. Len(req) /\ req'[j] = req[j + 1]
    BY <1>0, <1>7, TailFacts DEF LosePacket, sender
  <2> QED BY <2>1 DEF Settled
<1>8. CASE GarblePacket
  <2>1. /\ req # << >> /\ Len(req') = Len(req) /\ UNCHANGED <<phase, resp, boot>>
        /\ \A i \in 1 .. Len(req) : req'[i].block = req[i].block
    BY <1>8, GarbleEffect
  <2> QED BY <2>1 DEF Settled
<1>9. CASE LoseResponse
  <2>1. /\ UNCHANGED <<phase, req, boot>>
        /\ \A k \in 1 .. Len(resp') : k + 1 \in 1 .. Len(resp) /\ resp'[k] = resp[k + 1]
    BY <1>0, <1>9, TailFacts DEF LoseResponse, sender
  <2> QED BY <2>1 DEF Settled
<1>10. CASE GarbleResponse
  <2>1. UNCHANGED <<phase, req, boot>> /\ Len(resp') = Len(resp)
        /\ \A k \in 1 .. Len(resp) : resp'[k] = IF k = 1 THEN "noise" ELSE resp[k]
    BY <1>0, <1>10, FirstFacts, MessageTypes DEF GarbleResponse, sender
  <2> QED BY <2>1 DEF Settled
<1>11. CASE PromptAgain
  BY <1>11 DEF PromptAgain
<1>12. CASE Receive
  BY <1>12, SettledReceive
<1> QED
  BY <1>1, <1>2, <1>3, <1>4, <1>5, <1>6, <1>7, <1>8, <1>9, <1>10, <1>11, <1>12
  DEF Next, SenderStep

LEMMA SettledInv == Spec => []Settled
<1>1. Init => Settled
  BY DEF Init, Settled
<1>2. Typed /\ Outstanding /\ Settled /\ [Next]_vars => Settled'
  <2> SUFFICES ASSUME Typed, Outstanding, Settled, [Next]_vars, strays' = 0 PROVE Settled'
    BY DEF Settled
  <2>1. CASE UNCHANGED vars
    BY <2>1 DEF vars, Settled
  <2>2. CASE Next
    <3>1. strays = 0
      <4>1. strays \in Nat /\ (strays' = strays \/ strays' = strays + 1)
        BY <2>2, StraysGrow DEF Typed, TypeOK
      <4> QED BY <4>1
    <3> QED BY <2>2, <3>1, SettledStep
  <2> QED BY <2>1, <2>2
<1> QED BY <1>1, <1>2, TypedInv, OutstandingInv, PTL DEF Spec

\* A packet taken without objection is answered by an acceptance.
LEMMA UnspoiledReceive ==
  ASSUME Typed, Outstanding, Settled, strays = 0, phase \in {"blocks", "eot"},
         Receive, boot' \in {"prompting", "receiving"}, Unspoiled
  PROVE  Unspoiled' /\ boot \in {"prompting", "receiving"}
<1>0. req \in Seq(Packet) /\ resp \in Seq(Bytes)
  BY DEF Typed, TypeOK
<1>1. boot \in {"prompting", "receiving"} /\ req # << >> /\ waiting' = waiting /\ waiting
  BY Received DEF Typed, sender, Unspoiled
<1>2. Len(req) = 1 /\ resp = << >>
  BY <1>1, OneUnderWay
<1>3. req[1].good
  BY <1>2 DEF Unspoiled
<1>4. resp' = Append(resp, "ACK")
  BY <1>1, <1>3, Received DEF Typed
<1>5. Append(resp, "ACK")[Len(resp) + 1] = "ACK" /\ Len(resp) + 1 \in 1 .. Len(Append(resp, "ACK"))
  BY <1>0
<1> QED BY <1>1, <1>4, <1>5 DEF Unspoiled

LEMMA CountedStep ==
  ASSUME Typed, Outstanding, Settled, Counted, strays = 0, strays' = 0, Next
  PROVE  Counted'
<1>0. /\ req \in Seq(Packet) /\ resp \in Seq(Bytes) /\ attempt \in Nat /\ faults \in Nat
      /\ Probes \in Nat /\ probes \in Nat /\ probes <= Probes /\ Tries \in Nat /\ EotTries \in Nat
  BY Constants DEF Typed, TypeOK
<1>1. CASE Restart
  BY <1>1 DEF Restart, Counted
<1>2. CASE Prompted
  <2>1. phase' \in {"blocks", "prompt"} /\ attempt' = 0 /\ UNCHANGED <<faults, probes>>
    BY <1>2 DEF Prompted, Typed, Stages
  <2>2. 0 <= faults + (Probes - probes) + (IF Unspoiled' THEN 1 ELSE 0)
    BY <1>0
  <2> QED BY <2>1, <2>2 DEF Counted
<1>3. CASE NotPrompted \/ Returned \/ PortFails
  <2>1. /\ phase' \in {"failed", "flashed", "broken"} /\ boot' = boot
        /\ phase' = "failed" => boot # "receiving"
    BY <1>3 DEF NotPrompted, Returned, PortFails, Typed, Stages, Settled
  <2> QED BY <2>1 DEF Counted
<1>4. CASE GiveUp
  <2>1. /\ ~ waiting /\ phase' = "failed" /\ UNCHANGED <<boot, faults>>
        /\ \/ phase = "blocks" /\ attempt = Tries
           \/ phase = "eot" /\ attempt = EotTries
    BY <1>4 DEF GiveUp
  <2>2. ~ Unspoiled
    BY <2>1 DEF Unspoiled
  <2>3. CASE phase = "blocks"
    <3>1. boot = "receiving" => Tries <= faults + (Probes - probes)
      BY <1>0, <2>1, <2>2, <2>3 DEF Counted
    <3>2. boot = "receiving" => faults + Probes >= Tries
      BY <1>0, <3>1
    <3> QED BY <2>1, <3>2 DEF Counted
  <2>4. CASE phase = "eot"
    <3>1. boot = "receiving" => EotTries <= faults
      BY <1>0, <2>1, <2>2, <2>4 DEF Counted
    <3>2. boot = "receiving" => faults >= EotTries
      BY <1>0, <3>1
    <3> QED BY <2>1, <3>2 DEF Counted
  <2> QED BY <2>1, <2>3, <2>4
<1>5. CASE SendBlock \/ SendEot
  <2>1. PICK p \in Packet : /\ req' = Append(req, p)
                            /\ p.good = (phase = "eot" \/ probes = 0)
    BY <1>5, SendEffect
  <2>2. /\ phase \in {"blocks", "eot"} /\ ~ waiting /\ waiting' /\ attempt' = attempt + 1
        /\ UNCHANGED <<phase, boot, faults>>
        /\ probes' = IF phase = "eot" \/ probes = 0 THEN probes ELSE probes - 1
    BY <1>5, SendEffect
  <2>3. ~ Unspoiled
    BY <2>2 DEF Unspoiled
  <2>4. phase = "eot" \/ probes = 0 => Unspoiled'
    <3>1. Append(req, p)[Len(req) + 1] = p /\ Len(req) + 1 \in 1 .. Len(Append(req, p))
      BY <1>0
    <3> QED BY <2>1, <2>2, <3>1 DEF Unspoiled
  <2>5. CASE phase = "eot"
    <3>1. boot \in {"prompting", "receiving"} => attempt + 1 <= faults + 1
      BY <1>0, <2>3, <2>5 DEF Counted
    <3> QED BY <2>2, <2>4, <2>5, <3>1 DEF Counted
  <2>6. CASE phase = "blocks"
    <3>1. boot \in {"prompting", "receiving"} => attempt <= faults + (Probes - probes)
      BY <1>0, <2>3, <2>6 DEF Counted
    <3>2. CASE probes = 0
      <4>1. boot \in {"prompting", "receiving"} => attempt + 1 <= faults + (Probes - probes) + 1
        BY <1>0, <3>1
      <4> QED BY <2>2, <2>4, <2>6, <3>2, <4>1 DEF Counted
    <3>3. CASE probes # 0
      <4>1. boot \in {"prompting", "receiving"} =>
              /\ attempt + 1 <= faults + (Probes - (probes - 1))
              /\ attempt + 1 <= faults + (Probes - (probes - 1)) + 1
        BY <1>0, <3>1
      <4>2. boot \in {"prompting", "receiving"} =>
              attempt' <= faults' + (Probes - probes') + (IF Unspoiled' THEN 1 ELSE 0)
        BY <1>0, <2>2, <2>6, <3>3, <4>1
      <4> QED BY <2>2, <2>6, <4>2 DEF Counted
    <3> QED BY <3>2, <3>3
  <2> QED BY <2>2, <2>5, <2>6
<1>6. CASE ReadByte
  <2>1. /\ phase \in {"blocks", "eot"} /\ resp # << >> /\ ~ waiting'
        /\ UNCHANGED <<probes, boot, faults, req>>
    BY <1>6, AcceptEffect
  <2>2. req = << >> /\ Len(resp) = 1
    BY <2>1, OneUnderWay
  <2>3. CASE phase' = "return"
    BY <2>3 DEF Counted
  <2>4. CASE attempt' = 0 /\ phase' \in {"blocks", "eot"}
    <3>1. 0 <= faults + (Probes - probes) + (IF Unspoiled' THEN 1 ELSE 0)
          /\ 0 <= faults + (IF Unspoiled' THEN 1 ELSE 0)
      BY <1>0
    <3> QED BY <2>1, <2>4, <3>1 DEF Counted
  <2>5. CASE resp[1] = "CAN"
    <3>1. boot = "cancelled"
      BY <2>2, <2>5 DEF Settled
    <3> QED BY <2>1, <3>1 DEF Counted
  <2>6. CASE resp[1] # "ACK" /\ UNCHANGED <<phase, block, attempt>>
    <3>1. ~ Unspoiled
      BY <2>2, <2>6 DEF Unspoiled
    <3>2. ~ Unspoiled'
      BY <2>1 DEF Unspoiled
    <3> QED BY <2>1, <2>6, <3>1, <3>2 DEF Counted
  <2> QED BY <1>6, <2>3, <2>4, <2>5, <2>6, AcceptEffect
<1>7. CASE Timeout
  <2>1. /\ req = << >> /\ resp = << >> /\ ~ waiting'
        /\ UNCHANGED <<phase, boot, attempt, faults, probes, req, resp>>
    BY <1>7 DEF Timeout, line
  <2>2. ~ Unspoiled /\ ~ Unspoiled'
    <3>1. Len(req) = 0 /\ Len(resp) = 0
      BY <2>1
    <3> QED BY <2>1, <3>1 DEF Unspoiled
  <2> QED BY <2>1, <2>2 DEF Counted
<1>8. CASE LosePacket \/ GarblePacket \/ LoseResponse \/ GarbleResponse
  <2>1. faults' = faults + 1 /\ UNCHANGED <<phase, boot, attempt, probes>>
    BY <1>8 DEF LosePacket, GarblePacket, LoseResponse, GarbleResponse, Fault, sender
  <2>2. ASSUME NEW n \in Nat, attempt <= n + (IF Unspoiled THEN 1 ELSE 0)
        PROVE  attempt <= (n + 1) + (IF Unspoiled' THEN 1 ELSE 0)
    <3>1. attempt <= n + 1 /\ attempt <= (n + 1) + 1
      BY <1>0, <2>2
    <3> QED BY <1>0, <3>1
  <2>3. faults + (Probes - probes) \in Nat
    BY <1>0
  <2>4. (faults + 1) + (Probes - probes) = (faults + (Probes - probes)) + 1
    BY <1>0
  <2>5. ASSUME boot \in {"prompting", "receiving"}, phase = "blocks"
        PROVE  attempt <= (faults + 1) + (Probes - probes) + (IF Unspoiled' THEN 1 ELSE 0)
    <3>1. attempt <= (faults + (Probes - probes)) + (IF Unspoiled THEN 1 ELSE 0)
      BY <2>5 DEF Counted
    <3> QED BY <2>2, <2>3, <2>4, <3>1
  <2>6. ASSUME boot \in {"prompting", "receiving"}, phase = "eot"
        PROVE  attempt <= (faults + 1) + (IF Unspoiled' THEN 1 ELSE 0)
    <3>1. attempt <= faults + (IF Unspoiled THEN 1 ELSE 0)
      BY <2>6 DEF Counted
    <3> QED BY <1>0, <2>2, <3>1
  <2>7. ASSUME boot = "receiving", phase = "failed"
        PROVE  (faults + 1) + Probes >= Tries \/ faults + 1 >= EotTries
    <3>1. faults + Probes >= Tries \/ faults >= EotTries
      BY <2>7 DEF Counted
    <3> QED BY <1>0, <3>1
  <2> QED BY <2>1, <2>5, <2>6, <2>7 DEF Counted
<1>9. CASE PromptAgain
  BY <1>9 DEF PromptAgain
<1>10. CASE Receive
  <2>1. /\ req # << >> /\ UNCHANGED <<phase, attempt, faults, probes>>
        /\ boot' \in {"prompting", "receiving"} => boot \in {"prompting", "receiving"}
    BY <1>10, Received DEF Typed, sender
  <2>2. phase # "failed"
    BY <2>1 DEF Settled
  <2>3. phase \in {"blocks", "eot"} /\ boot' \in {"prompting", "receiving"} /\ Unspoiled
          => Unspoiled'
    BY <1>10, UnspoiledReceive
  <2>4. ASSUME NEW n \in Nat, attempt <= n + (IF Unspoiled THEN 1 ELSE 0),
               Unspoiled => Unspoiled'
        PROVE  attempt <= n + (IF Unspoiled' THEN 1 ELSE 0)
    <3>1. CASE Unspoiled
      BY <2>4, <3>1
    <3>2. CASE ~ Unspoiled
      <4>1. attempt <= n /\ attempt <= n + 1
        BY <1>0, <2>4, <3>2
      <4> QED BY <1>0, <4>1
    <3> QED BY <3>1, <3>2
  <2>5. ASSUME boot' \in {"prompting", "receiving"}, phase = "blocks"
        PROVE  attempt <= faults + (Probes - probes) + (IF Unspoiled' THEN 1 ELSE 0)
    <3>1. attempt <= (faults + (Probes - probes)) + (IF Unspoiled THEN 1 ELSE 0)
      BY <2>1, <2>5 DEF Counted
    <3>2. faults + (Probes - probes) \in Nat
      BY <1>0
    <3> QED BY <2>3, <2>4, <2>5, <3>1, <3>2
  <2>6. ASSUME boot' \in {"prompting", "receiving"}, phase = "eot"
        PROVE  attempt <= faults + (IF Unspoiled' THEN 1 ELSE 0)
    <3>1. attempt <= faults + (IF Unspoiled THEN 1 ELSE 0)
      BY <2>1, <2>6 DEF Counted
    <3> QED BY <1>0, <2>3, <2>4, <2>6, <3>1
  <2> QED BY <2>1, <2>2, <2>5, <2>6 DEF Counted
<1> QED
  BY <1>1, <1>2, <1>3, <1>4, <1>5, <1>6, <1>7, <1>8, <1>9, <1>10
  DEF Next, SenderStep

\* While no response comes late, a transfer to a bootloader that listens is
\* given up only for as many lost or garbled messages as a block has attempts
\* beyond the probes, or the end of transmission has.
THEOREM TriesAreEnough == Spec => []TriesSuffice
<1>1. Init => Counted
  BY DEF Init, Counted
<1>2. Typed /\ Outstanding /\ Settled /\ Counted /\ [Next]_vars => Counted'
  <2> SUFFICES ASSUME Typed, Outstanding, Settled, Counted, [Next]_vars, strays' = 0
               PROVE  Counted'
    BY DEF Counted
  <2>1. CASE UNCHANGED vars
    BY <2>1 DEF vars, Counted, Unspoiled
  <2>2. CASE Next
    <3>1. strays = 0
      <4>1. strays \in Nat /\ (strays' = strays \/ strays' = strays + 1)
        BY <2>2, StraysGrow DEF Typed, TypeOK
      <4> QED BY <4>1
    <3> QED BY <2>2, <3>1, CountedStep
  <2> QED BY <2>1, <2>2
<1>3. Counted => TriesSuffice
  BY DEF Counted, TriesSuffice
<1> QED BY <1>1, <1>2, <1>3, TypedInv, OutstandingInv, SettledInv, PTL DEF Spec
=============================================================================
