SPECIFICATION FrameSpec
CONSTANTS
  DLE = DLE
  STX = STX
  ETX = ETX
  Plain = Plain
  Byte <- McByte
  Noise <- McByte
  MaxBodySize = 2
  MaxSent = 3
  ChunkFrames = 2
INVARIANTS
  Resynchronised
  BodyBounded
PROPERTIES
  FrameDelivered
