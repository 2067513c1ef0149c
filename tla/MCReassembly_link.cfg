SPECIFICATION Spec
CONSTANTS
  short = short  lookalike = lookalike  long = long  NoFrame = NoFrame
  Frames <- SomeFrames
  Bytes <- SomeBytes
  Start = 5
  MinLengthField = 1
  Overhead = 3
  MaxByte = 5
  MaxPacketSize = 8
  FragmentMax = 3
  ReassemblyTimeout = 2
  CrcMax = 2
  Garbage = {1, 5}
  MaxTroubles = 3
INVARIANTS NeverOverflows Recovers DropsCounted
