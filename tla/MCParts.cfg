CONSTANTS
  Pixels = {a, b}
  NoPixels = NoPixels
  MaxByteValue = 3
  MaxRecords = 3
  MaxEntries = 3
  MaxFrames = 4
  MaxArchive = 4
  MaxChanges = 1
  MaxPayloadSize = 20
  MaxCount = 7
  MaxRuns = 2
  MaxCut = 2
  Sides = {1, 15, 16, 17, 71, 72, 73, 80, 144, 159, 160, 161, 240, 320}
  MaxSourcePixels = 51200
  MaxInputBytes = 2
  MaxBlocks = 4
  MaxOutputBytes = 4
  MaxProduced = 6
  PipeSize = 2
  MaxResponseBytes = 2
  MaxFile = 2
  Spelling <- Spellings
  SimpleMax = 3
  IntervalMin = 1
  IntervalMax = 2
  CyclesMin = 2
  CyclesMax = 3
  Stream = {s, t}
  Req = {q, r}
  Closer = {c, d}
  NoStream = NoStream
  Item = {i}
  Publisher = {p}
  Room = 1
  MaxPackets = 3
  Differences <- OneFact
  MaxMoves = 1
SPECIFICATION Spec
INVARIANTS PlaysBack DecodesExactly FillsDisplay ResultIsComplete SentAsPrepared SnapshotReturns ClosedOwnsNothing NoGap VerdictIsTrue
CHECK_DEADLOCK FALSE
