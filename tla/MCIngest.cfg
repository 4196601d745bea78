SPECIFICATION IngestSpec
CONSTANTS
  Byte <- MCByte
  GEAR_TABLE <- MCGear
  HashWidth = 4
  MinSize = 2
  AvgSize = 9
  MaxSize = 4
  MaxLen = 7
  Files <- MCFiles
  BlockSize = 4
  LenSize = 2
  ByteBits = 4
INVARIANTS
  Tiling
  SizesBounded
  ContentDefined
  DiffExact
  WalkIsSparse
  RootDecides
  RootOfDigests
  LengthCountsPadding
  ReportTellsChange
  SharedCutResyncs
PROPERTIES
  ChunkingEnds
CHECK_DEADLOCK FALSE
