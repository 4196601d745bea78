SPECIFICATION Spec
CONSTANTS
  NodeIds <- MCNodeIds
  DigestLen = 2
  LenBytes = 2
  Base = 2
  MaxChunk = 3
  Origins <- Sorted
  Details <- MCDetails
  HashLists <- MCHashLists
  ChunkLists <- MCChunkLists
INVARIANTS
  RoundTrip
  ReadsInBounds
  CutYieldsPart
  FailsOnlyAtCounter
  NamesDistinct
  CopyBesideOriginal
CHECK_DEADLOCK FALSE
