SPECIFICATION Spec
CONSTANTS
  A = A
  B = B
  NoId = NoId
  Node = {A, B, NoId}
  CutName = "no"
  BasePath = {"notes"}
  PaddedHash = "c0"
  Chunk = {"c0", "c1", "c2"}
  Torn = Torn
  NoPeer = NoPeer
  Shared = A
  HasExtension = FALSE
  Proc <- OnePerNode
  HomeOf <- MCHomeOf
  Before <- MCBefore
  IdBefore <- MCIdBefore
  CutTo <- MCCutTo
  UserPath <- UserFiles
  FileContent <- TwoChunks
  MaxEdits = 1
  CrashPoints <- CrashAtWrites
  TornWrites = TRUE
ACTION_CONSTRAINT OneCut
INVARIANTS
  TypeOK
  EveryVersionBacked
  RequestsServable
  NoMissingChunk
