SPECIFICATION FairSpec
CONSTANTS
  A = A
  B = B
  NoId = NoId
  Node = {A, B, NoId}
  CutName = "no"
  BasePath = {"notes"}
  PaddedHash = "c0"
  Chunk = {"c0", "c1", "c2"}
  Torn = Torn
  NoPeer = NoPeer
  Shared = A
  HasExtension = TRUE
  Proc <- OnePerNode
  HomeOf <- MCHomeOf
  Before <- MCBefore
  IdBefore <- MCIdBefore
  CutTo <- MCCutTo
  UserPath <- UserFiles
  FileContent <- UpToTwoChunks
  MaxEdits = 1
  CrashPoints <- CrashBeforeFiles
  TornWrites = FALSE
INVARIANTS
  EveryVersionBacked
  NoMissingChunk
  PublishedIsDurable
  SeenAlike
  SessionAgreement
  FilesMatchJournal
PROPERTIES
  JournalNeverForgets
  SessionsAtomic
  SessionEnds
