SPECIFICATION Spec
CONSTANTS
  A = A
  B = B
  NoId = NoId
  Node = {A, B, NoId}
  CutName = "no"
  BasePath = {"notes"}
  PaddedHash = "c0"
  Chunk = {"c0", "c1", "c2"}
  Torn = Torn
  NoPeer = NoPeer
  Shared = A
  HasExtension = TRUE
  Proc <- TwoOnShared
  HomeOf <- MCHomeOf
  Before <- MCBefore
  IdBefore <- MCIdBefore
  CutTo <- MCCutTo
  UserPath <- UserFiles
  FileContent <- OneFile
  MaxEdits = 1
  CrashPoints <- NoCrash
  TornWrites = FALSE
PROPERTIES
  JournalNeverForgets
