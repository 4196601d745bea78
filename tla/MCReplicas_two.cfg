SPECIFICATION FairSpec
CONSTANTS
  A = A
  B = B
  Node = {A, B}
  BasePath = {"notes"}
  Chunk <- MCChunk
  Content <- MCContent
  MaxEdits = 2
  EditCopies = TRUE
INVARIANTS
  TypeOK
  NoPhantomEdits
PROPERTIES
  NoRollback
  FreshEditIsNews
  SyncQuiesces
