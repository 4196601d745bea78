SPECIFICATION Spec
CONSTANTS
  A = A
  B = B
  Node = {A, B}
  BasePath = {"notes"}
  Chunk <- MCChunk
  Content <- MCContent
  MaxEdits = 3
  EditCopies = FALSE
SYMMETRY NodeSymmetry
INVARIANTS
  NoSilentLoss
