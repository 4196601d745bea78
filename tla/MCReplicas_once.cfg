SPECIFICATION Spec
CONSTANTS
  A = A
  B = B
  C = C
  Node = {A, B, C}
  BasePath = {"notes"}
  Chunk <- MCChunk
  Content <- MCContent
  MaxEdits = 1
  EditCopies = FALSE
SYMMETRY NodeSymmetry
INVARIANTS
  NoSilentLoss
  QuiescentHoldAll
