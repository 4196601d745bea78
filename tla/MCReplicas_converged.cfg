SPECIFICATION Spec
CONSTANTS
  A = A
  B = B
  Node = {A, B}
  BasePath = {"notes"}
  Chunk <- MCChunk
  Content <- MCContent
  MaxEdits = 1
  EditCopies = FALSE
INVARIANTS
  Converged
