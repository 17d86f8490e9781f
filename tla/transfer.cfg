SPECIFICATION Spec
CONSTANTS
  Ops = {o1, o2}
  Kinds <- Streaming
  Sizes = {32, 150, 190, 300}
  Counts = {0, 106, 180}
  Initial = 64
  MaxBufferSize = 200
  MaxDword = 180
  Word = 16
  MaxMoved = 400
SYMMETRY Symmetric
INVARIANTS TypeOK KernelInBounds ReadsWhatArrived SendsWhole ReleaseHolds CursorExact
