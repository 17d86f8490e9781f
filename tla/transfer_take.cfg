SPECIFICATION Spec
CONSTANTS
  Ops = {o1}
  Kinds <- Everything
  Sizes = {32, 100, 150}
  Counts = {0, 32, 100}
  Initial = 64
  MaxBufferSize = 200
  MaxDword = 180
  Word = 16
  MaxMoved = 255
INVARIANT TakeHolds
