SPECIFICATION Spec
CONSTANTS
  x = x
  y = y
  Names = {x, y}
  BITS_PER = 2
  MaxLen = 2
  Kinds <- OnlyBoxed
  Batches <- SmallBatches
  Elems <- SmallElems
INVARIANT XorInPlace
