SPECIFICATION Spec
CONSTANTS
  BITS_PER = 3
  Kinds = {"words", "drain", "atomic", "prim", "prim_drain"}
  Convertible = {0, 1, 2, 3, 4, 5}
  MaxLen = 2
  MaxWrites = 1
CHECK_DEADLOCK FALSE
INVARIANT ExactSize
