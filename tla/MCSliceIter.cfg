SPECIFICATION Spec
CONSTANTS
  BITS_PER = 2
  Kinds = {"words", "drain", "atomic", "hash", "prim", "prim_drain"}
  Convertible = {0, 1, 2, 3, 5}
  MaxLen = 3
  MaxWrites = 2
CHECK_DEADLOCK FALSE
INVARIANTS TypeOK Position DrainEmpties HintHolds HashCanonical
