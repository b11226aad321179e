SPECIFICATION Spec
CONSTANTS
  BITS_PER = 2
  MaxWrites = 2
  Shapes <- AllShapes
CHECK_DEADLOCK FALSE
INVARIANTS TypeOK HintHolds Explained
PROPERTY Ascending
