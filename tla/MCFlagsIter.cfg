SPECIFICATION Spec
CONSTANTS
  x = x
  y = y
  Names = {x}
  Forms <- PositionForm
  BITS = 4
  Programs <- OneProgram
  MaxU8 = 5
INVARIANT NothingUnasked
