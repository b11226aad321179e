SPECIFICATION Spec
CONSTANTS
  x = x
  y = y
  Names = {x, y}
  Forms <- AllForms
  BITS = 3
  Programs <- AllPrograms
  MaxU8 = 3
SYMMETRY Either
VIEW Contents
INVARIANTS TypeOK KnownOnly NamesReadBack DebugReadsBack
PROPERTIES UnknownKept PanicsConfined
