SPECIFICATION Spec
CONSTANTS
  x = x
  y = y
  Names = {x, y}
  BITS_PER = 2
  MaxLen = 2
  Kinds <- AllKinds
  Batches <- SmallBatches
  Elems <- SmallElems
SYMMETRY Either
VIEW Contents
INVARIANTS TypeOK CountsAgree RelationsAgree OwnRelationsAgree
  OrderExtendsInclusion HashFollowsEq DigitsReadBack
PROPERTY Implements
