SPECIFICATION Spec
CONSTANTS
  t1 = t1
  t2 = t2
  s1 = s1
  s2 = s2
  Threads = {t1, t2}
  Slices = {s1}
  Len <- TwoWords
  BITS_PER = 2
  Convertible = {0, 1, 3}
  Calls <- SliceCalls
SYMMETRY ThreadSymmetry
INVARIANTS EndRegular ReadRegular WriteRegular
PROPERTIES ClaimsExact WritesConfined NotHeldUp IndexAtomic
