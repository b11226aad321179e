SPECIFICATION Spec
CONSTANTS
  t1 = t1
  t2 = t2
  s1 = s1
  s2 = s2
  Threads = {t1, t2}
  Slices = {s1, s2}
  Len <- ShortLong
  BITS_PER = 2
  Convertible = {0, 3}
  Calls <- PairCalls
SYMMETRY ThreadSymmetry
INVARIANTS TypeOK PairRegular
PROPERTY AppendConserves
