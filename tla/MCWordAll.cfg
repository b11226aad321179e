SPECIFICATION Spec
CONSTANTS
  t1 = t1
  t2 = t2
  t3 = t3
  Threads = {t1, t2, t3}
  BITS = 3
  Calls <- AllCalls
SYMMETRY ThreadSymmetry
INVARIANTS IInv
PROPERTY Loose
