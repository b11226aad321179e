SPECIFICATION Spec
CONSTANTS
  t1 = t1
  t2 = t2
  t3 = t3
  Threads = {t1, t2}
  BITS = 2
  Calls <- PopAndInsert
PROPERTY TrulyAtomic
