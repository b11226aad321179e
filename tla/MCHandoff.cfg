SPECIFICATION FairSpec
CONSTANTS
  s1 = s1
  s2 = s2
  t1 = t1
  t2 = t2
  Threads = {t1, t2}
  Slices = {s1, s2}
  NWords = 1
  BITS_PER = 2
  MaxStale = 1
  Calls <- TwoParts
INVARIANTS IInv InOnePlace NoDataRace AnswersKnown
PROPERTY LockFree
