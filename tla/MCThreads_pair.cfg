SPECIFICATION FairSpec
CONSTANTS
  Threads = {t1, t2}
  MaxPosts = 2
  Codes = {200, 500}
INVARIANTS OwnUnlessDisturbed NoThinAir
PROPERTIES EveryPostReturns
