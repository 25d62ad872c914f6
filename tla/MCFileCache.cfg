SPECIFICATION FairSpec
CONSTANTS
  Threads = {t1, t2}
  Keys = {k1, k2, k3}
  Capacity = 2
  NoThread = NoThread
  NoKey = NoKey
  MaxOpens = 4
INVARIANTS CacheInv
PROPERTIES HotEntriesSurvive OpenReturns
