CONSTANTS
  Thread = {t1, t2, t3}
  MutexThread = {u1, u2, u3, u4, u5}
  InitCount = 1
  MaxPosts = 3
  Writer = {w1, w2}
  Node = {n1, n2, n3}
  Modes = {{"remove"}, {"remove_list"}, {"bycount"}}
  MaxAsk = 3
SPECIFICATION PrimSpec
INVARIANTS Exclusion WordCountsHolders UnlockNeverAborts WordTellsHolder UnitsAccounted NeverAborts NeverTakesNull CountAccounts
PROPERTIES ImplementsLock LocksProgress NobodyLeftBehind ImplementsFifo EveryNodeComesOut
