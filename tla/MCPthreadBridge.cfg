SPECIFICATION FairSpec
CONSTANTS
  t1 = t1
  t2 = t2
  m1 = m1
  c1 = c1
  a1 = a1
  a2 = a2
  a3 = a3
  Threads = {t1, t2}
  Mutexes = {m1}
  Conds = {c1}
  Addrs = {a1, a2, a3}
  None = None
  MutexOf <- MCMutexOf
  MaxDepth = 2
INVARIANTS TypeOK HeldIsOwned OneHostMutex
PROPERTIES SignalWakes ImplementsBionic ShortCallsReturn
CHECK_DEADLOCK FALSE
