CONSTANTS
  c1 = c1
  c2 = c2
  a = a
  b = b
  k1 = k1
  k2 = k2
  Conns = {c1, c2}
  Topics = {a, b}
  Keys = {k1, k2}
  NoWatch = NoWatch
  WatchLists <- MCWatchLists
  ActLists <- MCActLists
  Milli = 2
  MaxNow = 1
  MaxSubs = 2
  MaxEv = 2
  ChanCap = 1
  SharedLoopVar = TRUE
SPECIFICATION Spec
SYMMETRY ConnSymmetry
INVARIANTS InLedgerOrder WholeTransactions
PROPERTIES ImplementsSubs
CHECK_DEADLOCK FALSE
