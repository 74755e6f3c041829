CONSTANTS
  c1 = c1
  c2 = c2
  a = a
  b = b
  k1 = k1
  k2 = k2
  Conns = {c1, c2}
  Topics = {a, b}
  Keys = {k1, k2}
  NoWatch = NoWatch
  WatchLists <- MCWatchLists
  ActLists <- MCActLists
  Milli = 2
  MaxNow = 2
  MaxSubs = 2
  MaxEv = 3
  SharedLoopVar = TRUE
SPECIFICATION Spec
SYMMETRY ConnSymmetry
INVARIANTS Inv IndexesAgree NothingLost
CHECK_DEADLOCK FALSE
