CONSTANTS
  Conns = {c1, c2}
  Reqs = {r1}
  HUB = HUB
  Nil = Nil
  QueCap = 1
  ConnCap = 1
  MaxSent = 4
  MayStop = TRUE
SPECIFICATION FairSpec
INVARIANTS Inv NilIsLast SignoffInFlight SignedOnListed ReplyNeverBlocks
PROPERTIES SignoffAnswered ReqReturnsRunning
