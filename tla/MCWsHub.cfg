CONSTANTS
  Conns = {c1, c2}
  ServerSets = {{c2}}
  Reqs = {}
  HUB = HUB
  Nil = Nil
  QueCap = 2
  ConnCap = 1
  MaxSess = 2
  MaxWs = 2
  MaxRead = 1
SPECIFICATION FairSpec
INVARIANTS Inv ListsSignedOn NilsMatchSignoffs
PROPERTIES ClientsAnswered WritersEnd SessionEnds
