CONSTANTS
  Conns = {s1}
  ServerSets = {{s1}}
  Reqs = {}
  HUB = HUB
  Nil = Nil
  QueCap = 2
  ConnCap = 6
  MaxSess = 1
  MaxWs = 1
  MaxRead = 1
SPECIFICATION FairSpec
PROPERTIES NilAfterSignoff
