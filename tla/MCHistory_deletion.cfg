CONSTANTS
  m1 = m1
  m2 = m2
  s1 = s1
  s2 = s2
  Models = {m1, m2}
  Schemas = {s1, s2}
  SchemaOf <- MCSchemaOf
  NodeOrder <- MCNodeOrder
  ProjNames = {p1, p2}
  Defs = {d1, d2}
  NoDef = NoDef
  Projects <- MCProjects
  p1 = p1
  p2 = p2
  d1 = d1
  d2 = d2
  None = None
  Broken = Broken
  MaxRec = 1
  MayFail = FALSE
SPECIFICATION Spec
INVARIANTS DeletionsReported
CHECK_DEADLOCK FALSE
