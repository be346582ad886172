SPECIFICATION Spec
CHECK_DEADLOCK FALSE
CONSTANTS
  Slots = {a, b}
  Nodes = {n1, n2}
  Keys = {1, 3}
  InitialMax = 0
  HashValues = 2
  Fars = {f1}
  Qers = {q1}
  Pdrs = {p1}
  MaxRules = 3
  MaxChanges = 2
  MaxSessions = 3
  Null = Null
INVARIANTS TableSound ListedUnlessClash  SeidsAreCurrent 
SYMMETRY Symmetry
PROPERTY ReleaseClears
