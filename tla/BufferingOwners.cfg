SPECIFICATION Spec
CHECK_DEADLOCK FALSE
CONSTANTS
  Sessions = {s1, s2}
  Pdrs = {p1, p2}
  Fars = {f1}
  ApplyActions = {{"DROP"}, {"FORW"}, {"BUFF", "NOCP"}}
  Stores = {a1, a2, a3}
  MaxPackets = 1
  Null = Null
INVARIANTS StorageFollowsPdr OneOwner
