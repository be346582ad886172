SPECIFICATION Spec
CHECK_DEADLOCK FALSE
CONSTANTS
  Sessions = {s1}
  Pdrs = {p1}
  Fars = {f1}
  ApplyActions = {{"DROP"}, {"FORW"}, {"BUFF", "NOCP"}}
  Stores = {a1, a2}
  MaxPackets = 3
  Null = Null
INVARIANT SentOnceInOrder
PROPERTIES LostOnlyBehindFlush NoLockIsKept
