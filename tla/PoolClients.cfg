SPECIFICATION ClientSpec
CONSTANTS
  Cap = 4
  NULL = NULL
  Thread = {t1, t2}
INVARIANTS EachSlotInOnePlace IndexFindsHeld
PROPERTY ImplementsFreeQueue
