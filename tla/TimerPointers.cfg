SPECIFICATION PointerSpec
CONSTANTS
  NULL = NULL
  active = active
  idle = idle
  Blk = {1, 2, 3}
  TimeMod = 1000
  Spans = {1, 2}
  Now = {0, 1, 2}
INVARIANT PointersSpellLists
