SPECIFICATION BucketSpec
CONSTANTS
  Rules = {r1, r2, r3}
  Precedences = {1, 2, 3}
  Packets = {k1, k2}
  HeadGreater = {TRUE}
INVARIANTS TailInOrder BestBehindFront
