SPECIFICATION Spec
CHECK_DEADLOCK FALSE
CONSTANTS
  Peers = {s1, s2}
  Classes = {1, 2, 4}
  PerClass = 2
  Blocks = 5
  Word = 1
  QueueMax = 2
  MaxDatagrams = 5
  SduLen = 4
  MessageSize = 3
  ValueSize = 1
  HeaderLen = 1
  MaxIes = 3
  Null = Null
INVARIANTS BuffersConserved BlocksFit FirstPeerKeepsNode AstrayOnlyIfOvertaken
PROPERTY AllComesBack
