SPECIFICATION Spec
CONSTANTS
  NULL = NULL
  localList = localList
  remoteList = remoteList
  Blk = {1, 2, 3, 4}
  TimeMod = 1000
  Slot = {0, 1}
  PFCP_MAX_XACT_ID = 4
  PFCP_T3_RESPONSE_DURATION = 1
  PFCP_T3_RESPONSE_RETRY_COUNT = 3
  PFCP_T3_DUPLICATED_RETRY_COUNT = 1
  PeerId = {1}
  PeerTypes = {"HEARTBEAT_REQUEST"}
  Reports = FALSE
  Repeats = TRUE
  QCap = 2
  MaxTime = 0
INVARIANT SlotsAccounted
