SPECIFICATION FairSpec
CONSTANTS
  FsInterval = 2
  DiskInterval = 1
  Hour = 0
  Timezone <- OneEast
  Daylight = 0
  MaxTime = 2
  MaxSetBacks = 1
  ReqLen = 1
  HeadLen = 1
  RespLen = 1
  MaxFD = 1
  Garbage = Garbage
  NoReply = NoReply
  ErrorCode = 500
  FailureKinds <- AllKinds
  MaxFailures = 2
INVARIANTS
  AuthFirst
  SuccessIsReal
  ReportsAtMostOnce
PROPERTIES
  LeftConnectionIsDead
  ImplementsReporting
  FaultReported
CHECK_DEADLOCK FALSE
