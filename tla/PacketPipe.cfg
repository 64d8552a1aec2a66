\* Two names, or one, with rounds of one probe each, two of which may be
\* outstanding at once.  The reply pipe holds two replies: enough for a probe and
\* a command, not for two probes.  A write and a read take a reply and a half.
SPECIFICATION Spec
CONSTANTS
  MaxTargets = 2
  Features = 1
  Hops = 1
  MaxRounds = 4
  Counts = {1, 4}
  GraceTime = 1
  MaxProbes = 2
  CommandPipe = 1
  CommandRoom = 1
  ReplyPipe = 4
  StdioBuffer = 3
  ReplyRoom = 3
  MaxKeys = 1
  MaxCrashes = 1
INVARIANTS
  RepliesArriveAsPrinted
  NeverBothBlocked
  RepliesStayWithTarget
PROPERTIES
  ClientFollowsEngine
  EngineFollowsClient
  
CHECK_DEADLOCK FALSE
