SPECIFICATION Spec
CONSTANTS
  MaxRequests = 2
  MaxProbes = 1
  MinPort = 1
  MaxPort = 4
  Pid = 9
  DestPort = 8
  LocalPort = 7
  Kinds = {"tcp"}
  Timeouts = {0, 1}
  ConnectOutcomes = {"inprogress", "connected", "inuse", "refused", "error"}
  PacketTypes = {"reply", "ttl-expired"}
  MaxArrivals = 0
INVARIANTS
  NoRetryIfWeSucceed
