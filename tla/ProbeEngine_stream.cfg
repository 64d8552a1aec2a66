SPECIFICATION Spec
CONSTANTS
  MaxRequests = 2
  MaxProbes = 2
  MinPort = 1
  MaxPort = 4
  Pid = 9
  DestPort = 8
  LocalPort = 7
  Kinds = {"tcp", "malformed"}
  Timeouts = {1}
  ConnectOutcomes = {"inprogress", "inuse", "refused", "error"}
  PacketTypes = {"ttl-expired", "no-route"}
  MaxArrivals = 1
INVARIANTS
  TypeOK
  NothingLostAtExit
  NoSocketLeak
