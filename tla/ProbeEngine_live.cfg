SPECIFICATION Spec
CONSTANTS
  MaxRequests = 2
  MaxProbes = 1
  MinPort = 1
  MaxPort = 3
  Pid = 9
  DestPort = 8
  LocalPort = 7
  Kinds = {"udp", "tcp", "check"}
  Timeouts = {1}
  ConnectOutcomes = {"inprogress", "connected", "refused"}
  PacketTypes = {"reply"}
  MaxArrivals = 1
PROPERTIES
  ImplementsCommandService
