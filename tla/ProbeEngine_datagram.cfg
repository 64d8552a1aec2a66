SPECIFICATION Spec
CONSTANTS
  MaxRequests = 3
  MaxProbes = 2
  MinPort = 1
  MaxPort = 3
  Pid = 9
  DestPort = 8
  LocalPort = 7
  Kinds = {"icmp", "udp-ports", "check"}
  Timeouts = {1}
  ConnectOutcomes = {}
  PacketTypes = {"ttl-expired"}
  MaxArrivals = 2
INVARIANTS
  OneAnswerPerCommand
  WakesByDeadline
  CreditedToSender
  QueuedReplyBeatsTimeout
