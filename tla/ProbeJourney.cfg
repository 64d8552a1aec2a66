SPECIFICATION Spec
CONSTANTS
    MaxHost = 4
    DefaultMaxTTL = 3
    DefaultUnknown = 2
    PacketBufferSize = 9000
    Self = 4321
    KernelSum = 1
    MaxMplsLabels = 2
    MaxLabels = 2
    Machines <- MCMachines
    Lines <- MCLines
    Keys <- MCKeys
    Messages <- MCMessages
    KernelErrors = {"no-route", "unexpected-error"}
    MaxKeys = 1
    MaxSent = 3
    MaxFlying = 2
    MaxHeard = 2
INVARIANTS
    ProbesStayInTable
    RefusedOnlyFor
    SentAsAsked
    QuoteFindsProbe
    HopStatisticsAgree
    HopIsWhatWasHeard
CHECK_DEADLOCK FALSE
