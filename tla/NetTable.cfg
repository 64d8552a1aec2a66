\* Four hops, of which two silent ones end a round; four numbers for six probes,
\* so that they come round; strips of two columns; a reset or a change of target,
\* each target a router on the way to the other.  The bound on probes may be
\* used up.
SPECIFICATION Spec
CONSTANTS
  MaxHost = 4
  FstTTL = 1
  MaxTTL = 4
  MaxUnknown = 1
  MinSequence = 3
  MaxSequence = 7
  SavedPings = 2
  MaxPath = 2
  Routers = {}
  Targets = {t1, t2}
  MaxQueries = 6
  MaxResets = 1
INVARIANTS
  LossNeverNegative
  SavedInOwnColumn
PROPERTIES
  CreditedToItsHop
CHECK_DEADLOCK FALSE
