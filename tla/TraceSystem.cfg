\* One connection, two traces: a stopped child and its successor.  Three clicks
\* start, stop and start again, or pick a date, for the table of the traces or another.
SPECIFICATION SystemSpec
CONSTANTS
  MaxChildren = 2
  Hops = {1, 2}
  Routers = {"r"}
  Saved <- SavedRows
  MaxClicks = 3
  MaxQueue = 1
INVARIANTS
  TimerGuardsProcess
  OrphansExplained
  OneTraceShown
  TableIsRoute
PROPERTIES
  TraceEnds
  PageIsFreed
CHECK_DEADLOCK FALSE
