\* The screen of curses, with and without names.
SPECIFICATION Spec
CONSTANTS
  Modes = {"curses"}
  Builds <- BuildsOfMode
  Addresses = {"r", "t"}
  Target = "t"
  RoutersAt <- RoutersOfHop
  MaxHop = 2
  MaxReplies = 1
  MaxTargets = 1
  MaxKeys = 1
  MaxKills = 0
INVARIANT OnlyQuitEnds
CHECK_DEADLOCK FALSE
