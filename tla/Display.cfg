\* Two hops, one router and the target; two replies each bring rows in, take them
\* away by an error and bring them back.  A resolver may die, a key may be
\* pressed, standard input may end, and raw output goes on to a second name.
\* The program may end.
SPECIFICATION Spec
CONSTANTS
  Modes = {"split", "curses", "raw"}
  Builds <- BuildsOfMode
  Addresses = {"r", "t"}
  Target = "t"
  MaxHop = 2
  RoutersAt <- RoutersOfHop
  MaxReplies = 2
  MaxTargets = 2
  MaxKeys = 1
  MaxKills = 1
INVARIANTS
  NameIsOfAddress
  ReaderHasRows
PROPERTIES
  NameShown
  KeepsSending
CHECK_DEADLOCK FALSE
