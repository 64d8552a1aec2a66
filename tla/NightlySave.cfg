\* Two nights and two destinations, both found in the table or brought by
\* sessions before, during and after the chains; the server may be started
\* again once.  A server nobody uses is at rest.
SPECIFICATION Spec
CONSTANTS
  Names = {"a", "b"}
  Before <- NoneOrOne
  MaxNights = 2
  MaxWrites = 2
  MaxRestarts = 1
INVARIANTS
  InsertedOnce
  SavedInTurn
PROPERTY NightEnds
CHECK_DEADLOCK FALSE
