SPECIFICATION Spec
CONSTANTS
  Requests = {r1, r2, r3, r4}
  NoRequest = NoRequest
  NoRun = NoRun
  Rooms <- MCRooms
INVARIANTS
  MessagesInPairs
  ActionsAreUsedOnce
  RunFollowsMessages
PROPERTIES
  RunAdvances
SYMMETRY Symmetry
CHECK_DEADLOCK FALSE
