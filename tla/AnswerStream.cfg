SPECIFICATION StreamSpec
CONSTANTS
  Length = 2
  Setups <- MCSetups
INVARIANTS
  OneAttemptShown
  AnswerIsKeptWhole
PROPERTIES
  StreamEnds
\* A request ends.
CHECK_DEADLOCK FALSE
