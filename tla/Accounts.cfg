SPECIFICATION AccountsSpec
CONSTANTS
  Users = {root, u1}
  Root = root
  Nobody = Nobody
  Threads = {t1, t2}
  AccountBounds <- MCBounds
INVARIANTS
  AccountsInvariant
PROPERTIES
  AccountsComeUp
\* The requests are used up.
CHECK_DEADLOCK FALSE
