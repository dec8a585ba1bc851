SPECIFICATION CallsSpec
CONSTANTS
  Servers = {s1, s2}
  Slugs = {a, b}
  Tools = {t, u}
  Editors = {e1, e2}
  Named <- MCNamed
  c1 = c1
  c2 = c2
  Calls = {c1, c2}
  Scenes <- MCScenes
INVARIANTS
  RunsFollowCalls
  RunWasAllowed
PROPERTIES
  EditsAreSafe
  CallsEnd
CHECK_DEADLOCK FALSE
