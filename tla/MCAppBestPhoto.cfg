CONSTANTS
  MaxFiles = 3
  MaxScore = 2
  MaxSubmissions = 2
SPECIFICATION Spec
INVARIANT ShownIsCaptioned
CHECK_DEADLOCK FALSE
