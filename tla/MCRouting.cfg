CONSTANTS
  Slash = slash
  Letter = {x}
  MaxLocation = 3
  MaxTarget = 6
  MaxStatements = 2
SPECIFICATION Spec
INVARIANTS TypeOK StartsAsConfigured LongestMatchDecides HandlersAgree CleanIsCanonical EntityIsInTarget
CHECK_DEADLOCK FALSE
