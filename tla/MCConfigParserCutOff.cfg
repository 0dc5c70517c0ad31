CONSTANTS
  MaxText = 4
  MaxOther = 1
SPECIFICATION Spec
INVARIANT AcceptsOnlyValid
CHECK_DEADLOCK FALSE
