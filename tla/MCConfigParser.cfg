CONSTANTS
  MaxText = 8
  MaxOther = 2
SPECIFICATION Spec
INVARIANTS TypeOK AcceptsExactly RoundTrip UndefinedOnlyIfInvalid
CHECK_DEADLOCK FALSE
