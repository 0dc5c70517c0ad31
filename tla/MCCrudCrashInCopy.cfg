CONSTANTS
  Worker = {w1}
  Name = {a}
  PutId = {}
  Word = word
  Body = {short}
  LongBody = {}
  IdSpace = 8
  None = none
  Blank = blank
  Torn = torn
  MaxInFlight = 1
  MaxWriters = 1
  MaxRequests = 3
  MaxRestarts = 1
  CrashPoint = {"copyData"}
  MayFail = {}
SPECIFICATION Spec
INVARIANT PostIdIsFresh
CHECK_DEADLOCK FALSE
