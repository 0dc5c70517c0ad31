CONSTANTS
  Worker = {w1, w2}
  Name = {a}
  PutId = {}
  Word = word
  Body = {short}
  LongBody = {}
  IdSpace = 8
  None = none
  Blank = blank
  Torn = torn
  MaxInFlight = 2
  MaxWriters = 2
  MaxRequests = 2
  MaxRestarts = 0
  CrashPoint = {}
  MayFail = {}
SPECIFICATION Spec
INVARIANT PostIdIsFresh
CHECK_DEADLOCK FALSE
