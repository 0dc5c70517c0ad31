CONSTANTS
  Worker = {w1}
  Name = {a, b}
  PutId = {0, 2}
  Word = word
  Body = {short, long}
  LongBody = {long}
  IdSpace = 8
  None = none
  Blank = blank
  Torn = torn
  MaxInFlight = 1
  MaxWriters = 1
  MaxRequests = 4
  MaxRestarts = 0
  CrashPoint = {}
  MayFail = {}
SPECIFICATION Spec
INVARIANT StaysUp
PROPERTY ImplementsStore
CHECK_DEADLOCK FALSE
