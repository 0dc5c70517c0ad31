CONSTANTS
  Worker = {w1, w2}
  Name = {a}
  PutId = {2}
  Word = word
  Body = {short}
  LongBody = {}
  IdSpace = 8
  None = none
  Blank = blank
  Torn = torn
  MaxInFlight = 2
  MaxWriters = 2
  MaxRequests = 3
  MaxRestarts = 0
  CrashPoint = {}
  MayFail = {"mkdir", "open"}
SPECIFICATION FairSpec
INVARIANTS TypeOK BlankIsBeingWritten
PROPERTIES OneDeleteWins EveryRequestEnds
CHECK_DEADLOCK FALSE
