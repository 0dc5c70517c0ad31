CONSTANTS
  Worker = {w1, w2}
  Name = {a, b}
  PutId = {2, word}
  Word = word
  Body = {short}
  LongBody = {}
  IdSpace = 8
  None = none
  Blank = blank
  Torn = torn
  MaxInFlight = 2
  MaxWriters = 1
  MaxRequests = 4
  MaxRestarts = 2
  CrashPoint = {"dispatch", "reply", "removeObject", "testMaxFile", "createMaxFile", "readMax",
    "testDirectory", "makeDirectory", "openObject", "writeBody", "testEntityDir", "appendLine",
    "openTemp", "readLines", "closeTemp", "copyTemp", "removeTemp"}
  MayFail = {}
SPECIFICATION Spec
INVARIANTS PostIdIsFresh DirectoryRecorded IdsRecorded LinesAgree SuccessIsBacked
CHECK_DEADLOCK FALSE
