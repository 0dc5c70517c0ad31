CONSTANTS
  Thread = {t1, t2}
  Session = {s1, s2, s3}
  NoSession = nosession
  Uninitialised = {TRUE, FALSE}
  HandlerMay = {"throw", "hang"}
  MaxConnections = 2
  SignalLoad = 1
  MaxRequests = 2
SPECIFICATION MCSpec
INVARIANTS TypeOK OneAcceptChain OneHandlerPerSession FlushedAtExit LogsAllOrNothing NothingOutlivesMain
PROPERTIES SignalEndsServer RequestsAreAnswered
CHECK_DEADLOCK FALSE
