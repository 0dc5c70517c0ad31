CONSTANTS
  Producer = {p1, p2}
  Logger = logger
  Nobody = nobody
  MaxMessages = 3
SPECIFICATION FairSpec
INVARIANTS TypeOK NoDataRace InOrderExactlyOnce
PROPERTIES ImplementsFifo EveryMessageIsWritten

