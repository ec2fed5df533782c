CONSTANTS
  scan = scan
  settlement = settlement
  t1 = t1
  t2 = t2
  t3 = t3
  t4 = t4
  None = None
  Kind = {scan, settlement}
  Jobs <- Rounds
  Task = {t1, t2, t3, t4}
  Workers = 2
  OwnFlag = TRUE
SPECIFICATION FairSpec
INVARIANTS TypeOK OneLoopPerKind
PROPERTIES LoopsGoOn ShutdownEnds
CHECK_DEADLOCK FALSE
