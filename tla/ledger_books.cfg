CONSTANTS
  m1 = m1
  m2 = m2
  scan = scan
  scan2 = scan2
  settler = settler
  admin = admin
  NoRow = NoRow
  Worker = {scan}
  Jobs <- OneThread
  Overlap = FALSE
  Resets = {"api"}
  Market = {m1, m2}
  City <- OneCity
  TargetDay <- DayZero
  Quotes <- Fall
  Sides = {"YES", "NO"}
  Stakes = {99999, 150001}
  Ladders = {TRUE, FALSE}
  Live = FALSE
  InitialPortfolio = 1000000
  ResetCash = 100000
  MaxBetPct = 16
  TotalExposurePct = 25
  CityCap = 4
  MinEntry = 10
  FeePct = 2
  MaxDay = 1
  MaxAnalyses = 2
  MaxResets = 1
  MaxBets = 2
SPECIFICATION Spec
INVARIANTS TypeOK BooksBalance NoneStranded
PROPERTIES ClosedOnce ExposureCapHeld KeepsTheBook CashPaysForFills
CHECK_DEADLOCK FALSE
