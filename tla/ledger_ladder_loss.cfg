CONSTANTS
  m1 = m1
  m2 = m2
  scan = scan
  scan2 = scan2
  settler = settler
  admin = admin
  NoRow = NoRow
  Worker = {scan}
  Jobs <- OneThread
  Overlap = FALSE
  Resets = {}
  Market = {m1}
  City <- OneCity
  TargetDay <- DayZero
  Quotes <- Dips
  Sides = {"YES"}
  Stakes = {3000}
  Ladders = {TRUE}
  Live = FALSE
  InitialPortfolio = 100000
  ResetCash = 100000
  MaxBetPct = 3
  TotalExposurePct = 25
  CityCap = 4
  MinEntry = 10
  FeePct = 2
  MaxDay = 1
  MaxAnalyses = 2
  MaxResets = 1
  MaxBets = 2
SPECIFICATION Spec
INVARIANTS LossIsWhatWasPaid
CHECK_DEADLOCK FALSE
