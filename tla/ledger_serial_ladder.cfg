CONSTANTS
  m1 = m1
  m2 = m2
  scan = scan
  scan2 = scan2
  settler = settler
  admin = admin
  NoRow = NoRow
  Worker = {scan, settler}
  Jobs <- Server
  Overlap = FALSE
  Resets = {"cli"}
  Market = {m1, m2}
  City <- OneCity
  TargetDay <- DayZero
  Quotes <- Slump
  Sides = {"YES"}
  Stakes = {3000}
  Ladders = {TRUE}
  Live = FALSE
  InitialPortfolio = 100000
  ResetCash = 100000
  MaxBetPct = 3
  TotalExposurePct = 25
  CityCap = 1
  MinEntry = 10
  FeePct = 2
  MaxDay = 1
  MaxAnalyses = 2
  MaxResets = 1
  MaxBets = 2
SPECIFICATION FairSpec
INVARIANTS CityCapHeld
PROPERTIES DuePositionsClose
CHECK_DEADLOCK FALSE
