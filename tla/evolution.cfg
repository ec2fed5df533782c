CONSTANTS
  gfs = gfs
  ecmwf = ecmwf
  loop = loop
  first = first
  second = second
  None = None
  Request = {first, second}
  Runner = {loop}
  Model = {gfs, ecmwf}
  Default <- Equal
  Briers = {100, 9801}
  Summaries <- Results
  DefaultParams <- Shipped
  MaxCycles = 1
  Rounds = 1
  Amounts <- Shifts
  Rois <- Returns
  PriorWeights <- Global
  MaxRuns = 2
SYMMETRY Either
SPECIFICATION BothSpec
INVARIANTS EvolutionTypeOK WeightsSumToOne NeverWorseThanPrior
CHECK_DEADLOCK FALSE
