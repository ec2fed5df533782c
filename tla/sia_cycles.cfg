CONSTANTS
  gfs = gfs
  ecmwf = ecmwf
  gem = gem
  None = None
  loop = loop
  Runner = {loop}
  Model = {gfs, ecmwf, gem}
  Default <- ThreeWeights
  Briers = {100, 130, 9801}
  Summaries <- Results
  DefaultParams <- Strict
  MaxCycles = 3
SPECIFICATION Spec
INVARIANTS TypeOK WeightsSumToOne LearnedIsDurable ParamsInRange
CHECK_DEADLOCK FALSE
