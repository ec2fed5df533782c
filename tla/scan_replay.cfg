CONSTANTS
  near = near
  far = far
  highest = highest
  Absent = Absent
  NoAnswer = NoAnswer
  Queries <- MCQueries
  Markets <- MCMarkets
  Day <- MCDay
  Shape <- MCShape
  Offers <- MCOffers
  Beliefs <- MCBeliefs
  Bankroll = 100000
  MaxDay = 3
  MaxScans = 3
  KellyPct = 15
  MaxBetPct = 3
  ExposurePct = 25
  MinBet = 100
  MaxStake = 3000
  MinEdge = 5
  EdgeRamp = 2
  MinSources = 2
  MaxDaysAhead = 2
SPECIFICATION Spec
PROPERTIES BetsHaveValue
CHECK_DEADLOCK FALSE
