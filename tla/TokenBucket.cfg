SPECIFICATION FairSpec
CONSTANTS
  Burst = 6
  Rates = {0, 1, 2}
  Sizes <- MCSizes
  MaxElapsed = 4
  MaxWindow = 4
INVARIANTS TypeOK BandwidthBound AtMostTwoTimeouts
PROPERTIES WaitReturns
