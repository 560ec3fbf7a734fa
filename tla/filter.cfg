SPECIFICATION Spec
CONSTANTS
  WindowLength = 3
  SampleValues = {0, 1, 2, 3}
  MaxTime = 7
INVARIANTS TypeOK EstimatesBoundLaterSamples BestIsFresh
