SPECIFICATION FairSpec
CONSTANTS
  Gates = {1, 2}
  PacingDelays = {0, 2}
  Granularity = 1
  DefaultRto = 3
  MinRto = 2
  MaxRto = 5
  MaxBackoff = 2
  MaxSample = 4
  MaxAge = 7
INVARIANT TypeOK RttIsBracketed
PROPERTY PollsAreNotEarly ClientKeepsSending
