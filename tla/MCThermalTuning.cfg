SPECIFICATION Spec
CONSTANTS
  Order <- MCOrder
  Bounds <- MCBounds
  Scopes <- MCScopes
  Points = {0, 1}
  Seed = 0
  RingSize = 6
  PageSize = 4
  LastTrial = 2
  MaxLag = 6
INVARIANTS  HeatsAsPreviewed EveryTargetIsDecided  SealedTraceIsWhole SavesOnlyConfirmed
CHECK_DEADLOCK FALSE
