CONSTANTS
  MaxRetries = 2
  MaxRotations = 1
SPECIFICATION FairSpec
INVARIANTS SendInv AppliedOnceUnlessSafe BodiesSentWhole TokenIsFresh NoOrphanBody StreamReleased
PROPERTIES DoneContextReturns
