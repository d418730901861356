SPECIFICATION Spec
CONSTANTS
  Hops = 3
  Standard = {302, 404, 500}
  Odd = {400, 499, 599}
  AppKinds <- MCAppKinds
  Known <- MCKnown
INVARIANTS WireInv RelayKeepsStatus SystemFailureStaysSystem OnlyUserTextCrosses
PROPERTY DecodedAsSent
CHECK_DEADLOCK FALSE
