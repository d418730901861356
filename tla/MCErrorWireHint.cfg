SPECIFICATION Spec
CONSTANTS
  Hops = 2
  Standard = {302, 404, 500}
  Odd = {400, 499, 599}
  AppKinds <- MCAppKinds
  Known <- MCKnown
INVARIANT HintNeverPanics
CHECK_DEADLOCK FALSE
