CONSTANTS
  MaxRetries = 1
  MaxRotations = 0
SPECIFICATION Spec
INVARIANTS BodyStaysReadable
