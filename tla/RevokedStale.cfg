\* An operator pushes a certificate while a revocation check is under way.
SPECIFICATION Spec
CONSTANTS
  MaxSerial = 4
  MaxMishaps = 2
CHECK_DEADLOCK FALSE
PROPERTY WipesOnlyRevoked
