CONSTANTS
  Schemas <- MCSchemas
  Drivers <- MCDrivers
  Bits <- MCBits
  MaxSelected = 2
SPECIFICATION Spec
INVARIANTS TypeOK ReadBack OnlyKnownRefusals
