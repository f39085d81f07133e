CONSTANTS
  Schemas <- MCPrices
  Drivers <- MCDrivers
  Bits <- MCBits
  MaxSelected = 2
SPECIFICATION Spec
INVARIANT DecimalsAreExact
