SPECIFICATION Spec
CONSTANTS
  p = p
  q = q
  Names <- AllNames
  Width = 1
  Spare = 1
  Starts <- AllStarts
  MaxFamily = 4
  MaxArrays = 2
SYMMETRY Names2
INVARIANTS TypeOK
PROPERTIES PublishedArraysStay BehavesAsValues
