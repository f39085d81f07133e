SPECIFICATION Spec
CONSTANTS
  v1 = v1
  v2 = v2
  v3 = v3
  v4 = v4
  nil = nil
  Nil = nil
  Values <- AllValues
  Tables <- AllTables
  Assignments <- AllAssignments
  Trees <- AllTrees
  Height <- AllHeights
  Conditions <- AllConditions
  Returned <- AllReturned
  MaxSet = 2
  MaxWhere = 2
INVARIANTS TypeOK RestrictedAsAsked WhereMeansConditions
PROPERTIES KeepsPromise ConditionsStay
