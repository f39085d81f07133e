SPECIFICATION Spec
CONSTANTS
  v1 = v1
  v2 = v2
  v3 = v3
  v4 = v4
  v5 = v5
  nil = nil
  Nil = nil
  Dialect = {"postgresql", "mysql", "sqlite", ""}
  IncomingSources = {"excluded"}
  Values <- AllValues
  Targets <- AllTargets
  Rows <- AllRows
  ConflictTargets <- AllConflictTargets
  ConflictLists <- AllConflictLists
  DuplicateLists <- AllDuplicateLists
  Returned <- AllReturned
  MaxRows = 2
INVARIANTS TypeOK ArgumentsInPlace RowsFillColumns
PROPERTY KeepsPromise
