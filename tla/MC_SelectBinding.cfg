SPECIFICATION Spec
CONSTANTS
  v1 = v1
  v2 = v2
  v3 = v3
  v4 = v4
  v5 = v5
  v6 = v6
  Values <- AllValues
  FirstTables <- First
  NextTables <- Second
  JoinKinds <- SomeKinds
  OnLists <- Lists
  WherePredicates <- Wheres
  HavingPredicates <- Havings
  Selections <- Chosen
  Groupings <- Groups
  Orderings <- Orders
  Counts <- SomeCounts
  MaxJoins = 1
  MaxWhere = 2
  MaxHaving = 1
INVARIANTS TypeOK ArgumentsInPlace
PROPERTY KeepsPromise
