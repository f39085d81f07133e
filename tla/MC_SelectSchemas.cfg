SPECIFICATION Spec
CONSTANTS
  Schemas = {"public", "audit"}
  Values <- NoValues
  FirstTables <- First
  NextTables <- Second
  JoinKinds <- AllKinds
  OnLists <- Lists
  WherePredicates <- Wheres
  HavingPredicates <- NoPredicates
  Selections <- Chosen
  Groupings <- NoLists
  Orderings <- NoLists
  Counts = {}
  MaxJoins = 2
  MaxWhere = 1
  MaxHaving = 0
INVARIANT InferredWithinSchema
