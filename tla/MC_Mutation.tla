----------------------------- MODULE MC_Mutation -----------------------------
(***************************************************************************)
(* UPDATE and DELETE with up to two assignments and two conditions, empty  *)
(* argument lists, columns of another table, aggregates and assignments    *)
(* meant for an upsert, on each dialect and on a table without one.        *)
(***************************************************************************)
EXTENDS MutationBuild

CONSTANTS v1, v2, v3, v4, nil

id == Column("u", "id")
name == Column("u", "name")
foreign == Column("users", "id")   \* the table's name is hidden by its alias

AllTables ==
  {[schema |-> "", name |-> "users", alias |-> "u", dialect |-> d, foreignKeys |-> <<>>] :
     d \in Dialects \union {""}}

Assign(column, value) == [column |-> column, value |-> value, incoming |-> FALSE]
AllAssignments ==
  {<<Assign(name, v1)>>, <<Assign(id, v2), Assign(name, v1)>>, <<Assign(foreign, v1)>>,
   <<[column |-> name, value |-> nil, incoming |-> TRUE]>>}

isId == Compare(id, "=", v3)
isName == Compare(name, "LIKE", v1)
someIds == In(id, "NOT IN", <<v3, v4>>)
noName == IsNull(name, "IS NULL")
same == CompareColumns(id, "<>", id)
isForeign == Compare(foreign, "=", v1)
isMax == Compare(Aggregate("MAX", id), "=", v1)
either == Or(<<isId, noName>>)
neither == Not(Or(<<isName, And(<<same, isId>>)>>))
mixed == And(<<Not(isId), Or(<<someIds, isName>>), And(<<noName>>)>>)
outside == Or(<<isId, Not(isForeign)>>)

AllConditions ==
  {<<>>, <<someIds>>, <<isName, same>>, <<either>>, <<neither>>, <<mixed>>,
   <<isForeign>>, <<outside>>, <<isMax>>}
AllTrees ==
  {isId, isName, someIds, noName, same, isForeign, isMax, either, neither, mixed, outside}
    \union {Or(<<isName, And(<<same, isId>>)>>), And(<<same, isId>>), Not(isId),
            Or(<<someIds, isName>>), And(<<noName>>), Not(isForeign)}
AllHeights ==
  LET height[t \in AllTrees] ==
        IF t.children = <<>> THEN 0 ELSE 1 + Max({height[child] : child \in ToSet(t.children)})
  IN height
AllReturned == {<<id>>, <<>>}
AllValues == {v1, v2, v3, v4}
=============================================================================
