-------------------------- MODULE MC_SelectBinding --------------------------
(***************************************************************************)
(* SELECT on one or two tables with every clause that binds values and     *)
(* every clause the grouping rules read.                                   *)
(***************************************************************************)
EXTENDS SelectBuild

CONSTANTS v1, v2, v3, v4, v5, v6

AllValues == {v1, v2, v3, v4, v5, v6}

Table(name, d) ==
  [schema |-> "", name |-> name, alias |-> "", dialect |-> d, foreignKeys |-> <<>>]

id     == Column("users", "id")
name   == Column("users", "name")
userId == Column("address", "user_id")
count  == Aggregate("COUNT", id)

First == {Table("users", "postgresql"), Table("users", "sqlite")}
Second == {Table("address", "postgresql"), Table("address", "sqlite")}

Lists ==
  {<<Predicate(<<id, userId>>, <<>>), Predicate(<<userId>>, <<v1>>)>>,
   <<Predicate(<<userId, id>>, <<v2, v1>>)>>,
   <<Predicate(<<userId>>, <<v1>>), Predicate(<<Column("orders", "id")>>, <<v2>>)>>}
Wheres == {Predicate(<<id, name>>, <<v3, v4>>)}
Havings == {Predicate(<<count>>, <<v5>>), Predicate(<<id>>, <<v6>>)}
Chosen == {<<id>>, <<count>>, <<id, count>>}
Groups == {<<id>>}
Orders == {<<name>>, <<count>>}
SomeKinds == {"INNER", "CROSS"}
SomeCounts == {-1, 7}
=============================================================================
