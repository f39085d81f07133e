------------------------------ MODULE MC_Insert ------------------------------
(***************************************************************************)
(* INSERT of up to two rows whose values come in either column order, with *)
(* every kind of upsert clause, into one table of each dialect.            *)
(***************************************************************************)
EXTENDS InsertBuild

CONSTANTS v1, v2, v3, v4, v5, nil, Dialect,
          IncomingSources   \* the references a conflict assignment may carry

id == Column("users", "id")
name == Column("users", "name")
serial == Column("users", "serial")   \* generated always: not insertable
other == Column("address", "id")

Target(d) ==
  [ref |-> [schema |-> "", name |-> "users", alias |-> "", dialect |-> d, foreignKeys |-> <<>>],
   insertable |-> {"id", "name"}, required |-> {"name"},
   uniqueKeys |-> {{"id"}, {"id", "name"}}]
AllTargets == {Target(d) : d \in Dialect}

Value(column, value) == [column |-> column, value |-> value]
AllRows ==
  {<<Value(id, v1), Value(name, v2)>>, <<Value(name, v3), Value(id, v4)>>,
   <<Value(name, v5)>>, <<Value(name, v5), Value(name, v1)>>,
   <<Value(serial, v1), Value(name, v2)>>, <<>>}

Set(column, value) == [column |-> column, value |-> value, source |-> "value"]
From(source, column) == [column |-> column, value |-> nil, source |-> source]

AllConflictTargets == {<<>>, <<name, id>>, <<name>>, <<other>>}
AllConflictLists ==
  {<<>>, <<Set(name, v5), Set(name, v1)>>}
    \union {<<From(s, id), Set(name, v5)>> : s \in IncomingSources}
AllDuplicateLists ==
  {<<>>, <<From("inserted", name), Set(id, v5)>>, <<From("excluded", name)>>}
AllReturned == {<<id>>, <<Aggregate("COUNT", id)>>}

AllValues == {v1, v2, v3, v4, v5}
=============================================================================
