--------------------------- MODULE MC_SelectJoins ---------------------------
(***************************************************************************)
(* SELECT over up to three tables: self joins, tables that no foreign key, *)
(* one or two foreign keys relate, tables of another dialect or schema,    *)
(* and ON lists that mention tables joined only later.                     *)
(***************************************************************************)
EXTENDS SelectBuild

CONSTANT Schemas   \* schemas that hold a table "users"

Key(column, table) ==
  [columns |-> <<column>>, referencedTable |-> table, referencedColumns |-> <<"id">>]

Table(schema, name, alias, d, keys) ==
  [schema |-> schema, name |-> name, alias |-> alias, dialect |-> d, foreignKeys |-> keys]

Users(schema, alias, d) == Table(schema, "users", alias, d, <<Key("manager_id", "users")>>)

address == Table("public", "address", "", "postgresql", <<Key("user_id", "users")>>)
grants  == Table("public", "grants", "", "postgresql",
                 <<Key("owner_id", "users"), Key("user_id", "users"), Key("address_id", "address")>>)
company == Table("public", "company", "", "postgresql", <<>>)
\* A key whose column lists differ in length: hand-written metadata.
broken  == Table("public", "broken", "", "postgresql",
                 <<[columns |-> <<"a", "b">>, referencedTable |-> "users",
                    referencedColumns |-> <<"a">>]>>)
\* A composite key.
branch  == Table("public", "branch", "", "mysql",
                 <<[columns |-> <<"a", "b">>, referencedTable |-> "users",
                    referencedColumns |-> <<"x", "y">>]>>)

First ==
  {Users(s, "", "postgresql") : s \in Schemas} \union {Users("", "", "mysql"), company}
Second ==
  {Users("public", "", "postgresql"), Users("public", "boss", "postgresql"),
   address, grants, company, broken, branch}

Equal(left, right2) == Predicate(<<left, right2>>, <<>>)
Lists ==
  {<<Equal(Column("users", "id"), Column("address", "user_id"))>>,
   <<Equal(Column("users", "id"), Column("grants", "owner_id"))>>,
   <<Equal(Aggregate("MAX", Column("users", "id")), Column("company", "id"))>>}
Chosen == {<<Column("users", "id"), Column("company", "id")>>, <<Column("users", "id")>>}
Wheres == {Predicate(<<Column("address", "id")>>, <<>>)}
NoValues == {}
NoPredicates == {}
NoLists == {}
AllKinds == {"INNER", "FULL", "CROSS"}
=============================================================================
