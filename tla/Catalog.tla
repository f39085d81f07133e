------------------------------- MODULE Catalog -------------------------------
(***************************************************************************)
(* The database that tiqq-gen introspects: its tables, who else changes    *)
(* them, and what its catalog queries return.  None of this is tiqq's code *)
(* except the text of the queries.                                         *)
(***************************************************************************)
EXTENDS Integers, Sequences, FiniteSets, Subsequences

CONSTANTS
  TableOrder,    \* the table names there can be, in alphabetical order
  Definitions,   \* Definitions[t]: what table t can look like
  Initially,     \* what the database can hold when introspection begins
  Elsewhere,     \* key constraints of other schemas that foreign keys may reference
  MaxDDL         \* bound: changes made meanwhile

VARIABLES
  dialect,
  catalog,       \* from the names of the tables to their definitions
  ddl            \* number of changes made since introspection began

catalogVars == <<dialect, catalog, ddl>>

Own == "own"     \* the schema that is read
TableNames == ToSet(TableOrder)

\* A default is a constant or an expression; unique indexes that are PARTIAL or
\* index an EXPRESSION are not constraints.  A foreign key has as many columns
\* as it references, which SQLite lets one omit.
Identifier == STRING \ {""}
ColumnList == Seq(Identifier) \ {<<>>}
Schemas == {Own} \union {k.schema : k \in Elsewhere}
ColumnDefinition ==
  [name : Identifier, nullable : BOOLEAN,
   kind : {"plain", "default", "expression", "generated", "identity"}]
KeyDefinition ==
  {k \in [name : Identifier, kind : {"PRIMARY KEY", "UNIQUE", "PARTIAL", "EXPRESSION"},
          columns : Seq(Identifier)] : k.kind # "EXPRESSION" => k.columns # <<>>}
ForeignKeyDefinition ==
  {f \in [name : Identifier, columns : ColumnList, schema : Schemas, table : Identifier,
          key : STRING, referencedColumns : ColumnList, omitted : BOOLEAN] :
     Len(f.columns) = Len(f.referencedColumns)}
\* A table has at most one primary key, and its keys have names of their own, and
\* so have its foreign keys (SQLite's, whose names nobody reads, are given some).
KeysDiffer(keys) ==
  \A i, j \in DOMAIN keys :
    keys[i].name = keys[j].name \/ {keys[i].kind, keys[j].kind} = {"PRIMARY KEY"} => i = j
ReferencesDiffer(keys) == \A i, j \in DOMAIN keys : keys[i].name = keys[j].name => i = j
DefinitionType ==
  {d \in [columns : Seq(ColumnDefinition), keys : Seq(KeyDefinition),
          foreignKeys : Seq(ForeignKeyDefinition)] :
     KeysDiffer(d.keys) /\ ReferencesDiffer(d.foreignKeys)}
IsDatabase(tables) ==
  DOMAIN tables \subseteq TableNames /\ \A t \in DOMAIN tables : tables[t] \in DefinitionType

ASSUME CatalogAssumption ==
  /\ TableOrder \in Seq(Identifier) /\ IsInjective(TableOrder)
  /\ \A t \in TableNames : Definitions[t] \subseteq DefinitionType
  /\ \A tables \in Initially : IsDatabase(tables)
  /\ IsFiniteSet(Elsewhere)
  /\ Elsewhere \subseteq [schema : STRING \ {Own}, table : Identifier, name : Identifier,
                          kind : STRING, columns : ColumnList]
  /\ \A k, l \in Elsewhere :
       k.schema = l.schema /\ k.table = l.table /\ k.name = l.name => k = l

InCatalog(tables) == Those(TableOrder, DOMAIN tables)

KeysOf(definition, kinds) ==
  Those(definition.keys, {k \in ToSet(definition.keys) : k.kind \in kinds})

Constraint(t, k) ==
  [schema |-> Own, table |-> t, name |-> k.name, kind |-> k.kind, columns |-> k.columns]
KeyConstraints(tables) ==
  UNION {{Constraint(t, k) : k \in {x \in ToSet(tables[t].keys) :
                                      x.kind \in {"PRIMARY KEY", "UNIQUE"}}} :
           t \in DOMAIN tables}
References(tables) ==
  UNION {{[table |-> t, fk |-> f] : f \in ToSet(tables[t].foreignKeys)} : t \in DOMAIN tables}

\* A foreign key references a key that exists; SQLite does not ask until rows
\* are written.  PostgreSQL's keys are indexes, whose names are the schema's;
\* a foreign key may share its name, but not with a key of its own table, as it
\* may in MySQL, where each kind of constraint has names of its own.  Every
\* primary key of MySQL is called PRIMARY, and it has no partial index.
Consistent(tables) ==
  /\ dialect # "sqlite" =>
       \A r \in References(tables) :
         \E k \in KeyConstraints(tables) \union Elsewhere :
           /\ k.schema = r.fk.schema /\ k.table = r.fk.table /\ k.name = r.fk.key
           /\ ToSet(k.columns) = ToSet(r.fk.referencedColumns)
  /\ dialect = "postgresql" =>
       /\ \A k, l \in KeyConstraints(tables) : k.name = l.name => k = l
       /\ \A r \in References(tables), k \in KeyConstraints(tables) :
            r.table = k.table => r.fk.name # k.name
  /\ \A t \in DOMAIN tables : \A k \in ToSet(tables[t].keys) :
       /\ k.kind = "PRIMARY KEY" => (k.name = "PRIMARY") = (dialect = "mysql")
       /\ dialect = "mysql" => k.kind \in {"PRIMARY KEY", "UNIQUE"}

\* Another session creates, alters or drops a table.
Change(tables) ==
  /\ ddl < MaxDDL
  /\ tables # catalog /\ Consistent(tables)
  /\ catalog' = tables
  /\ ddl' = ddl + 1
  /\ UNCHANGED dialect

Drop(t) == Change([u \in DOMAIN catalog \ {t} |-> catalog[u]])
Define(t, definition) ==
  Change([u \in DOMAIN catalog \union {t} |-> IF u = t THEN definition ELSE catalog[u]])

DDL ==
  \E t \in TableNames : Drop(t) \/ \E definition \in Definitions[t] : Define(t, definition)

CatalogInit ==
  /\ dialect \in {"postgresql", "mysql", "sqlite"}
  /\ catalog \in Initially /\ Consistent(catalog)
  /\ ddl = 0
-----------------------------------------------------------------------------
(***************************************************************************)
(* Rows of the catalog queries.                                            *)
(***************************************************************************)

Rows(tables, RowsOf(_)) ==
  LET names == InCatalog(tables) IN FlattenSeq([i \in DOMAIN names |-> RowsOf(names[i])])

\* key_column_usage does not say which kind of constraint a row is of.  In MySQL
\* a foreign key may share its name with a key of its table: then the rows of
\* both are there.
Namesakes(definition, k) == {f \in ToSet(definition.foreignKeys) : f.name = k.name}

\* Two column lists by ordinal_position; of the same place the key's comes first
\* here, where the query leaves it open.
AtPlace(columns, i) == IF i \in DOMAIN columns THEN <<columns[i]>> ELSE <<>>
Merged(columns, others) ==
  FlattenSeq([i \in 1 .. Len(columns) + Len(others) |-> AtPlace(columns, i) \o AtPlace(others, i)])

UsedColumns(t, k) ==
  IF Namesakes(catalog[t], k) = {} THEN k.columns
  ELSE Merged(k.columns, (CHOOSE f \in Namesakes(catalog[t], k) : TRUE).columns)

\* keysSQL, the same in mysql.go and postgres.go: key_column_usage is joined by
\* schema, constraint name and table name.
KeyRows ==
  Rows(catalog, LAMBDA t :
    LET keys == KeysOf(catalog[t], {"PRIMARY KEY", "UNIQUE"})
    IN FlattenSeq([i \in DOMAIN keys |->
         LET used == UsedColumns(t, keys[i])
         IN [j \in DOMAIN used |->
               [table |-> t, name |-> keys[i].name, kind |-> keys[i].kind, column |-> used[j]]]]))

ForeignKeyRow(t, name, column, schema, refTable, refColumn) ==
  [table |-> t, name |-> name, column |-> column, schema |-> schema,
   refTable |-> refTable, refColumn |-> refColumn]

\* foreignKeysSQL of mysql.go: one row of key_column_usage per column.
MySQLForeignKeyRows ==
  Rows(catalog, LAMBDA t :
    LET keys == catalog[t].foreignKeys
    IN FlattenSeq([i \in DOMAIN keys |->
         [j \in DOMAIN keys[i].columns |->
            ForeignKeyRow(t, keys[i].name, keys[i].columns[j], keys[i].schema,
                          keys[i].table, keys[i].referencedColumns[j])]]))

\* key_column_usage of PostgreSQL: position is the place of the referenced
\* column in its key, 0 (NULL) for a column of a key.
Place(column, columns) == CHOOSE i \in DOMAIN columns : columns[i] = column
KeyUsage ==
  (UNION {{[schema |-> k.schema, table |-> k.table, name |-> k.name, ordinal |-> i,
            column |-> k.columns[i], position |-> 0] : i \in DOMAIN k.columns} :
            k \in KeyConstraints(catalog) \union Elsewhere})
  \union
  (UNION {{[schema |-> Own, table |-> r.table, name |-> r.fk.name, ordinal |-> i,
            column |-> r.fk.columns[i],
            position |-> LET k == CHOOSE k \in KeyConstraints(catalog) \union Elsewhere :
                                    k.schema = r.fk.schema /\ k.table = r.fk.table
                                      /\ k.name = r.fk.key
                         IN Place(r.fk.referencedColumns[i], k.columns)] :
             i \in DOMAIN r.fk.columns} : r \in References(catalog)})
Constraints ==
  {[schema |-> k.schema, table |-> k.table, name |-> k.name] :
     k \in KeyConstraints(catalog) \union Elsewhere}
  \union {[schema |-> Own, table |-> r.table, name |-> r.fk.name] : r \in References(catalog)}

\* foreignKeysSQL of postgres.go: every join is by schema and constraint name
\* alone.  Rows of the same place come in any order; only keys that share a
\* name have such rows, and here they come in one order.
Referencing ==
  {x \in [fk : References(catalog), fkc : KeyUsage] :
     x.fkc.schema = Own /\ x.fkc.name = x.fk.fk.name}
Referenced ==
  {x \in [rc : References(catalog), pk : Constraints, pkc : KeyUsage] :
     /\ x.pk.schema = x.rc.fk.schema /\ x.pk.name = x.rc.fk.key
     /\ x.pkc.schema = x.pk.schema /\ x.pkc.name = x.pk.name}

\* Fault: columns are paired by their places in the two keys.
PairedByOrdinal(fkc, pkc) == pkc.ordinal = fkc.ordinal

Paired(fkc, pkc) == pkc.ordinal = fkc.position

PostgresJoin ==
  {x \in [from : Referencing, to : Referenced] :
     x.to.rc.fk.name = x.from.fk.fk.name /\ Paired(x.from.fkc, x.to.pkc)}
First(S) == CHOOSE x \in S : \A y \in S : x.from.fkc.ordinal <= y.from.fkc.ordinal
PostgresForeignKeyRows ==
  LET sorted[S \in SUBSET PostgresJoin] ==
        IF S = {} THEN <<>> ELSE <<First(S)>> \o sorted[S \ {First(S)}]
      rows == sorted[PostgresJoin]
  IN [i \in DOMAIN rows |->
        LET x == rows[i]
        IN ForeignKeyRow(x.from.fk.table, x.from.fk.fk.name, x.from.fkc.column,
                         x.to.pk.schema, x.to.pk.table, x.to.pkc.column)]

ForeignKeyRows == IF dialect = "mysql" THEN MySQLForeignKeyRows ELSE PostgresForeignKeyRows
=============================================================================
