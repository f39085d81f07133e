----------------------------- MODULE Introspect -----------------------------
(***************************************************************************)
(* Introspection (introspect/postgres, introspect/mysql,                   *)
(* introspect/sqlite): the schema is read by several queries outside a     *)
(* transaction, each of which sees the catalog of its own moment.          *)
(***************************************************************************)
EXTENDS Catalog

VARIABLES
  pc,
  result,    \* the tables read so far
  names,     \* SQLite: names of the tables still to read
  indexes    \* SQLite: indexes of the current table still to read

introspectVars == <<pc, result, names, indexes>>

Table(name, columns) ==
  [name |-> name, columns |-> columns, primaryKey |-> <<>>, uniqueKeys |-> <<>>,
   foreignKeys |-> <<>>]
ForeignKey(columns, schema, table, referencedColumns) ==
  [columns |-> columns, schema |-> schema, table |-> table,
   referencedColumns |-> referencedColumns]

\* primaryKey is a pointer: a sequence of no or one list of columns.
SetPrimaryKey(tables, i, columns) == [tables EXCEPT ![i].primaryKey = <<columns>>]
AddUniqueKey(tables, i, columns) == [tables EXCEPT ![i].uniqueKeys = Append(@, columns)]
AddForeignKey(tables, i, key) == [tables EXCEPT ![i].foreignKeys = Append(@, key)]

InformationSchema == dialect \in {"postgresql", "mysql"}

IntrospectInit ==
  /\ pc = IF InformationSchema THEN "columns" ELSE "names"
  /\ result = <<>> /\ names = <<>> /\ indexes = <<>>

ReadFails ==
  /\ \/ pc \in {"columns", "keys", "foreign", "names", "indexes", "references"}
     \/ pc = "table" /\ names # <<>>
     \/ pc = "index" /\ indexes # <<>>
  /\ pc' = "failed"
  /\ UNCHANGED <<result, names, indexes>>
-----------------------------------------------------------------------------
(***************************************************************************)
(* PostgreSQL and MySQL: three queries.                                    *)
(***************************************************************************)

\* The extra column of MySQL mentions "generated" for an expression default
\* as well (DEFAULT_GENERATED).
ReportedGenerated(column) ==
  \/ column.kind = "generated"
  \/ dialect = "mysql" /\ column.kind = "expression"

Column(column) ==
  [name |-> column.name, nullable |-> column.nullable,
   default |-> column.kind \in {"default", "expression"},
   generated |-> ReportedGenerated(column), identity |-> column.kind = "identity"]
Columns(definition) ==
  [i \in DOMAIN definition.columns |-> Column(definition.columns[i])]

ReadColumns ==
  /\ pc = "columns"
  /\ result' = LET found == InCatalog(catalog)
               IN [i \in DOMAIN found |-> Table(found[i], Columns(catalog[found[i]]))]
  /\ pc' = "keys"
  /\ UNCHANGED <<names, indexes>>

\* tables[name]: a table that the first query did not see is looked up as 0,
\* the first table.
Index(tables, name) ==
  IF \E i \in DOMAIN tables : tables[i].name = name
  THEN CHOOSE i \in DOMAIN tables : tables[i].name = name ELSE 1

\* Fault: rows are grouped by constraint name alone.
NameAlone(row) == <<row.name>>

\* tableName + "\x00" + name
ID(row) == <<row.table, row.name>>

Groups(rows) == {ID(rows[i]) : i \in DOMAIN rows}
Group(rows, id) == Those(rows, {row \in ToSet(rows) : ID(row) = id})
ColumnsIn(group) == [i \in DOMAIN group |-> group[i].column]

AddKey(rows, tables, id) ==
  LET group == Group(rows, id)
      i     == Index(tables, group[1].table)
  IN IF group[1].kind = "PRIMARY KEY" THEN SetPrimaryKey(tables, i, ColumnsIn(group))
     ELSE AddUniqueKey(tables, i, ColumnsIn(group))

AddReference(rows, tables, id) ==
  LET group == Group(rows, id)
  IN AddForeignKey(tables, Index(tables, group[1].table),
                   ForeignKey(ColumnsIn(group), group[1].schema, group[1].refTable,
                              [i \in DOMAIN group |-> group[i].refColumn]))

\* The groups are in a map, which is walked in any order: after[n] is the
\* result with n of them added.  Without any table there is no index 0.
Collect(rows, Add(_, _), next) ==
  /\ IF result = <<>> /\ rows # <<>>
     THEN pc' = "panicked" /\ UNCHANGED result
     ELSE /\ \E order \in SetToSeqs(Groups(rows)) :
               LET after[n \in 0 .. Len(order)] ==
                     IF n = 0 THEN result ELSE Add(after[n - 1], order[n])
               IN result' = after[Len(order)]
          /\ pc' = next
  /\ UNCHANGED <<names, indexes>>

ReadKeys ==
  LET rows == KeyRows
  IN pc = "keys" /\ Collect(rows, LAMBDA tables, id : AddKey(rows, tables, id), "foreign")

ReadForeignKeys ==
  LET rows == ForeignKeyRows
  IN /\ pc = "foreign"
     /\ Collect(rows, LAMBDA tables, id : AddReference(rows, tables, id), "introspected")
-----------------------------------------------------------------------------
(***************************************************************************)
(* SQLite: a list of names, then pragmas for each table.                   *)
(***************************************************************************)

\* What a pragma returns for a table that is gone: nothing.
Definition(name) ==
  IF name \in DOMAIN catalog THEN catalog[name]
  ELSE [columns |-> <<>>, keys |-> <<>>, foreignKeys |-> <<>>]
current == Len(result)

ReadTableNames ==
  /\ pc = "names"
  /\ names' = InCatalog(catalog)
  /\ pc' = "table"
  /\ UNCHANGED <<result, indexes>>

\* readTable, table_xinfo: a primary key of one INTEGER column is the rowid.
ReadTable ==
  /\ pc = "table" /\ names # <<>>
  /\ LET definition == Definition(Head(names))
         primary    == KeysOf(definition, {"PRIMARY KEY"})
         keyColumns == IF primary = <<>> THEN <<>> ELSE primary[1].columns
         ColumnOf(c) ==
           [name |-> c.name, nullable |-> c.nullable /\ c.name \notin ToSet(keyColumns),
            default |-> c.kind \in {"default", "expression"},
            generated |-> c.kind = "generated",
            identity |-> c.kind = "identity" /\ keyColumns = <<c.name>>]
         table == Table(Head(names), [i \in DOMAIN definition.columns |->
                                        ColumnOf(definition.columns[i])])
     IN result' = Append(result, IF primary = <<>> THEN table
                                 ELSE [table EXCEPT !.primaryKey = <<keyColumns>>])
  /\ pc' = "indexes"
  /\ UNCHANGED <<names, indexes>>

\* Fault: partial unique indexes are taken for keys.
IndexesWithPartial(definition) == KeysOf(definition, {"UNIQUE", "EXPRESSION", "PARTIAL"})

\* index_list: unique, not of the primary key, not partial.
UniqueIndexes(definition) == KeysOf(definition, {"UNIQUE", "EXPRESSION"})

ReadIndexList ==
  /\ pc = "indexes"
  /\ indexes' = LET keys == UniqueIndexes(Definition(Head(names)))
                IN [i \in DOMAIN keys |-> keys[i].name]
  /\ pc' = "index"
  /\ UNCHANGED <<result, names>>

\* index_info: an expression has no column name, and a dropped index no rows.
IndexColumns(name, index) ==
  LET keys  == Definition(name).keys
      found == Those(keys, {k \in ToSet(keys) : k.name = index})
  IN IF found = <<>> \/ found[1].kind = "EXPRESSION" THEN <<>> ELSE found[1].columns

\* Fault: an index without named columns becomes a key.
WithAnyIndex(tables, i, columns) == AddUniqueKey(tables, i, columns)

WithIndex(tables, i, columns) ==
  IF columns = <<>> THEN tables ELSE AddUniqueKey(tables, i, columns)

ReadIndexColumns ==
  /\ pc = "index" /\ indexes # <<>>
  /\ result' = WithIndex(result, current, IndexColumns(Head(names), Head(indexes)))
  /\ indexes' = Tail(indexes)
  /\ UNCHANGED <<pc, names>>

FinishIndexes ==
  /\ pc = "index" /\ indexes = <<>>
  /\ pc' = "references"
  /\ UNCHANGED <<result, names, indexes>>

\* foreign_key_list: an omitted referenced column is NULL, read as "".
KeyListed(f) ==
  ForeignKey(f.columns, Own, f.table,
             IF f.omitted THEN [i \in DOMAIN f.columns |-> ""] ELSE f.referencedColumns)

ReadReferences ==
  /\ pc = "references"
  /\ LET keys == Definition(Head(names)).foreignKeys
     IN result' = [result EXCEPT ![current].foreignKeys =
                     @ \o [i \in DOMAIN keys |-> KeyListed(keys[i])]]
  /\ names' = Tail(names)
  /\ pc' = "table"
  /\ UNCHANGED indexes

Missing(key) == "" \in ToSet(key.referencedColumns)
Referent(key) == {i \in DOMAIN result : result[i].name = key.table}

\* Fault: the lengths of the two column lists are not compared.
ResolvableAnyLength(key) == \E i \in Referent(key) : result[i].primaryKey # <<>>

Resolvable(key) ==
  \E i \in Referent(key) :
    result[i].primaryKey # <<>> /\ Len(result[i].primaryKey[1]) = Len(key.columns)

Resolve(key) ==
  IF ~Missing(key) THEN key
  ELSE [key EXCEPT !.referencedColumns =
          LET i == CHOOSE i \in Referent(key) : TRUE IN result[i].primaryKey[1]]

\* resolveReferencedColumns, after all tables were read.
ResolveReferencedColumns ==
  /\ pc = "table" /\ names = <<>>
  /\ IF \A i \in DOMAIN result : \A key \in ToSet(result[i].foreignKeys) :
          Missing(key) => Resolvable(key)
     THEN /\ pc' = "introspected"
          /\ result' = [i \in DOMAIN result |->
                          LET keys == result[i].foreignKeys
                          IN [result[i] EXCEPT !.foreignKeys =
                                [j \in DOMAIN keys |-> Resolve(keys[j])]]]
     ELSE pc' = "failed" /\ UNCHANGED result
  /\ UNCHANGED <<names, indexes>>

Introspection ==
  \/ ReadColumns \/ ReadKeys \/ ReadForeignKeys
  \/ ReadTableNames \/ ReadTable \/ ReadIndexList \/ ReadIndexColumns \/ FinishIndexes
  \/ ReadReferences \/ ResolveReferencedColumns
  \/ ReadFails
=============================================================================
