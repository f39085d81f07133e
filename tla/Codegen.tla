------------------------------- MODULE Codegen -------------------------------
(***************************************************************************)
(* Code generation (codegen/generate.go): the checks of Generate and the   *)
(* metadata it writes for each table.  Names become Go identifiers:        *)
(* a table name loses its plural ending, a name is cut at "_" and "-",     *)
(* and each part is written with a capital.                                *)
(***************************************************************************)
EXTENDS Integers, Sequences, FiniteSets, Subsequences

CONSTANTS
  Singular,     \* singular(name), for each table name
  Parts,        \* the parts of a name, between "_" and "-"
  Capital,      \* a part with its first letter in upper case; "id" is ID
  Unspeakable,  \* identifiers that Go does not accept
  Methods       \* generatedTableMethods

exported(name) == FlattenSeq([i \in DOMAIN Parts[name] |-> Capital[Parts[name][i]]])
TypeName(table) == exported(Singular[table.name])

\* Fault: the twin's type is forgotten.
WithoutTwin(typeName) == <<typeName \o "Scope", typeName \o "TableDef", typeName \o "Table">>

Identifiers(typeName) ==
  <<typeName \o "Scope", typeName \o "TableDef", "Nullable" \o typeName \o "TableDef",
    typeName \o "Table">>

\* Every position of every table has an identifier of its own.
Distinct(lists) ==
  \A i, j \in DOMAIN lists : \A k \in DOMAIN lists[i], l \in DOMAIN lists[j] :
    lists[i][k] = lists[j][l] => i = j /\ k = l

\* validateGeneratedNames
NamesOK(tables) ==
  /\ Distinct([i \in DOMAIN tables |-> Identifiers(TypeName(tables[i]))])
  /\ \A i \in DOMAIN tables :
       LET fields == [j \in DOMAIN tables[i].columns |-> <<exported(tables[i].columns[j].name)>>]
       IN /\ TypeName(tables[i]) \notin Unspeakable
          /\ Distinct(fields)
          /\ \A j \in DOMAIN fields : fields[j][1] \notin Unspeakable \union Methods

\* foreignKeyIsExternal: both schemas are known and differ.
External(own, key) == key.schema # own

\* validateForeignKeys
ReferencesOK(own, tables) ==
  \A i \in DOMAIN tables : \A key \in ToSet(tables[i].foreignKeys) :
    External(own, key) \/ \E j \in DOMAIN tables : tables[j].name = key.table

GenerateOK(own, tables) == NamesOK(tables) /\ ReferencesOK(own, tables)

NamesOf(columns) == [i \in DOMAIN columns |-> columns[i].name]
insertableColumns(columns) ==
  NamesOf(SelectSeq(columns, LAMBDA c : ~c.generated /\ ~c.identity))

\* Fault: a column with a default is required.
RequiredDespiteDefault(columns) ==
  NamesOf(SelectSeq(columns, LAMBDA c : ~c.nullable /\ ~c.generated /\ ~c.identity))

requiredInsertColumns(columns) ==
  NamesOf(SelectSeq(columns, LAMBDA c :
            ~c.nullable /\ ~c.default /\ ~c.generated /\ ~c.identity))
uniqueColumns(table) == table.primaryKey \o table.uniqueKeys

\* writeTable: what the generated source declares for a table.
Written(own, table) ==
  [name |-> table.name,
   declares |-> <<TypeName(table) \o "Scope", TypeName(table) \o "TableDef",
                  "Nullable" \o TypeName(table) \o "TableDef", TypeName(table) \o "Table">>,
   fields |-> [i \in DOMAIN table.columns |-> exported(table.columns[i].name)],
   columns |-> NamesOf(table.columns),
   insertable |-> insertableColumns(table.columns),
   required |-> requiredInsertColumns(table.columns),
   unique |-> uniqueColumns(table),
   foreignKeys |-> Those(table.foreignKeys,
                         {key \in ToSet(table.foreignKeys) : ~External(own, key)})]

\* In the code tables are sorted by name first; every reader returns them so.
Source(own, tables) == [i \in DOMAIN tables |-> Written(own, tables[i])]
=============================================================================
