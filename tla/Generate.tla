------------------------------- MODULE Generate -------------------------------
(***************************************************************************)
(* From the database to the generated source: introspection runs while     *)
(* another session changes the catalog, and what it read goes to Generate. *)
(***************************************************************************)
EXTENDS Introspect, Codegen

VARIABLE source   \* what Generate wrote, a sequence of tables

vars == <<catalogVars, introspectVars, source>>

Init == CatalogInit /\ IntrospectInit /\ source = <<>>

GenerateSource ==
  /\ pc = "introspected"
  /\ IF GenerateOK(Own, result)
     THEN pc' = "generated" /\ source' = Source(Own, result)
     ELSE pc' = "refused" /\ UNCHANGED source
  /\ UNCHANGED <<catalogVars, result, names, indexes>>

Reading == pc \notin {"introspected", "generated", "refused", "failed", "panicked"}

Next ==
  \/ Reading /\ DDL /\ UNCHANGED <<introspectVars, source>>
  \/ Introspection /\ UNCHANGED <<catalogVars, source>>
  \/ GenerateSource

Spec == Init /\ [][Next]_vars
-----------------------------------------------------------------------------
(***************************************************************************)
(* Properties.                                                             *)
(***************************************************************************)

\* A table of the schema under construction: column lists are of its kind, and
\* the tables are those of the catalog's order, each once.
TypeOK ==
  /\ \A i, j \in DOMAIN result : result[i].name = result[j].name => i = j
  /\ \A i \in DOMAIN result :
       /\ result[i].name \in TableNames
       /\ Len(result[i].primaryKey) <= 1
       /\ \A key \in ToSet(result[i].primaryKey \o result[i].uniqueKeys) : key # <<>>
       /\ \A key \in ToSet(result[i].foreignKeys) :
            key.columns # <<>> /\ Len(key.columns) = Len(key.referencedColumns)
  /\ names # <<>> => pc \in {"table", "indexes", "index", "references", "failed"}
  /\ indexes # <<>> => pc \in {"index", "failed"}

\* Where rows can go astray: the first table takes those of tables that the
\* first query did not see.
Settled(tables, i) == i > 1 \/ DOMAIN catalog \subseteq {tables[j].name : j \in DOMAIN tables}

\* What the reader makes of a key: its columns, in their order.  Excepted is a key
\* of MySQL that shares its name with a foreign key of its table, which is read
\* as the columns of both.
ReadAs(columns, definition, k) ==
  IF dialect # "mysql" \/ Namesakes(definition, k) = {} THEN columns = k.columns
  ELSE ToSet(columns) = ToSet(k.columns)
                          \union UNION {ToSet(f.columns) : f \in Namesakes(definition, k)}

\* The lists are the keys of these kinds, each of them and no others.
KeysAre(lists, definition, kinds) ==
  LET keys == ToSet(KeysOf(definition, kinds))
  IN /\ \A k \in keys : \E columns \in lists : ReadAs(columns, definition, k)
     /\ \A columns \in lists : \E k \in keys : ReadAs(columns, definition, k)

\* When PostgreSQL's or MySQL's keys have been read, every table has the keys
\* that the catalog had at that moment, none of another table and no two made
\* one, in whatever order the map was walked; the first table only when no
\* table was created since the columns were read.  Their columns are the
\* catalog's but for the names that ReadAs excepts.
KeysWhereTheyBelong ==
  [][pc = "keys" /\ pc' = "foreign" =>
       \A i \in DOMAIN result' :
         Settled(result', i) =>
           LET now == Definition(result'[i].name)
           IN /\ KeysAre(ToSet(result'[i].primaryKey), now, {"PRIMARY KEY"})
              /\ KeysAre(ToSet(result'[i].uniqueKeys), now, {"UNIQUE"})]_vars

\* A foreign key that shares its name, or the name of the key it references,
\* with no other constraint of the schema.
UniquelyNamed(t, fk) ==
  /\ {r \in References(catalog) : r.fk.name = fk.name} = {[table |-> t, fk |-> fk]}
  /\ \A c \in Constraints : c.schema = fk.schema /\ c.name = fk.key => c.table = fk.table
  /\ \A k \in KeyConstraints(catalog) : k.name # fk.name

Reported(fk) == ForeignKey(fk.columns, fk.schema, fk.table, fk.referencedColumns)

\* When the foreign keys have been read, every table has as many as the catalog
\* had at that moment, and at a place of its own each of them, column by column,
\* also where the referenced key lists its columns in another order (the first
\* table only as above).
\* PostgreSQL's query joins by name, so there the columns are right for unique
\* names; other keys may then be wrong, but do not spoil these.
ForeignKeysPairColumns ==
  [][pc = "foreign" /\ pc' = "introspected" =>
       \A i \in DOMAIN result' :
         Settled(result', i) =>
           LET t    == result'[i].name
               keys == Definition(t).foreignKeys
               read == result'[i].foreignKeys
           IN /\ Len(read) = Len(keys)
              /\ \E place \in [DOMAIN keys -> DOMAIN read] :
                   /\ IsInjective(place)
                   /\ \A m \in DOMAIN keys :
                        dialect = "mysql" \/ UniquelyNamed(t, keys[m]) =>
                          read[place[m]] = Reported(keys[m])]_vars

\* Every name in the generated file is declared once, and no column hides a
\* method: what it accepted, Generate can write.
NamesAreDistinct ==
  pc = "generated" =>
    /\ Distinct([i \in DOMAIN source |-> source[i].declares])
    /\ \A i \in DOMAIN source :
         /\ Cardinality(ToSet(source[i].fields)) = Len(source[i].fields)
         /\ ToSet(source[i].fields) \cap Methods = {}

\* Whatever other sessions did meanwhile, every foreign key that was generated
\* references a generated table, by as many columns as it has and none
\* without a name, so that ON can be inferred from it.
ReferencesAreUsable ==
  pc = "generated" =>
    \A i \in DOMAIN source : \A key \in ToSet(source[i].foreignKeys) :
      /\ key.table \in {source[j].name : j \in DOMAIN source}
      /\ key.columns # <<>> /\ Len(key.columns) = Len(key.referencedColumns)
      /\ "" \notin ToSet(key.referencedColumns)

\* What an application must know of a column to insert a row.
Settable(column) == column.kind \notin {"generated", "identity"}
Demanded(column) == column.kind = "plain" /\ ~column.nullable
ColumnNames(columns, Test(_)) == NamesOf(SelectSeq(columns, LAMBDA c : Test(c)))
BothKinds == {"PRIMARY KEY", "UNIQUE"}
UniqueLists(definition) == {k.columns : k \in ToSet(KeysOf(definition, BothKinds))}

\* With no change meanwhile the generated metadata is the catalog's: which
\* columns an INSERT may set and must set, what can be a conflict target (no
\* partial or expression index), which foreign keys there are within the
\* schema.  Excepted are MySQL's expression defaults, which the code takes for
\* generated columns, the columns of a MySQL key that has the name of a foreign
\* key (ReadAs), and PostgreSQL's shared constraint names.
MetadataMatchesCatalog ==
  pc = "generated" /\ ddl = 0 =>
    /\ {source[i].name : i \in DOMAIN source} = DOMAIN catalog
    /\ \A i \in DOMAIN source :
         LET now   == catalog[source[i].name]
             plain == \A c \in ToSet(now.columns) : c.kind # "expression" \/ dialect # "mysql"
         IN /\ plain => source[i].insertable = ColumnNames(now.columns, Settable)
            /\ source[i].required = ColumnNames(now.columns, Demanded)
            /\ KeysAre(ToSet(source[i].unique), now, BothKinds)
            /\ Len(source[i].unique) = Len(KeysOf(now, BothKinds))
            /\ \/ dialect = "postgresql"
                    /\ \E fk \in ToSet(now.foreignKeys) : ~UniquelyNamed(source[i].name, fk)
               \/ ToSet(source[i].foreignKeys) =
                    {Reported(fk) : fk \in {f \in ToSet(now.foreignKeys) : f.schema = Own}}
=============================================================================
