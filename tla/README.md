# A TLA+ verification of tiqq

tiqq is a typed SQL builder for Go. A generator (`tiqq-gen`) reads a live
database and writes typed table definitions; an application combines them into
SELECT, INSERT, UPDATE and DELETE queries, and `Build` turns a query into a
text with placeholders and a list of arguments. tiqq executes nothing itself.

This directory holds TLA+ models of that code, the TLC configurations that
check them on small instances, and proofs about seven of them that TLAPS checks
for every value of the constants.

## 1. The system

| Part | State it keeps | Operations | Source |
|---|---|---|---|
| Typed JOIN tree | typed and nullable column views of both branches, the tables and joins so far | `LeftJoin`, `InnerJoin`, `RightJoin`, `FullJoin`, `CrossJoin`, `On` | `query.go` |
| SELECT builder | predicates, projections, grouping, ordering, counts | `Where`, `Select`, `GroupBy`, `Having`, `Distinct`, `OrderBy`, `Limit`, `Offset`, `Build` | `query.go`, `expression.go` |
| INSERT builder | rows, one conflict clause, one duplicate-key clause, RETURNING | `Values`, `OnConflict`, `OnDuplicateKey`, `Returning`, `Build` | `insert.go`, `mysql/`, `postgres/`, `sqlite/` |
| UPDATE, DELETE builders | assignments, predicates, the AllRows flag | `Set`, `Where`, `AllRows`, `Returning`, `Build` | `update.go`, `delete.go` |
| Predicate trees | immutable trees | `Eq`..., `In`, `And`, `Or`, `Not`, `renderPredicate` | `expression.go`, `column.go` |
| Statements and rows | projection positions, scanned values | `Args`, `ScanRow`, `Get` | `statement.go` |
| Value semantics | the backing arrays of every list of every builder | `appendCopy`, `On`, every method that takes a list | `query.go`, `insert.go`, `update.go`, `expression.go` |
| Introspection | the schema under construction | three catalog queries (PostgreSQL, MySQL), pragmas per table (SQLite) | `introspect/` |
| Code generation | none | `Generate` with its name checks, the metadata and Go types of columns | `codegen/` |
| `tiqq-gen` | a temporary file and the output file | parse, connect, introspect or decode, generate, write | `cmd/tiqq-gen/main.go` |

Interactions. The generator runs once: introspection fills the schema IR, code
generation prints it, `writeGenerated` replaces the output file. The generated
tables carry what the builders check later: columns, foreign keys, insertable
and required columns, unique keys, the dialect. A JOIN tree hands its tables and
joins to a `Query`; a `Query` builds a `Statement`; a `Row` reads values back by
the positions of that statement, with the Go types the generator chose. Nothing
in the library is concurrent. What is: several runs of `tiqq-gen` on one file,
the crash of any of them, and the sessions that change a database while it is
introspected.

What makes it hard, and what must hold:

* **Nullability along a chain of joins.** Each join decides which branch becomes
  nullable, and a later RIGHT or FULL JOIN has to reach back under earlier ones.
  A wrong view compiles and fails on the first null-extended row.
* **One argument counter through five clauses.** ON, WHERE, HAVING, LIMIT and
  OFFSET (in INSERT: every row, then the upsert clause) take numbers from one
  counter; PostgreSQL follows the numbers, MySQL and SQLite the order of
  appearance, so both must agree.
* **Scope that grows while the text is written.** ON sees the tables to its
  left; ON may be inferred, but only from exactly one foreign key.
* **Failure half way.** Build discovers some errors after it has begun to write.
* **A long chain of calls.** Builder methods come in any order, repeat, and go on
  after a Build.
* **Whole-table writes.** UPDATE and DELETE must not lose a condition.
* **Values made of slices.** A query is a struct passed by value, but its lists
  are slices; two queries derived from one may share an array, and so may the
  caller who passed a list.
* **Meaning of a written condition.** A lost parenthesis changes which rows a
  DELETE reaches, and the statement still parses.
* **Several reads of a catalog.** Introspection reads columns, keys and foreign
  keys outside a transaction and joins them by name.
* **Two ends of one type.** The generator fixes a column's Go type, the driver
  delivers whatever it likes, and `Get` must bring both together.
* **Replacing a file.** System calls fail, runs overlap and are killed, machines
  lose power, servers hang.

## 2. Modules

    Statements       columns, tables, predicates, placeholders, shared checks
    BoundStatement   abstract: what every Build promises
      SelectBuild    SELECT        -- MC_SelectBinding, MC_SelectJoins
      InsertBuild    INSERT        -- MC_Insert
      MutationBuild  UPDATE/DELETE -- MC_Mutation
        Predicates   condition trees, their text and what it means
    BuilderValues    abstract: queries are values
      BuilderHeap    the slices behind them -- MC_Builders
    JoinTree         column views against the rows of the database
    Generate         from the database to the source -- MC_Generate
      Catalog        the database and its catalog queries
      Introspect     the three readers
      Codegen        the checks and the metadata of the generator
      Subsequences   picking rows and metadata from lists
    ColumnTypes      the Go types of columns and their aggregates
      RowGet         reading rows -- MC_RowGet (two instances)
    AtomicReplace    abstract: what tiqq-gen promises about its file
      TiqqGen        runs of the command -- MC_TiqqGen
    JoinTreeProofs, SelectBuildProofs, InsertBuildProofs,
    MutationBuildProofs, BuilderHeapProofs, GenerateProofs,
    TiqqGenProofs      theorems
      SequenceLemmas   what the proofs about sequences and recursion share

**JoinTree.** `source` is `JoinSourceInfo` with its two views flattened to one
entry per table, "required" or "nullable". `Join(kind)` is one constructor call.
Beside it the module evaluates the same join: `rows` is the set of row patterns
(which tables a row really comes from) for some database contents, chosen
nondeterministically; `patterns` collects all patterns that any contents can give.

**Statements, BoundStatement.** A predicate is the columns `predicateColumns`
collects and the values `renderPredicate` binds, both in text order. A text is
reduced to its placeholders; each is written at a *slot*, the place of one value
the caller supplied. `BoundAt` is the database's rule for `$n` and for `?`.
BoundStatement says what Build owes its caller: refuse, or bind exactly the
wanted slot-value pairs. The three builders implement it with `result` mapped to
the bound slots of whatever text there is once Build has returned, with an error
or without, so a text kept by an error return would show; that mapping is the
property `KeepsPromise`.

**SelectBuild.** `query` is `Query` with its source. The caller's methods are
actions that are enabled in "source" (still joining) or "query". `Build` performs
all checks of the code that precede the writing in one step; then each join, each
condition, each predicate and each count is a step, so a failure in the middle is
a step like any other. An error return is `Reject`: the partly written text is
gone. `Refine` is the caller going on with the same value.

**InsertBuild.** `NormalizeRow` brings one row into the column order of the first
and checks it; `CheckClauses` is `validateConflict` and `validateDuplicateKey`;
then rows and assignments are written one per step. The dialect packages are the
actions `WithConflict...` and `WithDuplicateKeyDoUpdate`.

**MutationBuild.** `UpdateQuery` and `DeleteQuery` differ only in the SET part,
so `kind` selects whether it is there.

**Predicates.** A condition is a tree (comparisons, AND, OR, NOT); the instance
lists the trees it uses, so that `RenderPredicate` and `PredicateColumns` are
recursive functions, and says how deep each is (`Height`: a tree is built from
finished ones). A text is a sequence of tokens: signs, and comparisons with
the numbers of their placeholders. `Meaning` is the caller's tree in three-valued
logic; `Reading` is the database's: it parses the tokens by precedence and takes
from `bound` what each placeholder was bound to. What cannot be parsed is
`Unreadable`, which is no truth value. MutationBuild uses the trees in
full; SELECT and INSERT keep the flat form of Statements.

**BuilderValues, BuilderHeap.** `heap` is the sequence of backing arrays, each as
long as its capacity; a slice is an array and a length; `GoAppend` is Go's
`append`, which writes into room that is left. `family` is every builder value
the program holds: any of them, however old, may be the receiver of the next
call. Array 1 is the caller's own slice, which it passes to the methods, rewrites
(`Overwrite`) and wraps in `And` (`Combine`). `BehavesAsValues` maps each builder
to what the caller sees through its slices and says that this is BuilderValues,
where calls make new values and nothing else happens.

**Catalog, Introspect, Codegen, Generate.** `catalog` is the database; `DDL` is
another session that creates, alters or drops a table between two queries. The
catalog queries are operators that return rows; for PostgreSQL they follow the
joins by constraint name of `foreignKeysSQL`, and `KeyRows` follows `keysSQL`, which
in MySQL also meets the columns of a foreign key that has the key's name
(`Namesakes`, `Merged`). PostgreSQL and MySQL are read by
`ReadColumns`, `ReadKeys`, `ReadForeignKeys`: rows are grouped by table and
constraint name, and the groups, which the code keeps in a map, are added in any
order. An unknown table name gives index 0, as the Go map does: the first table,
or a panic when there is none ("panicked"). SQLite is read table by table, each
pragma a step, and `ResolveReferencedColumns` comes last. `GenerateSource` is
`Generate`: `NamesOK`, `ReferencesOK`, then what is declared for each table.
An identifier is the sequence of the parts of a name, written with capitals;
which parts a name has is given by the instance (`Parts`, `Capital`, `Singular`).

**ColumnTypes, RowGet.** `goType` and `numericAggregateTypes` are the
generator's tables. RowGet selects expressions, builds (`Positions`), scans a row
whose Go types the driver chooses (`Delivered`), and reads it with any key. As in
`column.go`, COUNT, MIN and MAX are there for every column, SUM and AVG for numeric
ones; where the database has no such aggregate (PostgreSQL's MIN of a UUID), the
statement fails (`ScanRowFails`).
Numbers count halves, so that fractions exist, and integers wrap at a width:
`Bits` maps 8, 16, 32 and 64 to 3, 4, 5 and 6 bits, wide enough that no two
widths agree. Text, documents, UUIDs and times are tagged numbers.

**TiqqGen.** Several runs share an output file. Each step is a system call or a
call of the command, with an alternative in which it fails; `Cleanup` is the
deferred function, `CleanupFails` its ignored `os.Remove` error. `Expire` is the
context's timer. `Kill` and `Crash` are the environment: a power failure may
lose data that was never synced and undo a rename or a removal, so that the
temporary name is there again, or a creation. Data is "full" only once everything
generated was written.

Definitions marked *Fault* are slips of the code (a dropped guard, a counter
that is not advanced). No specification uses them; each is substituted for the
definition next to it to see that a property notices.

## 3. Runs

| Run | Question | Bounds | States |
|---|---|---|---|
| `join_tree` | are the column types right for what the database returns? | up to 3 joins, 5 kinds | 71 963, 2 s |
| `select_binding` | is every value bound once and in place, or nothing at all? | 2 tables, 1 join, 2 WHERE, 1 HAVING; PostgreSQL and SQLite | 305 347, 22 s |
| `select_joins` | does every column resolve; is ON inferred only from the one key; is a join refused only for a reason? | 3 tables of 7, self joins, 3 ON lists | 571 307, 23 s |
| `select_schemas` | does inference stay within a schema? **violated** | as above, "users" in two schemas | |
| `insert` | do rows fill their columns; are values in place? | 2 rows of 6 shapes, 4 conflict targets, 3 dialects | 39 977, 5 s |
| `insert_incoming` | does an incoming-row assignment bind nothing? **violated** | as above, plus `mysql.Inserted` in ON CONFLICT | |
| `mutation` | does every condition reach the text, and mean there what it meant? | 2 assignments, 2 conditions out of 9 lists, trees three deep, 3 dialects | 44 620, 10 s |
| `builder_values` | is a query unchanged by everything done after it was returned? | 4 values, caller's slice of length 1, 1 spare cell | 55 531, 35 s |
| `generate` | is what is generated right although the catalog changes meanwhile? | 6 table names, 3 dialects, 2 changes | 63 152, 20 s |
| `typed_rows` | does Get return what the database holds? | 22 schemas, 2 selected expressions, 2 drivers | 467 280, 61 s |
| `row_decimals` | is a Decimal its exact text? **violated** | one SQLite NUMERIC column | |
| `tiqq_gen` | is the file whole, the exit code right, does a run end? | 2 runs, 1 power failure | 40 931, 20 s |

Why the bounds are enough. Two joins are the first chain in which a RIGHT or
FULL JOIN changes a table typed earlier, three the first in which that happens
twice; beyond that the proofs take over. A value in the wrong place needs two
values in two clauses; the instance has up to eight. Ambiguous, absent and self
references of foreign keys need at most three tables. Two rows are the first
and a later one, the only two kinds the code knows. Two runs suffice to race for
the rename, and one crash to lose what either did not sync. Two builders
derived from one and appended to in turn are the first family in which one can
overwrite the other; the fourth value is the one that shows it, and one spare
cell is room enough to be overwritten. Two changes are a change between two
queries and another before the next, the most that can come apart in a
PostgreSQL read; a SQLite table can be dropped and its referent altered. Two
selected expressions are what it takes to confuse them. Conditions three deep put
an OR under an AND under a NOT. `MaxJoins`, `MaxWhere`, `MaxHaving`, `MaxRows`,
`MaxSet`, `MaxFamily`, `MaxArrays`, `MaxDDL`, `MaxSelected` and `MaxCrashes` bound
the number of calls or events; the code has no such limits.

Deadlock is checked except in `join_tree`, where the chain ends at `MaxJoins`,
and in `tiqq_gen` and `generate`, where the runs end.

**Fairness** (TiqqGen only). `WF(Step(r))`: a process that can run, runs, and
local system calls return; a driver notices that its context is done.
`WF(Expire(r))`: timers fire. There is no fairness on `Answer`, since a server
may never answer, nor on `Decode`, since a pipe may never be closed; so
`Terminates` is stated for runs that read a database. It holds because pinging
and introspecting are given the same context.

### What the violated runs show

* *Inference ignores the schema* (`query.go:612`). A foreign key is compared with
  a table by name only. With `public.users` and `audit.users`, joining
  `audit.users` with a table whose key references `public.users` infers that key.
  The generator is careful to leave keys into other schemas out of the metadata,
  and the README asks for an explicit ON where there is no key.
* *An incoming-row assignment of the wrong clause* (`insert.go:212`).
  `mysql.Inserted(c)` is an `UpdateValue` like any other, so the compiler accepts
  it in PostgreSQL's or SQLite's `DoUpdate`. `renderConflict` does not know it and
  binds its zero value: the column is set to NULL. The other direction is refused.
* *A Decimal read from an integer* (`statement.go:122`). `Decimal` is a string
  type, and `reflect` calls an integer convertible to it. SQLite stores a whole
  number in a NUMERIC column as an integer, so 12 is read as the character with
  code point 12, without an error. README.md and `decimal.go` promise exact
  text. A MySQL YEAR column, whose Go type is `string`, is read in the same way.

### What the properties except

Three of these are at odds with what a reader of the code would expect; they are
written here because the models follow the code.

* `GroupingOK` is `validateGrouping` (`query.go:501`), which looks at GROUP BY and at
  aggregates. HAVING makes a query a grouped one without either, so
  `SELECT id FROM users HAVING id = $1` passes Build and PostgreSQL refuses it.
  `aggregate_test.go:70` states the rule ("having column must be grouped") and tests
  it with GROUP BY. No property is about grouping: it is one check of a query that
  nobody touches between the check and the text.
* In MySQL a UNIQUE key may share its name with a foreign key of its table
  (`mysql.go:144`). `keysSQL` joins `key_column_usage` by name and table, where
  UNIQUE `owner (user, account)` and FOREIGN KEY `owner (user)` both have rows, so
  the key is generated as `(user, user, account)`.
* Scanned into an `any` by native pgx, a `numeric`, `time` or `interval` is a struct of
  pgtype and JSON is unmarshalled; Get has no conversion for these
  (`statement.go:167`), although `README.md:230` says that the same boundary works
  without an adapter.

In the properties:

* `KeysWhereTheyBelong` and `ForeignKeysPairColumns` say nothing of the *first*
  table when a table was created after the columns were read: its keys are filed
  there, because the map of table names answers 0. Without any table the reader
  panics.
* `ForeignKeysPairColumns` is about `UniquelyNamed` keys in PostgreSQL. A
  constraint name is unique per table only, and the query joins by name, so
  equal names yield mixed pairs. That such keys do not spoil the others, and
  that there are as many foreign keys as the table has, is part of the property.
* `KeysWhereTheyBelong` and `MetadataMatchesCatalog` say of a MySQL key that has the
  name of a foreign key of its table only that its columns are those of both
  (`ReadAs`). Keys of every other name have exactly their columns.
* `MetadataMatchesCatalog` leaves MySQL's expression defaults out of the columns
  that can be inserted: the server reports them as DEFAULT_GENERATED, and the
  reader looks for "generated".
* `ReadBack` excepts the conversions in `Misread`, where `reflect` makes something
  else of a value: an integer delivered for text becomes a character (SQLite's
  NUMERIC and MySQL's YEAR), a fraction in an INTEGER column of SQLite is cut off,
  and, after pgx has unmarshalled a document, the string "1" is read as the number
  and the document null as NULL.
* `OnlyKnownRefusals` names what cannot be read: an expression that was not
  selected, NULL under the key of a required column, and what `Unexpected` lists:
  pgx's structs and unmarshalled documents, a fraction or a Boolean in SQLite's
  NUMERIC, a BIGINT UNSIGNED that the MySQL driver delivers as digits, MIN and MAX
  of a DATETIME in SQLite, which has no declared type and arrives as text, and a
  number in a JSON column of SQLite. None of these returns a wrong value.

## 4. Proofs

Assumptions: `MaxJoinsAssumption` (JoinTree), `InputAssumption` (SelectBuild),
`InsertAssumption` (InsertBuild), `MutationAssumption` (MutationBuild, with
`TreesOK` of Predicates), `HeapAssumption` (BuilderHeap), `CatalogAssumption`
(Catalog) and `RunsAssumption` (TiqqGen), which type the constants, say that a tree
is higher than its children and set the first file apart from the runs; TLC
evaluates all of them in the runs above. `CatalogAssumption` is what databases
guarantee of a definition: names are not empty, a foreign key has as many columns
as it references and at least one, and so has a key unless it indexes an
expression; the keys of one table differ in name, and so do its foreign keys and
the keys of tables in other schemas. What it guarantees beyond a definition, that
a foreign key names a key which lists the columns it references, is `Consistent`,
which other sessions preserve. The bounds stay arbitrary: chains have any length, trees any depth,
families any size, databases any tables, and any number of runs overlap. One theorem has a hypothesis of its
own, `OnlyExcluded` (below).

**JoinTreeProofs.** The inductive invariant `Inv` adds to the properties that
the twin is nullable throughout (`TwinIsNullable`: otherwise a RIGHT JOIN could
restore a required view) and that some row pattern exists (`patterns # {}`:
otherwise a join could not exhibit the row that justifies a nullable type). One
lemma says which views a join produces, one that it keeps `Inv`. Theorems:
`TypeCorrect`, `RequiredSound`, `NullableExact`, and the action property
`NullabilityMonotone`.

**SelectBuildProofs.** `ArgumentsInPlace` is not inductive. `BindInv` adds the
types, that Build's locals are empty outside Build (`AtRest`: the caller may
change the query only then), that the counter is one ahead of the arguments
(`Counted`) until OFFSET, after which the code stops counting, and that the
conditions being written are those of the join they stand in or come from a
foreign key and bind nothing (`ConditionsOrigin`: otherwise "the value the caller
put there" would be about another list). `AppendInPlace` is the core: appending
placeholders and the values they mean keeps everything in place.

`ColumnsResolve` looks at a finished statement, but ON is checked while the scope
grows. `ScopeInv` says what is visible after n joins, that every join already
written passed against the tables of its moment (`JoinsDone`), and the same for
the ON under way (`OnUnderWay`), which either is the caller's or came from the one
key there was. It yields `ColumnsResolve` and, from its last part,
`InferredFromOnlyKey`. Conversely, what Build looks at when it gives up is what
`Unwritable` says of the query alone: the foreign keys among which it looks are those
of the tables to the left (`CandidatesAreKeys`), ON sees exactly these tables, a
qualifier out of sight denotes none (`OutOfSight`), and conditions inferred from a
key are never refused (`InferredInScope`); hence `RefusedForAReason`. `SlotProgress` says at every step of
Build which slots the text has by then: all of the clauses passed, and of the
current one those before `index`. With `ArgumentsInPlace` it gives `Refinement`:
Build refuses, and leaves nothing of what was written, or binds exactly what was
wanted. Theorems: `TypeCorrect`, `ArgumentsStayInPlace`, `ColumnsAlwaysResolve`,
`InferenceIsUnique`, `RefusedOnlyForAReason`, `Refinement`.

**InsertBuildProofs.** `BindInv` is `ArgumentsInPlace` with the types, `AtRest`,
`Counted`, that each normalised row is the caller's row in the order of the first
(`RowsPrepared`), how many rows have passed (`RowsProgress`) and which slots are
written (`TextProgress`). `RowFits` is the combinatorial part: a row of as many
values as the first, with distinct columns, each of which the first has too, has
every column of the first, so the lookup that reorders it finds a value each time.
Theorems: `TypeCorrect`, `ArgumentsStayInPlace`, `RowsAreFull`, and `Refinement`
under `OnlyExcluded`: no ON CONFLICT assignment refers to MySQL's row alias. Without
it the promise is broken, as the run `insert_incoming` shows.

**MutationBuildProofs.** First the trees. `RenderingIsFaithful`: for every tree and
every counter, `renderPredicate` returns the tree's values in reading order, numbers
its placeholders consecutively from the counter, advances the counter by as many,
and writes a text that is not empty. It is proved by induction over the height,
and within a node over the children that have been rendered; before that
`ValuesOfDefined` and `RenderDefined` show that the recursive definitions define
functions at all. This is also why SELECT and INSERT may keep a predicate's columns
and values only. Then Build: `BindInv` adds to the types that each placeholder
has the number of its place and its argument is the value meant there
(`InPlace`), which slots are written (`Progress`), that Build does not begin unless
rows are restricted as asked, and that the WHERE text is empty only before the
first condition. Theorems: `TypeCorrect`, `NeverUnrestricted`, the action property
`ConditionsAlwaysStay`, and `Refinement`.

Last, what the WHERE means. `WrittenAsMeant` (by induction over the height) says
that the text of a tree, wherever it stands and with its values bound from there
on, is read as the tree. It needs three things. Parentheses balance and none is
closed too early, so that no sign inside a group is a split of what is around it.
A group's own AND or OR is then the only split, and the last one cuts off the last
child, which makes the reading of k parts a least or greatest truth of k children
(`Chained`, `Combined`), by induction over k. And a comparison finds its own values
again, because the placeholders before it are as many as the values before it.
`WhereShape` joins this to Build: the WHERE text is `Joined` from the conditions
rendered so far, one counter after another from the end of SET, with the arguments
of each behind those of the ones before. `SelectsWhatIsMeant` follows.

**SequenceLemmas.** Appending to a text and its arguments; induction over a set of
numbers, over a rank and over sequences, stated for sets since the library's
theorems take operators; that a recursive definition whose value at x depends on
lower elements only defines a function (`RecursionExists`); and `FlattenSeq`.

**TiqqGenProofs.** That the output file is whole says nothing of what the other
runs hold or of what a crash may bring back. `GenInv` adds `PlaceOK`, which ties
the program counter to the file and the exit code (a run that is about to rename
has synced; one that has not cleaned up has no code yet; one that cleans up after
a commit has renamed),
and `DurableOK`: whatever a power failure may leave under the output name was
synced by a run whose code is "ok". Theorems: `TypeCorrect`, `OutputStaysWhole`,
the action property `LeavesNoLitter` (`EndsClean`: only the end of the deferred
function or a return before the file was created takes a run to its exit), and
`Refinement`: every step is a publication, a departure, a
crash or a stutter of AtomicReplace. A step other than a successful rename is
quiet (`QuietSteps`); `RenameRefines` and `CrashRefines` are the other two.

**GenerateProofs.** `IInv` types the schema under construction (`Typed`: in
particular a column list is never empty and a foreign key has as many columns as
referenced ones, which may be "" in SQLite) and says where the reader is (`Placed`),
that the tables read differ from each other and from those still to read
(`OnceEach`), that no referenced column is missing from the moment the tables are
complete (`Resolved`), and that what is generated was accepted by `Generate`'s
checks (`Accepted`). `OnceEach` is what makes `ResolveReferencedColumns` right:
the table whose primary key is taken must be the one whose length was compared. The
work is in the readers. `KeyRowsType` and `ForeignKeyRowsType` type the rows of
every catalog query, for PostgreSQL by a recursion over the joined rows, which
is a definition only because the join is finite (`JoinIsFinite`). `KeysAdded` and
`ReferencesAdded` follow the walk over the map: whatever the order, each step adds
one group of rows to one table and leaves the tables the same (`Alike`). Between
any two steps another session may change the database; nothing is assumed of its
changes but that they leave what a database guarantees (above). Theorems:

* `TypeCorrect`, `NamesDistinct`, `ReferencesUsable`.
* `KeysReachTheirTables`: a group of rows is one key of one table, whole and in its
  order (`KeyIsGroup`, `GroupIsKey`, `KeyGroup`), or, in MySQL, one key with the
  columns of the foreign key that has its name (`ColumnsUsed`, `NamesApart`); the walk files each group under its
  own table (`FiledWalk`) and takes them all (`AllTaken`). The auxiliary invariant is
  that a table is `Blank` until then (`BlankUntilRead`).
* `ForeignKeysReachTheirTables`: the groups are the foreign keys
  (`GroupsOfReferences`), and the walk gives each a place of its own (`PlacedWalk`).
  In MySQL a group is the constraint's rows by the query (`MySQLGroup`). In
  PostgreSQL the rows come from a join by name and are sorted; for a uniquely named
  constraint the join has one row per column, the one whose referenced column
  stands where `position_in_unique_constraint` says (`PairJoined`, `PairsOnly`), and
  the sort leaves these rows in the order of their columns whatever rows of other
  constraints lie between them (`PostgresGroup`). Constraints that share a name
  still make one group each (`PostgresGroups`), so the tables have the right number
  of foreign keys. This needs the catalog to stay `Consistent`
  (`CatalogStaysConsistent`) and no foreign key to be there before
  (`UnreferencingUntilRead`).

**BuilderHeapProofs.** The inductive invariant `HeapInv` is `TypeOK` with the shape
of the heap made explicit: array 1 is the caller's, and no cell of any array and no
builder holds a slice of it. Every allocating operator only adds arrays (`Grown`)
and returns a slice of a new one (`Allocated`): `MadeAllocates`,
`CopiedAllocates`, and `AppendCopyAllocates`, where append meets an array with
exactly the room it needs. `On` alone writes into an array afterwards, which
`HeapWritten` allows because the copy of the joins is its own; without a join there
would be no copy, but then the code panics. Theorems: `TypeCorrect`, `ArraysStay`,
and `ValuesStay`: what the caller sees through a value, three levels deep, never
changes. `Refinement` adds that each call returns the right value: one lemma per
method (`Follows`) shows that the new value is a successor of what its receiver
showed. What a slice shows (`Shows`) is followed through the allocating operators
and looked at (`Look`) in the old heap, which later heaps agree with (`LookStays`).
It needs `MineInv`: the caller's slice only ever holds leaves and conjunctions of
leaves, so that nothing it passes is deeper than what the caller is shown; `On` and
`Values` hang the list one level lower, where a deeper list would be cut off.

Only model-checked:
`MetadataMatchesCatalog`, which speaks of a database that nobody changed and so
needs, for every step of three readers, what the tables hold of it by then;
everything about rows, where `Get` finds its expression by an identity put
together from strings, of which the provers know only that they are values.
`Terminates` is liveness and beyond the prover.

## 5. Not modelled, and why

* The Go type parameters: scopes and value types are the compiler's to check.
  Panics on misuse (`On` without a join, an empty `In`, an empty alias) disable
  the action.
* Text: quoting, keywords, the order of `SELECT` items. Only what is bound, to
  which table a column belongs and which joins are written.
* SELECT and INSERT use a predicate's columns and values in text order; the
  trees themselves are MutationBuild's. `renderPredicate` is the same function.
* The caller's `[]byte` and `jsontext.Value` arguments: they are passed on to the
  driver by reference. Copying of arguments is modelled for lists, not for the
  bytes of one value.
* Reading: text in INTEGER and NUMERIC columns of SQLite, the timestamps infinity
  and -infinity of PostgreSQL, and a MySQL connection without `parseTime`; a table `a.b` with a column `c` beside a
  table `a` with a column `b.c`, which have one identity.
* Introspection: WITHOUT ROWID tables; SQLite primary keys other than an INTEGER
  rowid, which may hold NULL although the column is typed as required; foreign
  keys of SQLite that spell a table's name in another case.
* Generation: the text of methods and imports, and `go/format`. The empty schema,
  for which the imports are written although nothing uses them, is refused by
  the Go compiler, not by tiqq.
* The example schema and the integration tests are generated code and a use of
  the library.
* `writeGenerated` does not sync the directory, so a replacement that reported
  success may be undone by a power failure; AtomicReplace allows it, since the
  file left behind is whole.

## 6. Plan

1. *Done*: JoinTree, SelectBuild, InsertBuild, MutationBuild, TiqqGen, with the
   abstract specifications BoundStatement and AtomicReplace.
2. *Done*: BuilderHeap against BuilderValues; Predicates; Catalog, Introspect,
   Codegen and Generate; ColumnTypes and RowGet.
3. *Done*: the proofs of section 4.
4. Proofs left: `MetadataMatchesCatalog` of Generate. For PostgreSQL and MySQL the
   two theorems about keys give its keys and foreign keys, and the columns
   remain; for SQLite the loops over tables, indexes and references need an
   invariant of their own, and so does the database standing still.
