---------------------------- MODULE SelectBuild -----------------------------
(***************************************************************************)
(* The SELECT builder of query.go: a caller assembles a Query, then Build  *)
(* checks it and writes the statement, one condition per step.             *)
(*                                                                         *)
(* pc is "source" while the caller is still joining tables, "query" once   *)
(* it holds a Query, "join", "on", "where", "having", "limit" and "offset" *)
(* at the matching place of Build, and "built" or "rejected" after it.     *)
(***************************************************************************)
EXTENDS Statements, FiniteSets

CONSTANTS
  Values,                    \* what callers compare columns with
  FirstTables, NextTables,   \* tables a source starts with, tables joined to it
  JoinKinds,                 \* the JOIN constructors the caller uses
  OnLists,                   \* condition lists passed to On
  WherePredicates, HavingPredicates,
  Selections,                \* column lists passed to Select, GroupBy, OrderBy
  Groupings,
  Orderings,
  Counts,                    \* arguments of Limit and Offset
  MaxJoins, MaxWhere, MaxHaving   \* bounds on the chain of calls

ASSUME InputAssumption ==
  /\ FirstTables \subseteq TableType /\ NextTables \subseteq TableType
  /\ OnLists \subseteq Seq(PredicateType(Values))
  /\ WherePredicates \subseteq PredicateType(Values)
  /\ HavingPredicates \subseteq PredicateType(Values)
  /\ Selections \subseteq Seq(ColumnType)
  /\ Groupings \subseteq Seq(ColumnType)
  /\ Orderings \subseteq Seq(ColumnType)
  /\ Counts \subseteq Int
  /\ JoinKinds \subseteq {"LEFT", "INNER", "RIGHT", "FULL", "CROSS"}

VARIABLES
  query,       \* the Query value
  pc,
  index,       \* next element of the list Build is iterating over
  visible,     \* qualifiers already written after FROM
  rendered,    \* JOIN clauses already written
  conditions,  \* conditions of the JOIN being written
  nextArg, args,
  text         \* placeholders already written

locals == <<index, visible, rendered, conditions, nextArg, args, text>>
vars == <<query, pc, locals>>

Clauses == {"ON", "WHERE", "HAVING", "LIMIT", "OFFSET"}
-----------------------------------------------------------------------------
(***************************************************************************)
(* Assembling a Query.  Every method works on a copy, so the calls below   *)
(* are the whole history of one Query value.                               *)
(***************************************************************************)

NewQuery(table) ==
  [tables |-> <<table>>, joins |-> <<>>, predicates |-> <<>>,
   projections |-> <<>>, groupBy |-> <<>>, having |-> <<>>,
   distinct |-> FALSE, orderBy |-> <<>>, limit |-> <<>>, offset |-> <<>>]

\* The local variables of a Build that has not started.
Idle ==
  /\ index = 1 /\ visible = {} /\ rendered = <<>> /\ conditions = <<>>
  /\ nextArg = 1 /\ args = <<>> /\ text = <<>>

Init ==
  /\ \E table \in FirstTables : query = NewQuery(table)
  /\ pc = "source"
  /\ Idle

\* Fault: the joined table is left out of the source's tables.
JoinForgetsTable(kind, right) ==
  /\ pc = "source"
  /\ Len(query.joins) < MaxJoins
  /\ query' = [query EXCEPT
       !.joins = Append(@, [kind |-> kind, right |-> right, conditions |-> <<>>])]
  /\ UNCHANGED <<pc, locals>>

\* withJoin, called by LeftJoin, InnerJoin, RightJoin, FullJoin, CrossJoin.
Join(kind, right) ==
  /\ pc = "source"
  /\ Len(query.joins) < MaxJoins
  /\ query' = [query EXCEPT
       !.tables = Append(@, right),
       !.joins = Append(@, [kind |-> kind, right |-> right, conditions |-> <<>>])]
  /\ UNCHANGED <<pc, locals>>

\* On replaces the conditions of the last join; with no join it panics.
On(list) ==
  /\ pc = "source"
  /\ query.joins # <<>>
  /\ query' = [query EXCEPT !.joins[Len(query.joins)].conditions = list]
  /\ UNCHANGED <<pc, locals>>

\* newQuery: the first call of Where, Select or GroupBy leaves the tree.
StartQuery ==
  /\ pc = "source"
  /\ pc' = "query"
  /\ UNCHANGED <<query, locals>>

Refined(new) == pc = "query" /\ query' = new /\ UNCHANGED <<pc, locals>>

Where(predicate) ==
  /\ Len(query.predicates) < MaxWhere
  /\ Refined([query EXCEPT !.predicates = Append(@, predicate)])
Having(predicate) ==
  /\ Len(query.having) < MaxHaving
  /\ Refined([query EXCEPT !.having = Append(@, predicate)])
Select(columns)  == Refined([query EXCEPT !.projections = columns])
GroupBy(columns) == Refined([query EXCEPT !.groupBy = columns])
OrderBy(columns) == Refined([query EXCEPT !.orderBy = columns])
Distinct         == Refined([query EXCEPT !.distinct = TRUE])
Limit(n)         == Refined([query EXCEPT !.limit = <<n>>])
Offset(n)        == Refined([query EXCEPT !.offset = <<n>>])

Assemble ==
  \/ \E kind \in JoinKinds, right \in NextTables : Join(kind, right)
  \/ \E list \in OnLists : On(list)
  \/ StartQuery
  \/ \E predicate \in WherePredicates : Where(predicate)
  \/ \E predicate \in HavingPredicates : Having(predicate)
  \/ \E columns \in Selections : Select(columns)
  \/ \E columns \in Groupings : GroupBy(columns)
  \/ \E columns \in Orderings : OrderBy(columns)
  \/ Distinct
  \/ \E n \in Counts : Limit(n) \/ Offset(n)
-----------------------------------------------------------------------------
(***************************************************************************)
(* The checks Build makes before it writes.                                *)
(***************************************************************************)

\* queryRenderer
OneDialect(tables) ==
  \A i \in DOMAIN tables :
    HasRenderer(tables[i]) /\ tables[i].dialect = tables[1].dialect

dialect == query.tables[1].dialect

\* validateDistinctTableReferences
DistinctReferences(tables) ==
  \A i, j \in DOMAIN tables : Qualifier(tables[i]) = Qualifier(tables[j]) => i = j

\* queryAllowedColumns
AllowedColumns(tables) == {Qualifier(tables[i]) : i \in DOMAIN tables}

HavingColumns == UNION {{p.columns[c] : c \in DOMAIN p.columns} :
                          p \in {query.having[i] : i \in DOMAIN query.having}}
ColumnSet(columns) == {columns[i] : i \in DOMAIN columns}

\* hasAggregate of validateGrouping
UsesAggregate ==
  \E c \in ColumnSet(query.projections) \union HavingColumns \union ColumnSet(query.orderBy) :
    IsAggregate(c)

\* validateGrouping
GroupingOK ==
  /\ NoAggregates(query.groupBy)
  /\ UsesAggregate \/ query.groupBy # <<>> =>
       \A c \in ColumnSet(query.projections) \union HavingColumns \union ColumnSet(query.orderBy) :
         IsAggregate(c) \/ c \in ColumnSet(query.groupBy)

\* The DISTINCT rule of Build.
DistinctOK ==
  query.distinct => ColumnSet(query.orderBy) \subseteq ColumnSet(query.projections)

CountsOK ==
  /\ query.limit # <<>> => query.limit[1] >= 0
  /\ query.offset # <<>> => query.offset[1] >= 0
  /\ query.offset # <<>> /\ query.limit = <<>> => dialect = "postgresql"

QueryOK ==
  LET allowed == AllowedColumns(query.tables) IN
  /\ query.projections # <<>>
  /\ OneDialect(query.tables)
  /\ DistinctReferences(query.tables)
  /\ InScope(query.projections, allowed)
  /\ RowPredicates(query.predicates, allowed)
  /\ InScope(query.groupBy, allowed)
  /\ InScope(query.orderBy, allowed)
  /\ \A i \in DOMAIN query.having : InScope(query.having[i].columns, allowed)
  /\ GroupingOK
  /\ DistinctOK
  /\ CountsOK
-----------------------------------------------------------------------------
(***************************************************************************)
(* Inferring the ON conditions of a join from foreign keys.                *)
(***************************************************************************)

\* relationPredicateGroups skips a foreign key whose column lists are empty
\* or of different lengths, and compares only the referenced table's name.
Relates(foreignKey, parent) ==
  /\ foreignKey.referencedTable = parent.name
  /\ foreignKey.columns # <<>>
  /\ Len(foreignKey.columns) = Len(foreignKey.referencedColumns)

Links(child, parent) ==
  {<<child, parent, f>> :
     f \in {g \in DOMAIN child.foreignKeys : Relates(child.foreignKeys[g], parent)}}

\* The foreign keys that may supply the conditions, in either direction.
Candidates(tables, seen, right) ==
  UNION {Links(tables[i], right) \union Links(right, tables[i]) :
           i \in {n \in DOMAIN tables : Qualifier(tables[n]) \in seen}}

KeyConditions(link) ==
  LET child  == link[1]
      parent == link[2]
      key    == link[1].foreignKeys[link[3]]
  IN [c \in 1 .. Len(key.columns) |->
        Predicate(<<Column(Qualifier(child), key.columns[c]),
                    Column(Qualifier(parent), key.referencedColumns[c])>>, <<>>)]
-----------------------------------------------------------------------------
(***************************************************************************)
(* Writing the statement.                                                  *)
(***************************************************************************)

buffers == <<nextArg, args, text>>

current == query.joins[Len(rendered) + 1]
right == current.right

\* renderPredicate on one element of a list: a placeholder and an argument
\* per value.
Render(clause, item, part, values) ==
  /\ text' = text \o Placeholders(clause, item, part, values, nextArg)
  /\ args' = args \o values
  /\ nextArg' = nextArg + Len(values)

ClearLocals ==
  /\ index' = 1 /\ visible' = {} /\ rendered' = <<>> /\ conditions' = <<>>
  /\ nextArg' = 1 /\ args' = <<>> /\ text' = <<>>

\* Build called on the current Query: the checks, then the first table.
Build ==
  /\ pc = "query"
  /\ QueryOK
  /\ pc' = "join"
  /\ visible' = {Qualifier(query.tables[1])}
  /\ UNCHANGED <<query, index, rendered, conditions, buffers>>

RefuseQuery ==
  /\ pc = "query"
  /\ ~QueryOK
  /\ pc' = "rejected"
  /\ UNCHANGED <<query, locals>>

\* Fault: an error return keeps what was written so far.
RejectKeepsText == pc' = "rejected" /\ UNCHANGED <<query, locals>>

\* An error return drops the partly written text and its arguments.
Reject == pc' = "rejected" /\ ClearLocals /\ UNCHANGED query

JoinPending == pc = "join" /\ Len(rendered) < Len(query.joins)

RejectFullJoin ==
  /\ JoinPending
  /\ current.kind = "FULL" /\ dialect = "mysql"
  /\ Reject

Written(list) == Append(rendered, [kind |-> current.kind, right |-> right, on |-> list])

\* Fault: CROSS JOIN does not make its table visible to later joins.
CrossStaysInvisible ==
  /\ JoinPending
  /\ current.kind = "CROSS"
  /\ IF current.conditions # <<>> THEN Reject
     ELSE /\ rendered' = Written(<<>>)
          /\ UNCHANGED <<query, pc, index, visible, conditions, buffers>>

CrossJoin ==
  /\ JoinPending
  /\ current.kind = "CROSS"
  /\ IF current.conditions # <<>> THEN Reject
     ELSE /\ rendered' = Written(<<>>)
          /\ visible' = visible \union {Qualifier(right)}
          /\ UNCHANGED <<query, pc, index, conditions, buffers>>

StartOn(list) ==
  /\ pc' = "on"
  /\ index' = 1
  /\ conditions' = list
  /\ UNCHANGED <<query, visible, rendered, buffers>>

HasOn == current.kind # "CROSS" /\ ~(current.kind = "FULL" /\ dialect = "mysql")

ExplicitOn ==
  /\ JoinPending /\ HasOn
  /\ current.conditions # <<>>
  /\ StartOn(current.conditions)

\* Fault: the first of several matching foreign keys is taken.
InferAnyOn ==
  /\ JoinPending /\ HasOn
  /\ current.conditions = <<>>
  /\ LET links == Candidates(query.tables, visible, right) IN
       IF links = {} THEN Reject
       ELSE StartOn(KeyConditions(CHOOSE link \in links : TRUE))

\* inferJoinConditions
InferOn ==
  /\ JoinPending /\ HasOn
  /\ current.conditions = <<>>
  /\ LET links == Candidates(query.tables, visible, right) IN
       IF Cardinality(links) # 1 THEN Reject
       ELSE StartOn(KeyConditions(CHOOSE link \in links : TRUE))

\* Fault: ON is checked against every table of the query.
OnAllowedEverywhere == AllowedColumns(query.tables)

\* ON sees the tables to its left and the table being joined.
OnAllowed == visible \union {Qualifier(right)}

\* Fault: the arguments of ON conditions are not collected.
DropOnValues ==
  /\ pc = "on" /\ index <= Len(conditions)
  /\ LET condition == conditions[index] IN
       IF ~RowPredicates(<<condition>>, OnAllowed) THEN Reject
       ELSE /\ text' = text \o
                 Placeholders("ON", Len(rendered) + 1, index, condition.values, nextArg)
            /\ nextArg' = nextArg + Len(condition.values)
            /\ index' = index + 1
            /\ UNCHANGED <<query, pc, visible, rendered, conditions, args>>

RenderOn ==
  /\ pc = "on" /\ index <= Len(conditions)
  /\ LET condition == conditions[index] IN
       IF ~RowPredicates(<<condition>>, OnAllowed) THEN Reject
       ELSE /\ Render("ON", Len(rendered) + 1, index, condition.values)
            /\ index' = index + 1
            /\ UNCHANGED <<query, pc, visible, rendered, conditions>>

FinishOn ==
  /\ pc = "on" /\ index > Len(conditions)
  /\ rendered' = Written(conditions)
  /\ visible' = visible \union {Qualifier(right)}
  /\ conditions' = <<>> /\ index' = 1 /\ pc' = "join"
  /\ UNCHANGED <<query, buffers>>

\* WHERE and HAVING each join their predicates with AND; an empty list writes
\* nothing.
RenderEach(clause, place, list, next) ==
  /\ pc = place
  /\ IF index <= Len(list)
     THEN /\ Render(clause, 1, index, list[index].values)
          /\ index' = index + 1
          /\ UNCHANGED pc
     ELSE /\ index' = 1 /\ pc' = next
          /\ UNCHANGED buffers
  /\ UNCHANGED <<query, visible, rendered, conditions>>

StartWhere ==
  /\ pc = "join" /\ Len(rendered) = Len(query.joins)
  /\ pc' = "where"
  /\ UNCHANGED <<query, locals>>

\* Fault: WHERE numbers its placeholders from 1 again.
WhereRestartsNumbers ==
  /\ pc = "where"
  /\ IF index <= Len(query.predicates)
     THEN LET values == query.predicates[index].values IN
          /\ text' = text \o Placeholders("WHERE", 1, index, values, 1)
          /\ args' = args \o values
          /\ nextArg' = nextArg + Len(values)
          /\ index' = index + 1
          /\ UNCHANGED pc
     ELSE /\ index' = 1 /\ pc' = "having"
          /\ UNCHANGED buffers
  /\ UNCHANGED <<query, visible, rendered, conditions>>

RenderWhere  == RenderEach("WHERE", "where", query.predicates, "having")
RenderHaving == RenderEach("HAVING", "having", query.having, "limit")

RenderLimit ==
  /\ pc = "limit"
  /\ Render("LIMIT", 1, 1, query.limit)
  /\ pc' = "offset"
  /\ UNCHANGED <<query, index, visible, rendered, conditions>>

\* The last placeholder: nextArg stays where it is.
RenderOffset ==
  /\ pc = "offset"
  /\ text' = text \o Placeholders("OFFSET", 1, 1, query.offset, nextArg)
  /\ args' = args \o query.offset
  /\ pc' = "built"
  /\ UNCHANGED <<query, index, visible, rendered, conditions, nextArg>>

Writing ==
  \/ RejectFullJoin \/ CrossJoin \/ ExplicitOn \/ InferOn \/ RenderOn \/ FinishOn
  \/ StartWhere \/ RenderWhere \/ RenderHaving \/ RenderLimit \/ RenderOffset

\* A Query is a value: after Build the caller may refine it and build again.
Refine ==
  /\ pc \in {"built", "rejected"}
  /\ pc' = "query"
  /\ ClearLocals
  /\ UNCHANGED query

Next == Assemble \/ Build \/ RefuseQuery \/ Writing \/ Refine

Spec == Init /\ [][Next]_vars
-----------------------------------------------------------------------------
(***************************************************************************)
(* Properties.                                                             *)
(***************************************************************************)

JoinType ==
  [kind : JoinKinds, right : TableType, conditions : Seq(PredicateType(Values))]
QueryType ==
  [tables : Seq(TableType), joins : Seq(JoinType),
   predicates : Seq(PredicateType(Values)), projections : Seq(ColumnType),
   groupBy : Seq(ColumnType), having : Seq(PredicateType(Values)),
   distinct : BOOLEAN, orderBy : Seq(ColumnType),
   limit : Seq(Counts), offset : Seq(Counts)]

\* The types, and that the source keeps one table more than it has joins.
TypeOK ==
  /\ query \in QueryType
  /\ Len(query.tables) = Len(query.joins) + 1
  /\ pc \in {"source", "query", "join", "on", "where", "having", "limit", "offset",
             "built", "rejected"}
  /\ index \in Nat \ {0}
  /\ visible \subseteq STRING
  /\ rendered \in Seq([kind : JoinKinds, right : TableType, on : Seq(PredicateType(Values))])
  /\ conditions \in Seq(PredicateType(Values))
  /\ nextArg \in Nat
  /\ args \in Seq(Values \union Counts)
  /\ text \in Seq(PlaceholderType(Clauses))

\* The predicates of one clause occurrence; LIMIT and OFFSET are read as one
\* predicate without columns.
Items(q, clause, item) ==
  CASE clause = "ON"     -> q.joins[item].conditions
    [] clause = "WHERE"  -> q.predicates
    [] clause = "HAVING" -> q.having
    [] clause = "LIMIT"  -> <<Predicate(<<>>, q.limit)>>
    [] clause = "OFFSET" -> <<Predicate(<<>>, q.offset)>>

\* The value the caller put at a slot.
Meant(q, slot) == Items(q, slot[1], slot[2])[slot[3]].values[slot[4]]

SlotsOf(q, clause, item) ==
  UNION {{<<clause, item, part, p>> : p \in DOMAIN Items(q, clause, item)[part].values} :
           part \in DOMAIN Items(q, clause, item)}

\* Every place of the query at which the caller supplied a value.
Slots(q) ==
  (UNION {SlotsOf(q, "ON", item) : item \in DOMAIN q.joins})
    \union SlotsOf(q, "WHERE", 1) \union SlotsOf(q, "HAVING", 1)
    \union SlotsOf(q, "LIMIT", 1) \union SlotsOf(q, "OFFSET", 1)

InPlace(q, placed, bound) ==
  /\ Len(placed) = Len(bound)
  /\ \A i \in DOMAIN placed :
       /\ placed[i].number = i
       /\ bound[i] = Meant(q, placed[i].slot)

\* Every argument so far stands behind exactly one placeholder, in the order
\* of the text and under its own number, and it is the value the caller put
\* there; so a statement means the same with $n and with ? placeholders,
\* although ON, WHERE, HAVING, LIMIT and OFFSET share one counter.
ArgumentsInPlace == InPlace(query, text, args)

Wanted(q) == {<<slot, Meant(q, slot)>> : slot \in Slots(q)}

Promise == INSTANCE BoundStatement WITH
  Queries <- QueryType,
  Wanted  <- Wanted,
  result  <- [status |-> CASE pc = "built" -> "bound" [] pc = "rejected" -> "refused"
                           [] OTHER -> "pending",
              slots  |-> IF pc \in {"built", "rejected"}
                         THEN BoundSlots(dialect, text, args) ELSE {}]

\* Build keeps the promise of BoundStatement: it refuses the query as a whole
\* or binds every value the caller supplied, each once and at its own place.
KeepsPromise == Promise!Spec

\* The table occurrences a qualifier can denote among tables 1 .. n.
Denoted(qualifier, n) ==
  {i \in 1 .. n : Qualifier(query.tables[i]) = qualifier}

Resolves(columns, n) ==
  \A c \in DOMAIN columns : Cardinality(Denoted(columns[c].qualifier, n)) = 1

\* In a statement that was built, every column resolves to one occurrence:
\* in the ON of join j to one of the tables at its left or the joined table,
\* elsewhere to one table of the query (README: "Build checks that ON, WHERE,
\* and SELECT columns belong to the query").
ColumnsResolve ==
  pc = "built" =>
    LET n == Len(query.tables) IN
    /\ Len(rendered) = n - 1
    /\ \A j \in DOMAIN rendered :
         /\ rendered[j].right = query.tables[j + 1]
         /\ \A i \in DOMAIN rendered[j].on : Resolves(rendered[j].on[i].columns, j + 1)
    /\ Resolves(query.projections, n)
    /\ Resolves(query.groupBy, n)
    /\ Resolves(query.orderBy, n)
    /\ \A i \in DOMAIN query.predicates : Resolves(query.predicates[i].columns, n)
    /\ \A i \in DOMAIN query.having : Resolves(query.having[i].columns, n)

\* All foreign keys between the table joined at j and a table to its left.
KeysInto(j) ==
  UNION {Links(query.tables[i], query.tables[j + 1])
           \union Links(query.tables[j + 1], query.tables[i]) : i \in 1 .. j}

\* A join that was built without an explicit ON has the one foreign key that
\* relates it to the tables at its left as its condition; with none or with
\* several Build refused (README: "A unique single-column relation lets Build
\* infer ON").
InferredFromOnlyKey ==
  pc = "built" =>
    \A j \in DOMAIN rendered :
      query.joins[j].conditions = <<>> /\ rendered[j].kind # "CROSS" =>
        \E link \in KeysInto(j) :
          KeysInto(j) = {link} /\ rendered[j].on = KeyConditions(link)

\* What the query itself has against join j: it is a FULL JOIN in MySQL, a CROSS
\* JOIN with conditions, a join without ON that no key or several connect to the
\* tables at its left, or its ON mentions an aggregate or a column that belongs
\* to none of these tables or to several.
Unwritable(j) ==
  LET join == query.joins[j] IN
  \/ join.kind = "FULL" /\ dialect = "mysql"
  \/ join.kind = "CROSS" /\ join.conditions # <<>>
  \/ /\ join.kind # "CROSS" /\ join.conditions = <<>>
     /\ Cardinality(KeysInto(j)) # 1
  \/ \E i \in DOMAIN join.conditions :
       LET columns == join.conditions[i].columns
       IN ~Resolves(columns, j + 1) \/ ~NoAggregates(columns)

\* Build fails among the joins only for a join that cannot be written, however
\* the scope and the text have grown by then: no valid ON is refused because an
\* earlier join was forgotten or an unrelated foreign key was counted.
RefusedForAReason ==
  pc = "rejected" /\ QueryOK => \E j \in DOMAIN query.joins : Unwritable(j)

\* A foreign key relates tables of one schema (the generator drops the keys
\* that leave it), so a join inferred from one should stay inside a schema.
InferredWithinSchema ==
  pc = "built" =>
    \A j \in DOMAIN rendered :
      query.joins[j].conditions = <<>> /\ rendered[j].kind # "CROSS" =>
        \E i \in 1 .. j :
          /\ query.tables[i].schema = query.tables[j + 1].schema
          /\ Links(query.tables[i], query.tables[j + 1])
               \union Links(query.tables[j + 1], query.tables[i]) # {}

=============================================================================
