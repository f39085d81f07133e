----------------------------- MODULE Statements -----------------------------
(***************************************************************************)
(* What the four builders share: columns, tables, predicates, placeholders *)
(* and the checks of query.go and returning.go that every Build applies.   *)
(*                                                                         *)
(* A statement's text is reduced to its placeholders.  Each placeholder    *)
(* is written at a slot <<clause, item, part, position>>, the place of one *)
(* caller-supplied value: value number position of predicate (or           *)
(* assignment) number part in occurrence number item of a clause.          *)
(***************************************************************************)
EXTENDS Integers, Sequences

Dialects == {"postgresql", "mysql", "sqlite"}

Functions == {"", "COUNT", "SUM", "AVG", "MIN", "MAX"}
ColumnType == [qualifier : STRING, name : STRING, function : Functions]
ForeignKeyType ==
  [columns : Seq(STRING), referencedTable : STRING, referencedColumns : Seq(STRING)]
TableType ==
  [schema : STRING, name : STRING, alias : STRING, dialect : STRING,
   foreignKeys : Seq(ForeignKeyType)]
PredicateType(Values) == [columns : Seq(ColumnType), values : Seq(Values)]
SlotType(Clauses) == Clauses \X Nat \X Nat \X Nat
PlaceholderType(Clauses) == [slot : SlotType(Clauses), number : Nat]

\* A plain column has no function; an aggregate carries the qualifier of its
\* input.  The pair identifies a column in a projection.
Column(qualifier, name) == [qualifier |-> qualifier, name |-> name, function |-> ""]
Aggregate(function, column) == [column EXCEPT !.function = function]
IsAggregate(column) == column.function # ""

\* The name under which a table occurrence is visible; alias "" is no alias.
Qualifier(table) == IF table.alias # "" THEN table.alias ELSE table.name

\* rendererFor fails on a table built outside a generated schema.
HasRenderer(table) == table.dialect \in Dialects

\* A predicate tree, flattened: the columns predicateColumns collects and the
\* values renderPredicate binds, both in text order.
Predicate(columns, values) == [columns |-> columns, values |-> values]

\* validateColumns
InScope(columns, allowed) == \A i \in DOMAIN columns : columns[i].qualifier \in allowed

\* validateNoAggregates
NoAggregates(columns) == \A i \in DOMAIN columns : ~IsAggregate(columns[i])

\* The check of a WHERE or ON list.
RowPredicates(predicates, allowed) ==
  \A i \in DOMAIN predicates :
    /\ InScope(predicates[i].columns, allowed)
    /\ NoAggregates(predicates[i].columns)

\* Appending one rendered predicate to the text: a placeholder per value,
\* numbered from nextArg.
Placeholders(clause, item, part, values, nextArg) ==
  [p \in 1 .. Len(values) |->
     [slot |-> <<clause, item, part, p>>, number |-> nextArg + p - 1]]

\* The value the database binds at the i-th placeholder of a text:
\* PostgreSQL follows the number it was written with ($n), MySQL and SQLite
\* the order of appearance (?).
BoundAt(dialect, text, args, i) ==
  IF dialect = "postgresql" THEN args[text[i].number] ELSE args[i]

\* Every slot of the statement, with the value the database binds there.
BoundSlots(dialect, text, args) ==
  {<<text[i].slot, BoundAt(dialect, text, args, i)>> : i \in DOMAIN text}

\* validateReturning: columns is only looked at when RETURNING was asked for.
ReturningOK(dialect, qualifier, columns, requested) ==
  requested =>
    /\ dialect # "mysql"
    /\ columns # <<>>
    /\ InScope(columns, {qualifier})
    /\ NoAggregates(columns)
=============================================================================
