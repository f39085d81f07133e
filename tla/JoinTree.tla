------------------------------ MODULE JoinTree ------------------------------
(***************************************************************************)
(* The typed JOIN tree of query.go.                                        *)
(*                                                                         *)
(* A join source carries two column views: the one the caller navigates    *)
(* with Left() and Right(), and a fully nullable twin that a later RIGHT   *)
(* or FULL JOIN swaps in.  Each view is flattened here to one entry per    *)
(* table occurrence, left to right: "required" stands for the concrete     *)
(* column struct of the table, "nullable" for its generated twin in which  *)
(* every column is an sql.Null.                                            *)
(*                                                                         *)
(* Beside the views the module keeps what the database does with the same  *)
(* tree.  A row pattern is the set of table occurrences whose columns come *)
(* from a real row rather than from null-extension.                        *)
(***************************************************************************)
EXTENDS Naturals, Sequences

CONSTANT MaxJoins   \* how many joins a caller chains

ASSUME MaxJoinsAssumption == MaxJoins \in Nat

VARIABLES
  source,     \* JoinSourceInfo: the views of the current Joined value
  patterns,   \* row patterns that some database contents can produce
  rows        \* row patterns the present database contents do produce

vars == <<source, patterns, rows>>

View == {"required", "nullable"}
Kinds == {"LEFT", "INNER", "RIGHT", "FULL", "CROSS"}

Tables == DOMAIN source.columns
-----------------------------------------------------------------------------
(***************************************************************************)
(* The views.                                                              *)
(***************************************************************************)

TableJoinSource == [columns |-> <<"required">>, nullable |-> <<"nullable">>]

\* Fault: the new table is missing from the nullable twin.
TwinForgetsTable(joined) ==
  [columns  |-> Append(joined.left, joined.right),
   nullable |-> joined.nullableLeft]

\* What Joined.TiqqJoinSource hands to the next join.
TiqqJoinSource(joined) ==
  [columns  |-> Append(joined.left, joined.right),
   nullable |-> Append(joined.nullableLeft, joined.nullableRight)]

\* Fault: the typed view of the left branch is stored as its nullable twin.
TwinKeepsTypedView(leftInfo, left, right) ==
  [left |-> left, right |-> right,
   nullableLeft |-> leftInfo.columns, nullableRight |-> "nullable"]

\* The part every constructor shares: both nullable twins are kept.
Joined(leftInfo, left, right) ==
  [left |-> left, right |-> right,
   nullableLeft |-> leftInfo.nullable, nullableRight |-> "nullable"]

\* Fault: RIGHT JOIN leaves the left branch as it was typed.
RightKeepsLeft(info) == Joined(info, info.columns, "required")

\* Fault: CROSS JOIN types its right table as an outer join would.
CrossWeakensRight(info) == Joined(info, info.columns, "nullable")

LeftJoin(info)  == Joined(info, info.columns, "nullable")
InnerJoin(info) == Joined(info, info.columns, "required")
RightJoin(info) == Joined(info, info.nullable, "required")
FullJoin(info)  == Joined(info, info.nullable, "nullable")
CrossJoin(info) == Joined(info, info.columns, "required")

JoinOf(kind, info) ==
  CASE kind = "LEFT"  -> LeftJoin(info)
    [] kind = "INNER" -> InnerJoin(info)
    [] kind = "RIGHT" -> RightJoin(info)
    [] kind = "FULL"  -> FullJoin(info)
    [] kind = "CROSS" -> CrossJoin(info)
-----------------------------------------------------------------------------
(***************************************************************************)
(* The database.  Some left rows match a right row and some do not; two    *)
(* rows of one pattern may do either.  alone says whether the right table  *)
(* holds a row that no left row matched.                                   *)
(***************************************************************************)

KeepsLeft(kind)  == kind \in {"LEFT", "FULL"}
KeepsRight(kind) == kind \in {"RIGHT", "FULL"}

Evaluate(kind, table, matched, unmatched, alone) ==
  {r \union {table} : r \in matched}
    \union (IF KeepsLeft(kind) THEN unmatched ELSE {})
    \union (IF KeepsRight(kind) /\ alone THEN {{table}} ELSE {})

\* CROSS JOIN pairs every left row with every right row, so an unmatched
\* left row means that the right table is empty.
CanMatch(kind, matched, unmatched) ==
  kind = "CROSS" => matched = {} \/ unmatched = {}
-----------------------------------------------------------------------------
Init ==
  /\ source = TableJoinSource
  /\ patterns = {{1}}
  /\ rows \in {{}, {{1}}}

\* One call of LeftJoin, InnerJoin, RightJoin, FullJoin or CrossJoin on the
\* current tree; the right operand is always a table, never a tree.
Join(kind) ==
  LET table == Len(source.columns) + 1 IN
  /\ table <= MaxJoins + 1
  /\ source' = TiqqJoinSource(JoinOf(kind, source))
  /\ patterns' = Evaluate(kind, table, patterns, patterns, TRUE)
  /\ \E matched, unmatched \in SUBSET rows, alone \in BOOLEAN :
       /\ matched \union unmatched = rows
       /\ CanMatch(kind, matched, unmatched)
       /\ rows' = Evaluate(kind, table, matched, unmatched, alone)

Next == \E kind \in Kinds : Join(kind)

Spec == Init /\ [][Next]_vars
-----------------------------------------------------------------------------
(***************************************************************************)
(* Properties.                                                             *)
(***************************************************************************)

\* Both views describe the same table occurrences, and a row pattern only
\* names occurrences of the tree (Joined in query.go).
TypeOK ==
  /\ source \in [columns : Seq(View), nullable : Seq(View)]
  /\ Len(source.columns) \in 1 .. MaxJoins + 1
  /\ Len(source.nullable) = Len(source.columns)
  /\ patterns \subseteq SUBSET Tables
  /\ rows \subseteq SUBSET Tables

\* A table whose columns the tree types as required is present in every row
\* the database returns, whatever it holds and however the joins are
\* chained: row.Get of such a column never meets a null-extended table
\* (README: "Outer joins make the affected branches nullable").
RequiredIsPresent ==
  \A t \in Tables : source.columns[t] = "required" => \A r \in rows : t \in r

\* The converse: a table is typed nullable only when some database contents
\* yield a row without it, so the types never force a needless sql.Null.
NullableIsNeeded ==
  \A t \in Tables : source.columns[t] = "nullable" => \E r \in patterns : t \notin r

\* No later join turns a table that was typed nullable back to required: an
\* INNER JOIN above an outer join must keep the nullability below it.
NullabilityIsKept ==
  [][\A t \in Tables :
        source.columns[t] = "nullable" => source'.columns[t] = "nullable"]_vars
=============================================================================
