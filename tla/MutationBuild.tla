---------------------------- MODULE MutationBuild ----------------------------
(***************************************************************************)
(* The UPDATE and DELETE builders of update.go and delete.go.  A DELETE is *)
(* the same Build without the SET part.                                    *)
(***************************************************************************)
EXTENDS Predicates

CONSTANTS
  Values, Nil,      \* what callers write; the value of an incoming-row assignment
  Tables,
  Assignments,      \* argument lists of Set
  Conditions,       \* argument lists of Where
  Returned,         \* column lists of Returning
  MaxSet, MaxWhere  \* bounds on the length of the two lists

AssignmentType ==
  [column : ColumnType, value : Values \union {Nil}, incoming : BOOLEAN]

ASSUME MutationAssumption ==
  /\ Tables \subseteq TableType
  /\ Assignments \subseteq Seq(AssignmentType)
  /\ TreesOK
  /\ \A t \in Trees : t.values \in Seq(Values) /\ t.columns \in Seq(ColumnType)
  /\ Conditions \subseteq Seq(Trees)
  /\ Returned \subseteq Seq(ColumnType)
  /\ MaxSet \in Nat /\ MaxWhere \in Nat

VARIABLES
  query,
  pc,        \* "query", "set", "where", "built" or "rejected"
  index,     \* next assignment or predicate
  where,     \* what is written after WHERE
  nextArg, args,
  text       \* placeholders already written

buffers == <<nextArg, args, text>>
locals == <<index, where, buffers>>
vars == <<query, pc, locals>>

Clauses == {"SET", "WHERE"}
Kinds == {"UPDATE", "DELETE"}

dialect == query.table.dialect
scope == Qualifier(query.table)
-----------------------------------------------------------------------------
(***************************************************************************)
(* Assembling the query.                                                   *)
(***************************************************************************)

NewMutation(kind, table) ==
  [kind |-> kind, table |-> table, assignments |-> <<>>, predicates |-> <<>>,
   allRows |-> FALSE, returning |-> <<>>, returns |-> FALSE]

Init ==
  /\ \E kind \in Kinds, table \in Tables : query = NewMutation(kind, table)
  /\ pc = "query"
  /\ index = 1 /\ where = <<>> /\ nextArg = 1 /\ args = <<>> /\ text = <<>>

Refined(new) == pc = "query" /\ query' = new /\ UNCHANGED <<pc, locals>>

Set(list) ==
  /\ query.kind = "UPDATE"
  /\ Len(query.assignments) + Len(list) <= MaxSet
  /\ Refined([query EXCEPT !.assignments = @ \o list])

\* Fault: a later Where replaces the predicates of an earlier one.
WhereReplaces(list) ==
  /\ Len(query.predicates) + Len(list) <= MaxWhere
  /\ Refined([query EXCEPT !.predicates = list])

Where(list) ==
  /\ Len(query.predicates) + Len(list) <= MaxWhere
  /\ Refined([query EXCEPT !.predicates = @ \o list])

AllRows == Refined([query EXCEPT !.allRows = TRUE])

Returning(columns) ==
  Refined([query EXCEPT !.returns = TRUE, !.returning = columns])

Assemble ==
  \/ \E list \in Assignments : Set(list)
  \/ \E list \in Conditions : Where(list)
  \/ AllRows
  \/ \E columns \in Returned : Returning(columns)
-----------------------------------------------------------------------------
(***************************************************************************)
(* Build.                                                                  *)
(***************************************************************************)

\* The checks only UPDATE makes.
AssignmentsOK ==
  /\ query.assignments # <<>>
  /\ \A i \in DOMAIN query.assignments :
       /\ ~query.assignments[i].incoming
       /\ query.assignments[i].column.qualifier = scope
  /\ \A i, j \in DOMAIN query.assignments :
       query.assignments[i].column = query.assignments[j].column => i = j

\* Fault: only DELETE asks for a WHERE or AllRows.
OnlyDeleteAsks == query.predicates # <<>> \/ query.allRows \/ query.kind = "UPDATE"

RowsPermitted == query.predicates # <<>> \/ query.allRows

QueryOK ==
  /\ HasRenderer(query.table)
  /\ query.kind = "UPDATE" => AssignmentsOK
  /\ RowsPermitted
  /\ ReturningOK(dialect, scope, query.returning, query.returns)
  /\ RowPredicates([i \in DOMAIN query.predicates |->
                      Predicate(PredicateColumns[query.predicates[i]], <<>>)], {scope})

Build ==
  /\ pc = "query"
  /\ pc' = IF ~QueryOK THEN "rejected" ELSE IF query.kind = "UPDATE" THEN "set" ELSE "where"
  /\ UNCHANGED <<query, locals>>

\* The placeholders numbers, which stand for parts 1, 2, ... of item index.
Slotted(clause, numbers) ==
  [p \in DOMAIN numbers |-> [slot |-> <<clause, 1, index, p>>, number |-> numbers[p]]]

Write(clause, numbers, values, next) ==
  /\ text' = text \o Slotted(clause, numbers)
  /\ args' = args \o values
  /\ nextArg' = next

\* Fault: SET does not advance the argument number.
SetKeepsNumber ==
  /\ pc = "set"
  /\ IF index <= Len(query.assignments)
     THEN /\ Write("SET", <<nextArg>>, <<query.assignments[index].value>>, nextArg)
          /\ index' = index + 1
          /\ UNCHANGED pc
     ELSE pc' = "where" /\ index' = 1 /\ UNCHANGED buffers
  /\ UNCHANGED <<query, where>>

RenderSet ==
  /\ pc = "set"
  /\ IF index <= Len(query.assignments)
     THEN /\ Write("SET", <<nextArg>>, <<query.assignments[index].value>>, nextArg + 1)
          /\ index' = index + 1
          /\ UNCHANGED pc
     ELSE pc' = "where" /\ index' = 1 /\ UNCHANGED buffers
  /\ UNCHANGED <<query, where>>

\* One predicate, after an AND if it is not the first, numbered from first.
RenderCondition(first) ==
  LET condition == RenderPredicate[query.predicates[index]][first]
      glue      == IF index = 1 THEN <<>> ELSE <<Sign("AND")>>
  IN /\ where' = where \o glue \o condition.text
     /\ Write("WHERE", Numbers(condition.text), condition.args, condition.next)

\* Fault: WHERE starts numbering afresh.
WhereRestartsNumbers ==
  /\ pc = "where"
  /\ IF index <= Len(query.predicates)
     THEN RenderCondition(index) /\ index' = index + 1 /\ UNCHANGED pc
     ELSE pc' = "built" /\ index' = 1 /\ UNCHANGED <<where, buffers>>
  /\ UNCHANGED query

RenderWhere ==
  /\ pc = "where"
  /\ IF index <= Len(query.predicates)
     THEN RenderCondition(nextArg) /\ index' = index + 1 /\ UNCHANGED pc
     ELSE pc' = "built" /\ index' = 1 /\ UNCHANGED <<where, buffers>>
  /\ UNCHANGED query

\* The query is a value: after Build the caller may extend it.
Refine ==
  /\ pc \in {"built", "rejected"}
  /\ pc' = "query"
  /\ index' = 1 /\ where' = <<>> /\ nextArg' = 1 /\ args' = <<>> /\ text' = <<>>
  /\ UNCHANGED query

Next == Assemble \/ Build \/ RenderSet \/ RenderWhere \/ Refine

Spec == Init /\ [][Next]_vars
-----------------------------------------------------------------------------
(***************************************************************************)
(* Properties.                                                             *)
(***************************************************************************)

QueryType ==
  [kind : Kinds, table : TableType, assignments : Seq(AssignmentType),
   predicates : Seq(Trees), allRows : BOOLEAN,
   returning : Seq(ColumnType), returns : BOOLEAN]

\* The types; only an UPDATE has assignments, and the counter is one ahead of
\* the arguments.
TypeOK ==
  /\ query \in QueryType
  /\ query.kind = "DELETE" => query.assignments = <<>>
  /\ pc \in {"query", "set", "where", "built", "rejected"}
  /\ index \in Nat \ {0}
  /\ Numbers(where) \in Seq(Nat)
  /\ nextArg = Len(args) + 1
  /\ args \in Seq(Values \union {Nil})
  /\ text \in Seq(PlaceholderType(Clauses))

Meant(q, slot) ==
  IF slot[1] = "SET" THEN q.assignments[slot[3]].value
  ELSE ValuesOf[q.predicates[slot[3]]][slot[4]]

Slots(q) ==
  {<<"SET", 1, i, 1>> : i \in DOMAIN q.assignments}
    \union (UNION {{<<"WHERE", 1, i, p>> : p \in DOMAIN ValuesOf[q.predicates[i]]} :
                     i \in DOMAIN q.predicates})

Wanted(q) == {<<slot, Meant(q, slot)>> : slot \in Slots(q)}

Promise == INSTANCE BoundStatement WITH
  Queries <- QueryType,
  Wanted  <- Wanted,
  result  <- [status |-> CASE pc = "built" -> "bound" [] pc = "rejected" -> "refused"
                           [] OTHER -> "pending",
              slots  |-> IF pc \in {"built", "rejected"}
                         THEN BoundSlots(dialect, text, args) ELSE {}]

\* Build keeps the promise of BoundStatement: it refuses the statement as a
\* whole, or binds every assigned value in SET and every compared value in
\* WHERE, though both count with one counter.
KeepsPromise == Promise!Spec

\* A statement that was built has a WHERE, or the caller called AllRows: no
\* UPDATE or DELETE reaches a whole table by an empty list of conditions.
RestrictedAsAsked == pc = "built" /\ where = <<>> => query.allRows

\* What the database binds at each placeholder of the WHERE.
BoundInWhere ==
  LET before == Len(query.assignments)
  IN [k \in 1 .. Len(Numbers(where)) |-> BoundAt(dialect, text, args, before + k)]

Atoms ==
  (UNION {AtomsOf[query.predicates[i]] : i \in DOMAIN query.predicates})
    \union {AtomAt(where, BoundInWhere, i) :
               i \in {j \in DOMAIN where : where[j].token = "compare"}}

\* The WHERE of a built statement, as the database parses it and with the
\* values it binds, selects a row exactly when every condition the caller gave
\* does, in three-valued logic: no OR or NOT escapes its parentheses, no value
\* reaches another comparison.  It names no column of another table.
WhereMeansConditions ==
  pc = "built" /\ where # <<>> =>
    /\ \A row \in [Atoms -> Truths] :
         Reading(where, BoundInWhere, row)
           = Least({Meaning(query.predicates[i], row) : i \in DOMAIN query.predicates})
    /\ \A i \in DOMAIN where : InScope(where[i].columns, {scope})

\* Once the caller has given a condition no further call takes it away: a
\* narrowed UPDATE or DELETE never widens to more rows.
ConditionsStay ==
  [][\A i \in DOMAIN query.predicates :
        /\ i \in DOMAIN query'.predicates
        /\ query'.predicates[i] = query.predicates[i]]_vars
=============================================================================
