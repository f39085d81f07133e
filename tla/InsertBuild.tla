----------------------------- MODULE InsertBuild -----------------------------
(***************************************************************************)
(* The INSERT builder of insert.go with its upsert clauses: Build brings   *)
(* every row into the column order of the first one, checks the ON         *)
(* CONFLICT or ON DUPLICATE KEY clause, then writes row after row and      *)
(* assignment after assignment.                                            *)
(*                                                                         *)
(* pc is "query" while the caller holds an InsertQuery, "rows" while Build *)
(* normalises, "values", "conflict" and "duplicate" at the matching place  *)
(* of the text, and "built" or "rejected" after it.                        *)
(***************************************************************************)
EXTENDS Statements

CONSTANTS
  Values, Nil,          \* what callers insert; the zero value of an interface
  Targets,              \* tables, as generated code passes them to NewInsert
  Rows,                 \* argument lists of Values
  ConflictTargets,      \* column lists of OnConflict
  ConflictLists, DuplicateLists,   \* assignments of the two DoUpdate
  Returned,             \* column lists of Returning
  MaxRows               \* bound on the calls of Values

Sources == {"value", "excluded", "inserted"}
TargetType ==
  [ref : TableType, insertable : SUBSET STRING, required : SUBSET STRING,
   uniqueKeys : SUBSET SUBSET STRING]
\* Value and To belong to a Column: an aggregate is never assigned.
Assigned == {column \in ColumnType : ~IsAggregate(column)}
InsertValueType == [column : Assigned, value : Values]
AssignmentType == [column : Assigned, value : Values \union {Nil}, source : Sources]

ASSUME InsertAssumption ==
  /\ Targets \subseteq TargetType
  /\ Rows \subseteq Seq(InsertValueType)
  /\ ConflictTargets \subseteq Seq(ColumnType)
  /\ ConflictLists \subseteq Seq(AssignmentType)
  /\ DuplicateLists \subseteq Seq(AssignmentType)
  /\ Returned \subseteq Seq(ColumnType)
  /\ MaxRows \in Nat

VARIABLES
  query,        \* the InsertQuery value
  pc,
  index,        \* next row or assignment
  normalized,   \* rows in the column order of the first
  nextArg, args,
  text          \* placeholders already written

buffers == <<nextArg, args, text>>
locals == <<index, normalized, buffers>>
vars == <<query, pc, locals>>

Clauses == {"VALUES", "CONFLICT", "DUPLICATE"}

dialect == query.target.ref.dialect
scope == Qualifier(query.target.ref)
-----------------------------------------------------------------------------
(***************************************************************************)
(* Assembling the query.  conflict and duplicate are <<>> while unset; a   *)
(* later call replaces what an earlier one set.                            *)
(***************************************************************************)

NewInsert(target) ==
  [target |-> target, rows |-> <<>>, conflict |-> <<>>, duplicate |-> <<>>,
   returning |-> <<>>, returns |-> FALSE]

Init ==
  /\ \E target \in Targets : query = NewInsert(target)
  /\ pc = "query"
  /\ index = 1 /\ normalized = <<>> /\ nextArg = 1 /\ args = <<>> /\ text = <<>>

Refined(new) == pc = "query" /\ query' = new /\ UNCHANGED <<pc, locals>>

AddRow(row) ==
  /\ Len(query.rows) < MaxRows
  /\ Refined([query EXCEPT !.rows = Append(@, row)])

Conflict(columns, doNothing, assignments) ==
  <<[columns |-> columns, doNothing |-> doNothing, assignments |-> assignments]>>

\* Fault: a second OnConflict is added to the first.
StackConflict(columns) ==
  Refined([query EXCEPT !.conflict = @ \o Conflict(columns, TRUE, <<>>)])

WithConflictDoNothing(columns) ==
  Refined([query EXCEPT !.conflict = Conflict(columns, TRUE, <<>>)])

WithConflictDoUpdate(columns, assignments) ==
  Refined([query EXCEPT !.conflict = Conflict(columns, FALSE, assignments)])

\* Only a MySQL query has OnDuplicateKey.
WithDuplicateKeyDoUpdate(assignments) ==
  /\ dialect = "mysql"
  /\ Refined([query EXCEPT !.duplicate = <<assignments>>])

Returning(columns) ==
  Refined([query EXCEPT !.returns = TRUE, !.returning = columns])

Assemble ==
  \/ \E row \in Rows : AddRow(row)
  \/ \E columns \in ConflictTargets : WithConflictDoNothing(columns)
  \/ \E columns \in ConflictTargets, list \in ConflictLists : WithConflictDoUpdate(columns, list)
  \/ \E list \in DuplicateLists : WithDuplicateKeyDoUpdate(list)
  \/ \E columns \in Returned : Returning(columns)
-----------------------------------------------------------------------------
(***************************************************************************)
(* The checks.                                                             *)
(***************************************************************************)

Names(list) == {list[i].column.name : i \in DOMAIN list}

\* Columns in scope, insertable, each once: rows and assignments alike.
Assignable(list) ==
  /\ \A i \in DOMAIN list :
       /\ list[i].column.qualifier = scope
       /\ list[i].column.name \in query.target.insertable
  /\ \A i, j \in DOMAIN list : list[i].column.name = list[j].column.name => i = j

\* Fault: a later row may name a column that the first does not.
RowMayAddColumns(row) ==
  /\ row # <<>>
  /\ Assignable(row)
  /\ query.target.required \subseteq Names(row)
  /\ Names(query.rows[1]) \subseteq Names(row)

RowOK(row) ==
  /\ row # <<>>
  /\ Assignable(row)
  /\ query.target.required \subseteq Names(row)
  /\ Names(row) = Names(query.rows[1])

\* validateConflict
ConflictOK(conflict) ==
  LET names == {conflict.columns[i].name : i \in DOMAIN conflict.columns} IN
  \/ conflict.columns = <<>> /\ conflict.doNothing
  \/ /\ conflict.columns # <<>> \/ dialect = "sqlite"
     /\ InScope(conflict.columns, {scope})
     /\ \A i, j \in DOMAIN conflict.columns :
          conflict.columns[i].name = conflict.columns[j].name => i = j
     /\ conflict.columns # <<>> => names \in query.target.uniqueKeys
     /\ conflict.doNothing \/ conflict.assignments # <<>>
     /\ Assignable(conflict.assignments)

\* validateDuplicateKey
DuplicateOK(assignments) ==
  /\ assignments # <<>>
  /\ Assignable(assignments)
  /\ \A i \in DOMAIN assignments : assignments[i].source # "excluded"

ClausesOK ==
  /\ query.conflict = <<>> \/ query.duplicate \in {<<>>, <<<<>>>>}
  /\ \A i \in DOMAIN query.conflict : ConflictOK(query.conflict[i])
  /\ \A i \in DOMAIN query.duplicate : DuplicateOK(query.duplicate[i])
-----------------------------------------------------------------------------
(***************************************************************************)
(* Build.                                                                  *)
(***************************************************************************)

ClearLocals ==
  /\ index' = 1 /\ normalized' = <<>>
  /\ nextArg' = 1 /\ args' = <<>> /\ text' = <<>>

Reject == pc' = "rejected" /\ ClearLocals /\ UNCHANGED query

QueryOK ==
  /\ HasRenderer(query.target.ref)
  /\ query.rows # <<>>
  /\ query.rows[1] # <<>>
  /\ ReturningOK(dialect, scope, query.returning, query.returns)

Build ==
  /\ pc = "query"
  /\ IF QueryOK THEN pc' = "rows" ELSE pc' = "rejected"
  /\ UNCHANGED <<query, locals>>

\* The row's value for a column of the first row.
ValueFor(row, name) ==
  row[CHOOSE i \in DOMAIN row : row[i].column.name = name].value

\* Fault: rows are written in the order their own values were passed.
KeepOrder(row) == [c \in DOMAIN row |-> row[c].value]

\* normalizedRows: the values of a row in the order of firstColumns.
Normalize(row) ==
  [c \in DOMAIN query.rows[1] |-> ValueFor(row, query.rows[1][c].column.name)]

NormalizeRow ==
  /\ pc = "rows" /\ index <= Len(query.rows)
  /\ IF ~RowOK(query.rows[index]) THEN Reject
     ELSE /\ normalized' = Append(normalized, Normalize(query.rows[index]))
          /\ index' = index + 1
          /\ UNCHANGED <<query, pc, buffers>>

CheckClauses ==
  /\ pc = "rows" /\ index > Len(query.rows)
  /\ IF ~ClausesOK THEN Reject
     ELSE pc' = "values" /\ index' = 1 /\ UNCHANGED <<query, normalized, buffers>>

\* Fault: the values of a row take the numbers of the row before it.
RestartNumbers ==
  /\ pc = "values" /\ index <= Len(normalized)
  /\ text' = text \o [c \in DOMAIN normalized[index] |->
                        [slot |-> <<"VALUES", index, c, 1>>, number |-> c]]
  /\ args' = args \o normalized[index]
  /\ nextArg' = nextArg + Len(normalized[index])
  /\ index' = index + 1
  /\ UNCHANGED <<query, pc, normalized>>

RenderRow ==
  /\ pc = "values" /\ index <= Len(normalized)
  /\ text' = text \o [c \in DOMAIN normalized[index] |->
                        [slot |-> <<"VALUES", index, c, 1>>, number |-> nextArg + c - 1]]
  /\ args' = args \o normalized[index]
  /\ nextArg' = nextArg + Len(normalized[index])
  /\ index' = index + 1
  /\ UNCHANGED <<query, pc, normalized>>

FinishRows ==
  /\ pc = "values" /\ index > Len(normalized)
  /\ pc' = "conflict" /\ index' = 1
  /\ UNCHANGED <<query, normalized, buffers>>

\* The assignments an upsert clause writes: none when it is unset or DO NOTHING.
ConflictAssignments(q) == IF q.conflict = <<>> THEN <<>> ELSE q.conflict[1].assignments
DuplicateAssignments(q) == IF q.duplicate = <<>> THEN <<>> ELSE q.duplicate[1]

\* One assignment: a reference to the proposed row, or a placeholder.
RenderAssignment(clause, assignment, incoming) ==
  IF assignment.source = incoming THEN UNCHANGED buffers
  ELSE /\ text' = text \o Placeholders(clause, 1, index, <<assignment.value>>, nextArg)
       /\ args' = Append(args, assignment.value)
       /\ nextArg' = nextArg + 1

RenderAssignments(clause, place, list, incoming, next) ==
  /\ pc = place
  /\ IF index <= Len(list)
     THEN /\ RenderAssignment(clause, list[index], incoming)
          /\ index' = index + 1
          /\ UNCHANGED pc
     ELSE pc' = next /\ index' = 1 /\ UNCHANGED buffers
  /\ UNCHANGED <<query, normalized>>

\* EXCLUDED is the only reference renderConflict knows, tiqq_new the only one
\* renderDuplicateKey knows.
RenderConflict ==
  RenderAssignments("CONFLICT", "conflict", ConflictAssignments(query), "excluded", "duplicate")
RenderDuplicateKey ==
  RenderAssignments("DUPLICATE", "duplicate", DuplicateAssignments(query), "inserted", "built")

Writing ==
  NormalizeRow \/ CheckClauses \/ RenderRow \/ FinishRows \/ RenderConflict \/ RenderDuplicateKey

\* An InsertQuery is a value: after Build the caller may extend it.
Refine ==
  /\ pc \in {"built", "rejected"}
  /\ pc' = "query" /\ ClearLocals /\ UNCHANGED query

Next == Assemble \/ Build \/ Writing \/ Refine

Spec == Init /\ [][Next]_vars
-----------------------------------------------------------------------------
(***************************************************************************)
(* Properties.                                                             *)
(***************************************************************************)

ConflictType ==
  [columns : Seq(ColumnType), doNothing : BOOLEAN, assignments : Seq(AssignmentType)]
QueryType ==
  [target : Targets, rows : Seq(Seq(InsertValueType)), conflict : Seq(ConflictType),
   duplicate : Seq(Seq(AssignmentType)), returning : Seq(ColumnType), returns : BOOLEAN]

\* The types of the query and of Build's locals, and that at most one clause
\* of each kind is set.
TypeOK ==
  /\ query \in QueryType
  /\ Len(query.conflict) <= 1 /\ Len(query.duplicate) <= 1
  /\ pc \in {"query", "rows", "values", "conflict", "duplicate", "built", "rejected"}
  /\ index \in Nat \ {0}
  /\ normalized \in Seq(Seq(Values))
  /\ nextArg \in Nat \ {0}
  /\ args \in Seq(Values \union {Nil})
  /\ text \in Seq(PlaceholderType(Clauses))

\* What the caller meant at a slot: in row r at column c the value that row
\* gave for the column the first row names there.
Meant(q, slot) ==
  CASE slot[1] = "VALUES" ->
         (CHOOSE v \in {q.rows[slot[2]][i] : i \in DOMAIN q.rows[slot[2]]} :
            v.column = q.rows[1][slot[3]].column).value
    [] slot[1] = "CONFLICT" -> ConflictAssignments(q)[slot[3]].value
    [] slot[1] = "DUPLICATE" -> DuplicateAssignments(q)[slot[3]].value

ValueSlots(clause, list) ==
  {<<clause, 1, i, 1>> : i \in {n \in DOMAIN list : list[n].source = "value"}}

\* A column assigned from the proposed row binds no value.
Slots(q) ==
  (UNION {{<<"VALUES", r, c, 1>> : c \in DOMAIN q.rows[r]} : r \in DOMAIN q.rows})
    \union ValueSlots("CONFLICT", ConflictAssignments(q))
    \union ValueSlots("DUPLICATE", DuplicateAssignments(q))

\* The n-th placeholder carries number n and its argument is the value the
\* caller gave for that row and column, though a later row may name its
\* columns in another order and the upsert clause goes on counting.
ArgumentsInPlace ==
  /\ Len(text) = Len(args)
  /\ \A i \in DOMAIN text :
       /\ text[i].number = i
       /\ args[i] = Meant(query, text[i].slot)

Wanted(q) == {<<slot, Meant(q, slot)>> : slot \in Slots(q)}

Promise == INSTANCE BoundStatement WITH
  Queries <- QueryType,
  Wanted  <- Wanted,
  result  <- [status |-> CASE pc = "built" -> "bound" [] pc = "rejected" -> "refused"
                           [] OTHER -> "pending",
              slots  |-> IF pc \in {"built", "rejected"}
                         THEN BoundSlots(dialect, text, args) ELSE {}]

\* Build keeps the promise of BoundStatement: it refuses the INSERT as a whole
\* or binds every value of every row and every assigned value, once each.
KeepsPromise == Promise!Spec

\* A built INSERT is a full rectangle: its columns are insertable and include
\* the required ones, and each row has one value for each of them, the values
\* its own call of Values named that column with.
RowsFillColumns ==
  pc = "built" =>
    LET columns == Names(query.rows[1]) IN
    /\ query.target.required \subseteq columns
    /\ columns \subseteq query.target.insertable
    /\ Len(normalized) = Len(query.rows)
    /\ \A r \in DOMAIN normalized :
         /\ Len(normalized[r]) = Len(query.rows[1])
         /\ {<<query.rows[1][c].column.name, normalized[r][c]>> : c \in DOMAIN normalized[r]}
              = {<<query.rows[r][c].column.name, query.rows[r][c].value>> :
                   c \in DOMAIN query.rows[r]}

\* "Inserted updates a column from the row proposed for insertion."
\* (mysql/insert.go:43), and Excluded does from EXCLUDED: in a statement that
\* was built, such an assignment binds no argument.
IncomingBindsNothing ==
  pc = "built" =>
    \A i \in DOMAIN text :
      text[i].slot[1] = "CONFLICT" =>
        ConflictAssignments(query)[text[i].slot[3]].source = "value"
=============================================================================
