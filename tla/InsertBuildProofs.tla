-------------------------- MODULE InsertBuildProofs --------------------------
(***************************************************************************)
(* Theorems about the INSERT builder, for every table, every list of rows  *)
(* and assignments and any number of rows.                                 *)
(***************************************************************************)
EXTENDS InsertBuild, SequenceLemmas, FiniteSetTheorems, FunctionTheorems

\* What placeholders and arguments are.
Placed == PlaceholderType(Clauses)
Bindable == Values \union {Nil}

\* Build's locals are empty outside a Build, and nothing is written before all
\* rows and clauses are checked.
AtRest ==
  /\ pc \in {"query", "rejected"} => index = 1 /\ normalized = <<>>
  /\ pc \in {"query", "rejected", "rows"} => nextArg = 1 /\ args = <<>> /\ text = <<>>

\* The counter is one ahead of the arguments.
Counted == nextArg = Len(args) + 1

\* Every row that is normalised passed the checks and is written as Normalize
\* says.
RowsPrepared ==
  \A r \in DOMAIN normalized :
    /\ r \in DOMAIN query.rows
    /\ RowOK(query.rows[r])
    /\ normalized[r] = Normalize(query.rows[r])

\* How far Build has come with the rows.
RowsProgress ==
  /\ pc = "rows" => query.rows # <<>> /\ index = Len(normalized) + 1
  /\ pc \in {"values", "conflict", "duplicate", "built"} =>
       query.rows # <<>> /\ Len(normalized) = Len(query.rows) /\ ClausesOK

\* The slots of the first n rows, or of the first n assignments of a list
\* without those that take their value from the proposed row.
RowSlots(q, n) == UNION {{<<"VALUES", r, c, 1>> : c \in DOMAIN q.rows[r]} : r \in 1 .. n}
AssignedSlots(clause, list, n, incoming) ==
  {<<clause, 1, i, 1>> : i \in {k \in 1 .. n : list[k].source # incoming}}

Covers(q, slots, r, c, d) ==
  slots = RowSlots(q, r)
            \union AssignedSlots("CONFLICT", ConflictAssignments(q), c, "excluded")
            \union AssignedSlots("DUPLICATE", DuplicateAssignments(q), d, "inserted")

\* What is written is all that Build has passed, in rows and assignments.
TextProgress ==
  LET rows       == Len(query.rows)
      conflicts  == Len(ConflictAssignments(query))
      duplicates == Len(DuplicateAssignments(query))
  IN /\ pc = "values" => index - 1 <= rows /\ Covers(query, SlotsIn(text), index - 1, 0, 0)
     /\ pc = "conflict" =>
          index - 1 <= conflicts /\ Covers(query, SlotsIn(text), rows, index - 1, 0)
     /\ pc = "duplicate" =>
          index - 1 <= duplicates /\ Covers(query, SlotsIn(text), rows, conflicts, index - 1)
     /\ pc = "built" => Covers(query, SlotsIn(text), rows, conflicts, duplicates)

BindInv ==
  /\ TypeOK /\ AtRest /\ Counted /\ RowsPrepared /\ RowsProgress /\ TextProgress
  /\ ArgumentsInPlace
-----------------------------------------------------------------------------
\* A list that names each column once has as many elements as names.
LEMMA NamesCounted ==
  ASSUME NEW list \in Seq(InsertValueType),
         \A i, j \in DOMAIN list : list[i].column.name = list[j].column.name => i = j
  PROVE  Cardinality(Names(list)) = Len(list)
<1> DEFINE S == 1 .. Len(list)
           T == Names(list)
           f == [i \in S |-> list[i].column.name]
<1>1. DOMAIN list = S /\ Len(list) \in Nat
  OBVIOUS
<1>2. f \in [S -> T]
  BY <1>1 DEF Names
<1>3. \A i, j \in S : f[i] = f[j] => i = j
  BY <1>1
<1>4. \A t \in T : \E i \in S : f[i] = t
  BY <1>1 DEF Names
<1> HIDE DEF S, T, f
<1>5. f \in Bijection(S, T)
  BY <1>2, <1>3, <1>4 DEF Bijection, Injection, Surjection, IsInjective
<1>6. ExistsBijection(S, T)
  BY <1>5 DEF ExistsBijection
<1> QED BY <1>1, <1>6, FS_CountingElements DEF S, T

\* Qualifier and name identify a column that is no aggregate.
LEMMA SameColumn ==
  ASSUME NEW a \in Assigned, NEW b \in Assigned, a.qualifier = b.qualifier, a.name = b.name
  PROVE  a = b
<1>1. a \in ColumnType /\ b \in ColumnType /\ a.function = b.function
  BY DEF Assigned, IsAggregate
<1> QED BY <1>1 DEF ColumnType

\* A row that passed the checks has one value for each column of the first,
\* and Normalize finds it.
LEMMA RowFits ==
  ASSUME TypeOK, query.rows # <<>>, RowOK(query.rows[1]),
         NEW r \in DOMAIN query.rows, RowOK(query.rows[r])
  PROVE  /\ Len(query.rows[r]) = Len(query.rows[1])
         /\ Normalize(query.rows[r]) \in Seq(Values)
         /\ Len(Normalize(query.rows[r])) = Len(query.rows[1])
         /\ \A c \in DOMAIN query.rows[1] : \E i \in DOMAIN query.rows[r] :
              /\ query.rows[r][i].column = query.rows[1][c].column
              /\ Normalize(query.rows[r])[c] = query.rows[r][i].value
              /\ Meant(query, <<"VALUES", r, c, 1>>) = query.rows[r][i].value
<1> DEFINE row == query.rows[r]
           first == query.rows[1]
<1>1. /\ row \in Seq(InsertValueType) /\ first \in Seq(InsertValueType)
      /\ Len(row) \in Nat /\ Len(first) \in Nat
      /\ DOMAIN row = 1 .. Len(row) /\ DOMAIN first = 1 .. Len(first)
  <2>1. query.rows \in Seq(Seq(InsertValueType)) /\ 1 \in DOMAIN query.rows
    BY DEF TypeOK, QueryType
  <2> QED BY <2>1
<1>2. /\ \A i \in DOMAIN row : row[i] \in InsertValueType
      /\ \A i \in DOMAIN first : first[i] \in InsertValueType
  BY <1>1
<1>3. /\ \A i \in DOMAIN row : row[i].column.qualifier = scope
      /\ \A i \in DOMAIN first : first[i].column.qualifier = scope
      /\ \A i, j \in DOMAIN row : row[i].column.name = row[j].column.name => i = j
      /\ \A i, j \in DOMAIN first : first[i].column.name = first[j].column.name => i = j
      /\ Names(row) = Names(first)
  BY DEF RowOK, Assignable
<1> HIDE DEF row, first
<1>4. Len(row) = Len(first)
  <2>1. Cardinality(Names(row)) = Len(row)
    BY <1>1, <1>3, NamesCounted
  <2>2. Cardinality(Names(first)) = Len(first)
    BY <1>1, <1>3, NamesCounted
  <2> QED BY <1>3, <2>1, <2>2
<1>5. ASSUME NEW c \in DOMAIN first
      PROVE  \E i \in DOMAIN row :
               /\ row[i].column = first[c].column
               /\ row[i].value \in Values
               /\ ValueFor(row, first[c].column.name) = row[i].value
               /\ Meant(query, <<"VALUES", r, c, 1>>) = row[i].value
  <2>1. first[c].column.name \in Names(row)
    BY <1>3 DEF Names
  <2>2. PICK i \in DOMAIN row : row[i].column.name = first[c].column.name
    BY <2>1 DEF Names
  <2>3. row[i].column \in Assigned /\ first[c].column \in Assigned /\ row[i].value \in Values
    BY <1>2 DEF InsertValueType
  <2>4. row[i].column = first[c].column
    BY <1>3, <2>2, <2>3, SameColumn
  <2>5. ValueFor(row, first[c].column.name) = row[i].value
    <3>1. \A j \in DOMAIN row : row[j].column.name = first[c].column.name <=> j = i
      BY <1>3, <2>2
    <3>2. (CHOOSE j \in DOMAIN row : row[j].column.name = first[c].column.name) = i
      BY <3>1
    <3> QED BY <3>2 DEF ValueFor
  <2>6. Meant(query, <<"VALUES", r, c, 1>>) = row[i].value
    <3> DEFINE given == {row[j] : j \in DOMAIN row}
    <3>1. row[i] \in given /\ \A v \in given : v.column = first[c].column <=> v = row[i]
      BY <1>3, <2>2, <2>4
    <3>2. (CHOOSE v \in given : v.column = first[c].column) = row[i]
      BY <3>1
    <3>3. Meant(query, <<"VALUES", r, c, 1>>)
            = (CHOOSE v \in given : v.column = first[c].column).value
      BY DEF Meant, row, first
    <3> QED BY <3>2, <3>3
  <2> QED BY <2>3, <2>4, <2>5, <2>6
<1>6. Normalize(row) = [c \in DOMAIN first |-> ValueFor(row, first[c].column.name)]
  BY DEF Normalize, first
<1>7. Normalize(row) \in [1 .. Len(first) -> Values]
  BY ZenonT(40), <1>1, <1>5, <1>6
<1>8. Normalize(row) \in Seq(Values) /\ Len(Normalize(row)) = Len(first)
  BY <1>1, <1>7, Listed
<1>9. ASSUME NEW c \in DOMAIN first
      PROVE  \E i \in DOMAIN row :
               /\ row[i].column = first[c].column
               /\ Normalize(row)[c] = row[i].value
               /\ Meant(query, <<"VALUES", r, c, 1>>) = row[i].value
  BY <1>5, <1>6
<1> QED BY <1>4, <1>8, <1>9 DEF row, first
-----------------------------------------------------------------------------
Idle == index = 1 /\ normalized = <<>> /\ nextArg = 1 /\ args = <<>> /\ text = <<>>
WellFormed(q) == q \in QueryType /\ Len(q.conflict) <= 1 /\ Len(q.duplicate) <= 1

\* Every call that assembles a query yields a query.
LEMMA AssembleWellFormed ==
  ASSUME TypeOK, Assemble
  PROVE  WellFormed(query')
<1>1. query \in QueryType /\ Len(query.conflict) <= 1 /\ Len(query.duplicate) <= 1
  BY DEF TypeOK
<1>2. /\ Rows \subseteq Seq(InsertValueType)
      /\ ConflictTargets \subseteq Seq(ColumnType)
      /\ ConflictLists \subseteq Seq(AssignmentType)
      /\ DuplicateLists \subseteq Seq(AssignmentType)
      /\ Returned \subseteq Seq(ColumnType)
  BY InsertAssumption
<1>3. ASSUME NEW row \in Rows, AddRow(row) PROVE WellFormed(query')
  <2> DEFINE rows == Append(query.rows, row)
  <2>1. rows \in Seq(Seq(InsertValueType))
    BY <1>1, <1>2 DEF QueryType
  <2>2. query' = [query EXCEPT !.rows = rows]
    BY <1>3 DEF AddRow, Refined
  <2> HIDE DEF rows
  <2> QED BY <1>1, <2>1, <2>2 DEF WellFormed, QueryType
<1>4. ASSUME NEW columns \in Seq(ColumnType), NEW doNothing \in BOOLEAN,
             NEW assignments \in Seq(AssignmentType),
             query' = [query EXCEPT !.conflict = Conflict(columns, doNothing, assignments)]
      PROVE  WellFormed(query')
  <2> DEFINE clause == [columns |-> columns, doNothing |-> doNothing, assignments |-> assignments]
             conflict == Conflict(columns, doNothing, assignments)
  <2>1. clause \in ConflictType
    BY DEF ConflictType
  <2>2. conflict = <<clause>>
    BY DEF Conflict
  <2> HIDE DEF clause, conflict
  <2>3. conflict \in Seq(ConflictType) /\ Len(conflict) = 1
    BY <2>1, <2>2
  <2>4. query' = [query EXCEPT !.conflict = conflict]
    BY <1>4 DEF conflict
  <2>5. /\ query' \in QueryType
        /\ query'.conflict = conflict /\ query'.duplicate = query.duplicate
    BY <1>1, <2>3, <2>4 DEF QueryType
  <2>6. Len(query'.duplicate) <= 1 /\ Len(query'.conflict) <= 1
    <3>1. Len(conflict) <= 1
      BY <2>3
    <3> QED BY <1>1, <2>5, <3>1, Zenon
  <2> QED BY <2>5, <2>6 DEF WellFormed
<1>5. ASSUME NEW columns \in ConflictTargets, WithConflictDoNothing(columns)
      PROVE  WellFormed(query')
  <2>1. columns \in Seq(ColumnType) /\ TRUE \in BOOLEAN /\ <<>> \in Seq(AssignmentType)
    BY <1>2
  <2> QED BY <1>4, <1>5, <2>1 DEF WithConflictDoNothing, Refined
<1>6. ASSUME NEW columns \in ConflictTargets, NEW list \in ConflictLists,
             WithConflictDoUpdate(columns, list)
      PROVE  WellFormed(query')
  <2>1. columns \in Seq(ColumnType) /\ FALSE \in BOOLEAN /\ list \in Seq(AssignmentType)
    BY <1>2
  <2> QED BY <1>4, <1>6, <2>1 DEF WithConflictDoUpdate, Refined
<1>7. ASSUME NEW list \in DuplicateLists, WithDuplicateKeyDoUpdate(list)
      PROVE  WellFormed(query')
  <2> DEFINE duplicate == <<list>>
  <2>1. duplicate \in Seq(Seq(AssignmentType)) /\ Len(duplicate) = 1
    BY <1>2
  <2>2. query' = [query EXCEPT !.duplicate = duplicate]
    BY <1>7 DEF WithDuplicateKeyDoUpdate, Refined
  <2> HIDE DEF duplicate
  <2>3. /\ query' \in QueryType
        /\ query'.duplicate = duplicate /\ query'.conflict = query.conflict
    BY <1>1, <2>1, <2>2 DEF QueryType
  <2>4. Len(query'.duplicate) <= 1 /\ Len(query'.conflict) <= 1
    <3>1. Len(duplicate) <= 1
      BY <2>1
    <3> QED BY <1>1, <2>3, <3>1, Zenon
  <2> QED BY <2>3, <2>4 DEF WellFormed
<1>8. ASSUME NEW columns \in Returned, Returning(columns) PROVE WellFormed(query')
  <2>1. query' = [query EXCEPT !.returns = TRUE, !.returning = columns]
    BY <1>8 DEF Returning, Refined
  <2> QED BY <1>1, <1>2, <2>1 DEF WellFormed, QueryType
<1> QED BY <1>3, <1>5, <1>6, <1>7, <1>8 DEF Assemble

\* Locals that hold nothing satisfy every conjunct about them.
LEMMA IdleInv ==
  ASSUME Idle, pc \in {"query", "rejected"}, WellFormed(query)
  PROVE  BindInv
<1>1. TypeOK
  BY DEF Idle, WellFormed, TypeOK
<1>2. AtRest /\ Counted /\ RowsPrepared /\ RowsProgress /\ TextProgress
  BY DEF Idle, AtRest, Counted, RowsPrepared, RowsProgress, TextProgress
<1>3. ArgumentsInPlace
  BY DEF Idle, ArgumentsInPlace
<1> QED BY <1>1, <1>2, <1>3 DEF BindInv

LEMMA InitInv == Init => BindInv
<1> SUFFICES ASSUME Init PROVE BindInv
  OBVIOUS
<1>1. PICK target \in Targets : query = NewInsert(target)
  BY DEF Init
<1>2. WellFormed(query)
  BY <1>1 DEF WellFormed, NewInsert, QueryType
<1> QED BY <1>2, IdleInv DEF Init, Idle

\* The same one step later: the caller's calls, a refusal and a Query that is
\* used again all leave the locals empty.
LEMMA DroppedInv ==
  ASSUME Idle', pc' \in {"query", "rejected"}, WellFormed(query')
  PROVE  BindInv'
<1>1. TypeOK'
  BY DEF Idle, WellFormed, TypeOK
<1>2. AtRest' /\ Counted' /\ RowsPrepared' /\ RowsProgress' /\ TextProgress'
  BY DEF Idle, AtRest, Counted, RowsPrepared, RowsProgress, TextProgress
<1>3. ArgumentsInPlace'
  BY DEF Idle, ArgumentsInPlace
<1> QED BY <1>1, <1>2, <1>3 DEF BindInv

LEMMA RejectInv == BindInv /\ Reject => BindInv'
<1> SUFFICES ASSUME BindInv, Reject PROVE BindInv'
  OBVIOUS
<1>1. Idle' /\ pc' \in {"query", "rejected"} /\ query' = query
  BY DEF Reject, ClearLocals, Idle
<1>2. WellFormed(query')
  BY <1>1 DEF BindInv, TypeOK, WellFormed
<1> QED BY <1>1, <1>2, DroppedInv

LEMMA OutsideInv == BindInv /\ (Assemble \/ Refine) => BindInv'
<1> SUFFICES ASSUME BindInv, Assemble \/ Refine PROVE BindInv'
  OBVIOUS
<1>1. CASE Assemble
  <2>1. WellFormed(query')
    BY <1>1, AssembleWellFormed DEF BindInv
  <2>2. pc = "query" /\ UNCHANGED <<pc, locals>>
    BY <1>1 DEF Assemble, AddRow, WithConflictDoNothing, WithConflictDoUpdate,
                WithDuplicateKeyDoUpdate, Returning, Refined
  <2>3. Idle'
    BY <2>2 DEF BindInv, AtRest, Idle, locals, buffers
  <2> QED BY <2>1, <2>2, <2>3, DroppedInv
<1>2. CASE Refine
  <2>1. Idle' /\ pc' \in {"query", "rejected"} /\ query' = query
    BY <1>2 DEF Refine, ClearLocals, Idle
  <2>2. WellFormed(query')
    BY <2>1 DEF BindInv, TypeOK, WellFormed
  <2> QED BY <2>1, <2>2, DroppedInv
<1> QED BY <1>1, <1>2
-----------------------------------------------------------------------------
\* A placeholder agrees with its place and with its value.
Agreed(q) == {<<p.number, p, Meant(q, p.slot)>> : p \in Placed}

\* Placeholders numbered from n and the values that are meant at their slots.
Fitting(q, added, values, n) ==
  /\ added \in Seq(Placed) /\ values \in Seq(Bindable)
  /\ Len(added) = Len(values)
  /\ \A k \in 1 .. Len(values) :
       added[k].number = n + k - 1 /\ values[k] = Meant(q, added[k].slot)

\* Build writes such placeholders and values.
Written(added, values) ==
  /\ text' = text \o added
  /\ args' = args \o values
  /\ nextArg' = nextArg + Len(values)
  /\ query' = query

LEMMA WriteInPlace ==
  ASSUME TypeOK, Counted, ArgumentsInPlace, NEW added, NEW values,
         Fitting(query, added, values, nextArg), Written(added, values)
  PROVE  /\ text' \in Seq(Placed) /\ args' \in Seq(Bindable) /\ nextArg' \in Nat \ {0}
         /\ Counted' /\ ArgumentsInPlace'
         /\ SlotsIn(text') = SlotsIn(text) \union SlotsIn(added)
<1> DEFINE A == Agreed(query)
<1>1. /\ text \in Seq(Placed) /\ args \in Seq(Bindable) /\ Len(args) \in Nat
      /\ nextArg = Len(args) + 1 /\ Len(text) = Len(args)
  BY DEF TypeOK, Placed, Bindable, Counted, ArgumentsInPlace
<1>2. added \in Seq(Placed) /\ values \in Seq(Bindable) /\ Len(added) = Len(values)
  BY DEF Fitting
<1>3. Aligned(text, args, A)
  <2> SUFFICES ASSUME NEW i \in 1 .. Len(text) PROVE <<i, text[i], args[i]>> \in A
    BY <1>1 DEF Aligned
  <2>1. text[i] \in Placed /\ text[i].number = i /\ args[i] = Meant(query, text[i].slot)
    BY <1>1 DEF ArgumentsInPlace
  <2> QED BY <2>1, Zenon DEF Agreed
<1>4. ASSUME NEW k \in 1 .. Len(values) PROVE <<Len(args) + k, added[k], values[k]>> \in A
  <2>1. /\ added[k] \in Placed /\ added[k].number = Len(args) + k
        /\ values[k] = Meant(query, added[k].slot)
    BY <1>1, <1>2 DEF Fitting
  <2> QED BY <2>1, Zenon DEF Agreed
<1> HIDE DEF A
<1>5. /\ text \o added \in Seq(Placed) /\ args \o values \in Seq(Bindable)
      /\ Len(args \o values) = Len(args) + Len(values)
      /\ Aligned(text \o added, args \o values, A)
  BY <1>1, <1>2, <1>3, <1>4, AppendAligned
<1>6. /\ text' \in Seq(Placed) /\ args' \in Seq(Bindable)
      /\ Len(args') = Len(args) + Len(values) /\ nextArg' = nextArg + Len(values)
      /\ Aligned(text', args', A) /\ query' = query
  BY <1>5 DEF Written
<1>7. nextArg' \in Nat \ {0} /\ Counted'
  BY <1>1, <1>2, <1>6 DEF Counted
<1>8. ArgumentsInPlace'
  <2>1. Len(text') = Len(args') /\ DOMAIN text' = 1 .. Len(text')
    BY <1>6 DEF Aligned
  <2>2. ASSUME NEW i \in 1 .. Len(text')
        PROVE  text'[i].number = i /\ args'[i] = Meant(query, text'[i].slot)
    <3>1. <<i, text'[i], args'[i]>> \in A
      BY <1>6 DEF Aligned
    <3>2. PICK p \in Placed : <<i, text'[i], args'[i]>> = <<p.number, p, Meant(query, p.slot)>>
      BY <3>1 DEF A, Agreed
    <3> QED BY <3>2
  <2> QED BY <1>6, <2>1, <2>2 DEF ArgumentsInPlace
<1>9. SlotsIn(text') = SlotsIn(text) \union SlotsIn(added)
  BY <1>1, <1>2, AppendSlots DEF Written
<1> QED BY <1>6, <1>7, <1>8, <1>9
-----------------------------------------------------------------------------
\* A step that keeps the query keeps what the checks say of it.
LEMMA QueryKept ==
  ASSUME query' = query
  PROVE  /\ \A row : RowOK(row)' <=> RowOK(row)
         /\ \A row : Normalize(row)' = Normalize(row)
         /\ ClausesOK' <=> ClausesOK
<1>1. ASSUME NEW list PROVE Assignable(list)' <=> Assignable(list)
  BY DEF Assignable, scope
<1>2. ASSUME NEW row PROVE RowOK(row)' <=> RowOK(row)
  BY <1>1 DEF RowOK, Names
<1>3. ASSUME NEW row PROVE Normalize(row)' = Normalize(row)
  BY DEF Normalize, ValueFor
<1>4. ASSUME NEW conflict PROVE ConflictOK(conflict)' <=> ConflictOK(conflict)
  BY <1>1 DEF ConflictOK, scope, dialect, InScope
<1>5. ASSUME NEW list PROVE DuplicateOK(list)' <=> DuplicateOK(list)
  BY <1>1 DEF DuplicateOK
<1>6. ClausesOK' <=> ClausesOK
  BY <1>4, <1>5 DEF ClausesOK
<1> QED BY <1>2, <1>3, <1>6

LEMMA RowsKept ==
  ASSUME query' = query, normalized' = normalized, RowsPrepared
  PROVE  RowsPrepared'
BY QueryKept DEF RowsPrepared

\* Build checks the target and the first row, and writes nothing.
LEMMA BuildInv == BindInv /\ Build => BindInv'
<1> SUFFICES ASSUME BindInv, Build PROVE BindInv'
  OBVIOUS
<1>1. /\ pc = "query" /\ UNCHANGED <<query, index, normalized, nextArg, args, text>>
      /\ pc' = "rejected" \/ (pc' = "rows" /\ query.rows # <<>>)
  BY DEF Build, locals, buffers, QueryOK
<1>2. Idle /\ Idle'
  BY <1>1 DEF BindInv, AtRest, Idle
<1>3. CASE pc' = "rejected"
  <2>1. WellFormed(query')
    BY <1>1 DEF BindInv, TypeOK, WellFormed
  <2> QED BY <1>2, <1>3, <2>1, DroppedInv
<1>4. CASE pc' = "rows" /\ query.rows # <<>>
  <2>1. TypeOK'
    BY <1>1, <1>4 DEF BindInv, TypeOK
  <2>2. AtRest' /\ Counted' /\ ArgumentsInPlace'
    BY <1>2, <1>4 DEF Idle, AtRest, Counted, ArgumentsInPlace
  <2>3. RowsPrepared' /\ RowsProgress' /\ TextProgress'
    BY <1>1, <1>2, <1>4 DEF Idle, RowsPrepared, RowsProgress, TextProgress
  <2> QED BY <2>1, <2>2, <2>3 DEF BindInv
<1> QED BY <1>1, <1>3, <1>4

\* A row that passes is appended to those that did.
LEMMA NormalizeInv == BindInv /\ NormalizeRow => BindInv'
<1> SUFFICES ASSUME BindInv, NormalizeRow PROVE BindInv'
  OBVIOUS
<1> DEFINE row == query.rows[index]
           values == Normalize(row)
<1>1. CASE Reject
  BY <1>1, RejectInv
<1>2. CASE ~Reject
  <2>1. /\ pc = "rows" /\ index <= Len(query.rows) /\ RowOK(row)
        /\ normalized' = Append(normalized, values)
        /\ index' = index + 1
        /\ UNCHANGED <<query, pc, nextArg, args, text>>
    BY <1>2 DEF NormalizeRow, buffers
  <2>2. /\ query.rows # <<>> /\ index = Len(normalized) + 1 /\ Len(normalized) \in Nat
        /\ normalized \in Seq(Seq(Values)) /\ query.rows \in Seq(Seq(InsertValueType))
        /\ index \in DOMAIN query.rows /\ 1 \in DOMAIN query.rows
    BY <2>1 DEF BindInv, TypeOK, QueryType, RowsProgress
  <2>3. RowOK(query.rows[1])
    <3>1. CASE index = 1
      BY <2>1, <3>1
    <3>2. CASE index # 1
      <4>1. 1 \in DOMAIN normalized
        BY <2>2, <3>2
      <4> QED BY <4>1 DEF BindInv, RowsPrepared
    <3> QED BY <3>1, <3>2
  <2>4. values \in Seq(Values)
    BY <2>1, <2>2, <2>3, RowFits DEF BindInv
  <2> HIDE DEF values
  <2>5. /\ normalized' \in Seq(Seq(Values)) /\ Len(normalized') = Len(normalized) + 1
        /\ \A r \in 1 .. Len(normalized) : normalized'[r] = normalized[r]
        /\ normalized'[index] = values
    BY <2>1, <2>2, <2>4
  <2>6. TypeOK'
    <3>1. index' \in Nat \ {0}
      BY <2>1, <2>2
    <3> QED BY <2>1, <2>5, <3>1 DEF BindInv, TypeOK
  <2>7. AtRest' /\ Counted' /\ TextProgress'
    BY <2>1 DEF BindInv, AtRest, Counted, TextProgress
  <2>8. ArgumentsInPlace'
    BY <2>1 DEF BindInv, ArgumentsInPlace
  <2>9. RowsProgress'
    BY <2>1, <2>2, <2>5 DEF RowsProgress
  <2>10. RowsPrepared'
    <3> SUFFICES ASSUME NEW r \in DOMAIN normalized'
                 PROVE  /\ r \in DOMAIN query.rows
                        /\ RowOK(query.rows[r])
                        /\ normalized'[r] = Normalize(query.rows[r])
      BY <2>1, QueryKept DEF RowsPrepared
    <3>1. r \in 1 .. Len(normalized) \/ r = index
      BY <2>2, <2>5
    <3>2. CASE r \in 1 .. Len(normalized)
      <4>1. r \in DOMAIN normalized /\ normalized'[r] = normalized[r]
        BY SMTT(30), <2>2, <2>5, <3>2
      <4> QED BY <4>1 DEF BindInv, RowsPrepared
    <3>3. CASE r = index
      BY <2>1, <2>2, <2>5, <3>3 DEF values
    <3> QED BY <3>1, <3>2, <3>3
  <2> QED BY <2>6, <2>7, <2>8, <2>9, <2>10 DEF BindInv
<1> QED BY <1>1, <1>2

LEMMA NothingCovered ==
  ASSUME NEW q
  PROVE  Covers(q, SlotsIn(<<>>), 0, 0, 0)
BY DEF Covers, SlotsIn, RowSlots, AssignedSlots

\* The clauses are checked when all rows are normalised.
LEMMA CheckInv == BindInv /\ CheckClauses => BindInv'
<1> SUFFICES ASSUME BindInv, CheckClauses PROVE BindInv'
  OBVIOUS
<1>1. CASE Reject
  BY <1>1, RejectInv
<1>2. CASE ~Reject
  <2>1. /\ pc = "rows" /\ index > Len(query.rows) /\ ClausesOK
        /\ pc' = "values" /\ index' = 1
        /\ UNCHANGED <<query, normalized, nextArg, args, text>>
    BY <1>2 DEF CheckClauses, buffers
  <2>2. /\ query.rows # <<>> /\ index = Len(normalized) + 1
        /\ Len(normalized) \in Nat /\ Len(query.rows) \in Nat
        /\ DOMAIN normalized = 1 .. Len(normalized)
        /\ DOMAIN query.rows = 1 .. Len(query.rows)
    BY <2>1 DEF BindInv, TypeOK, QueryType, RowsProgress
  <2>3. Len(normalized) = Len(query.rows)
    <3>1. Len(normalized) > 0 => Len(normalized) \in DOMAIN query.rows
      BY <2>2 DEF BindInv, RowsPrepared
    <3> QED BY <2>1, <2>2, <3>1
  <2>4. TypeOK'
    BY <2>1 DEF BindInv, TypeOK
  <2>5. AtRest' /\ Counted'
    BY <2>1 DEF BindInv, AtRest, Counted
  <2>6. ArgumentsInPlace'
    BY <2>1 DEF BindInv, ArgumentsInPlace
  <2>7. RowsPrepared'
    BY <2>1, RowsKept DEF BindInv
  <2>8. RowsProgress'
    BY <2>1, <2>2, <2>3, QueryKept DEF RowsProgress
  <2>9. TextProgress'
    <3>1. text' = <<>>
      BY <2>1 DEF BindInv, AtRest
    <3>2. Covers(query, SlotsIn(text'), 0, 0, 0)
      BY <3>1, NothingCovered
    <3>3. index' - 1 = 0 /\ 0 <= Len(query.rows)
      BY <2>1, <2>2
    <3>4. Covers(query, SlotsIn(text'), index' - 1, 0, 0)
      BY <3>2, <3>3, Zenon
    <3> QED BY <2>1, <3>3, <3>4 DEF TextProgress
  <2> QED BY <2>4, <2>5, <2>6, <2>7, <2>8, <2>9 DEF BindInv
<1> QED BY <1>1, <1>2
-----------------------------------------------------------------------------
LEMMA OneMoreRow ==
  ASSUME NEW q, NEW n \in Nat \ {0}
  PROVE  RowSlots(q, n) =
           RowSlots(q, n - 1) \union {<<"VALUES", n, c, 1>> : c \in DOMAIN q.rows[n]}
<1> DEFINE slots(r) == {<<"VALUES", r, c, 1>> : c \in DOMAIN q.rows[r]}
<1>1. 1 .. n = (1 .. n - 1) \union {n}
  OBVIOUS
<1>2. RowSlots(q, n) = UNION {slots(r) : r \in 1 .. n}
  BY DEF RowSlots
<1>3. RowSlots(q, n - 1) = UNION {slots(r) : r \in 1 .. n - 1}
  BY DEF RowSlots
<1> HIDE DEF slots
<1>4. UNION {slots(r) : r \in 1 .. n} = (UNION {slots(r) : r \in 1 .. n - 1}) \union slots(n)
  BY <1>1, Zenon
<1> QED BY <1>2, <1>3, <1>4 DEF slots

\* The steps that leave the rows as they are.
LEMMA RenderRowInv == BindInv /\ RenderRow => BindInv'
<1> SUFFICES ASSUME BindInv, RenderRow PROVE BindInv'
  OBVIOUS
<1> DEFINE values == normalized[index]
           placeholder(c) == [slot |-> <<"VALUES", index, c, 1>>, number |-> nextArg + c - 1]
           added == [c \in DOMAIN values |-> placeholder(c)]
           slots == {<<"VALUES", index, c, 1>> : c \in DOMAIN query.rows[index]}
<1>1. /\ pc = "values" /\ index <= Len(normalized) /\ index' = index + 1
      /\ UNCHANGED <<query, pc, normalized>>
      /\ Written(added, values)
  BY DEF RenderRow, Written
<1>2. /\ TypeOK /\ query.rows # <<>> /\ Len(normalized) = Len(query.rows) /\ ClausesOK
      /\ index \in Nat \ {0} /\ index \in DOMAIN normalized /\ 1 \in DOMAIN normalized
      /\ normalized \in Seq(Seq(Values)) /\ nextArg \in Nat \ {0}
      /\ Len(query.rows) \in Nat
  BY <1>1 DEF BindInv, TypeOK, QueryType, RowsProgress
<1>3. /\ RowOK(query.rows[1]) /\ RowOK(query.rows[index])
      /\ index \in DOMAIN query.rows /\ values = Normalize(query.rows[index])
  BY <1>2 DEF BindInv, RowsPrepared
<1>4. /\ Len(query.rows[index]) = Len(query.rows[1])
      /\ Len(values) = Len(query.rows[1])
      /\ \A c \in DOMAIN query.rows[1] : \E i \in DOMAIN query.rows[index] :
           /\ query.rows[index][i].column = query.rows[1][c].column
           /\ Normalize(query.rows[index])[c] = query.rows[index][i].value
           /\ Meant(query, <<"VALUES", index, c, 1>>) = query.rows[index][i].value
  BY <1>2, <1>3, RowFits
<1>5. /\ values \in Seq(Values) /\ DOMAIN values = 1 .. Len(values) /\ Len(values) \in Nat
      /\ DOMAIN query.rows[1] = 1 .. Len(values)
      /\ DOMAIN query.rows[index] = 1 .. Len(values)
  <2>1. values \in Seq(Values)
    BY <1>2
  <2>2. query.rows[1] \in Seq(InsertValueType) /\ query.rows[index] \in Seq(InsertValueType)
    BY <1>2, <1>3 DEF TypeOK, QueryType
  <2> QED BY <1>4, <2>1, <2>2
<1>6. \A c \in 1 .. Len(values) : values[c] = Meant(query, <<"VALUES", index, c, 1>>)
  BY <1>3, <1>4, <1>5
<1>7. added = [c \in 1 .. Len(values) |-> placeholder(c)]
  BY <1>5
<1>8. ASSUME NEW c \in 1 .. Len(values)
      PROVE  /\ placeholder(c) \in Placed /\ added[c] = placeholder(c)
             /\ added[c].slot = <<"VALUES", index, c, 1>> /\ added[c].number = nextArg + c - 1
  BY <1>2, <1>5, <1>7 DEF Placed, PlaceholderType, SlotType, Clauses
<1> HIDE DEF values, placeholder
<1>9. added \in Seq(Placed) /\ Len(added) = Len(values) /\ DOMAIN added = 1 .. Len(values)
  <2>1. added \in [1 .. Len(values) -> Placed]
    BY <1>7, <1>8
  <2> HIDE DEF added
  <2> QED BY <1>5, <2>1, Listed
<1> HIDE DEF added
<1>10. Fitting(query, added, values, nextArg)
  <2>1. values \in Seq(Bindable)
    BY <1>5 DEF Bindable
  <2> QED BY <1>6, <1>8, <1>9, <2>1 DEF Fitting
<1>11. /\ text' \in Seq(Placed) /\ args' \in Seq(Bindable) /\ nextArg' \in Nat \ {0}
       /\ Counted' /\ ArgumentsInPlace'
       /\ SlotsIn(text') = SlotsIn(text) \union SlotsIn(added)
  BY <1>1, <1>10, WriteInPlace DEF BindInv
<1>12. SlotsIn(added) = slots
  BY <1>5, <1>8, <1>9 DEF SlotsIn
<1>13. TypeOK'
  <2>1. index' \in Nat \ {0}
    BY <1>1, <1>2
  <2> QED BY <1>1, <1>2, <1>11, <2>1 DEF TypeOK, Placed, Bindable
<1>14. AtRest' /\ RowsProgress'
  BY <1>1, <1>2, QueryKept DEF AtRest, RowsProgress
<1>15. RowsPrepared'
  BY <1>1, RowsKept DEF BindInv
<1>16. TextProgress'
  <2>1. index - 1 <= Len(query.rows) /\ Covers(query, SlotsIn(text), index - 1, 0, 0)
    BY <1>1 DEF BindInv, TextProgress
  <2>2. RowSlots(query, index) = RowSlots(query, index - 1) \union slots
    BY <1>2, OneMoreRow
  <2>3. Covers(query, SlotsIn(text'), index, 0, 0)
    <3> HIDE DEF slots
    <3> QED BY <1>11, <1>12, <2>1, <2>2, Zenon DEF Covers
  <2>4. index' - 1 = index /\ index <= Len(query.rows)
    BY <1>1, <1>2
  <2>5. Covers(query, SlotsIn(text'), index' - 1, 0, 0)
    BY <2>3, <2>4, Zenon
  <2> QED BY <1>1, <2>4, <2>5 DEF TextProgress
<1> QED BY <1>11, <1>13, <1>14, <1>15, <1>16 DEF BindInv
\* What both kinds of assignment lists are and mean.
LEMMA AssignmentLists ==
  ASSUME TypeOK
  PROVE  /\ ConflictAssignments(query) \in Seq(AssignmentType)
         /\ DuplicateAssignments(query) \in Seq(AssignmentType)
         /\ \A i \in DOMAIN ConflictAssignments(query) :
              Meant(query, <<"CONFLICT", 1, i, 1>>) = ConflictAssignments(query)[i].value
         /\ \A i \in DOMAIN DuplicateAssignments(query) :
              Meant(query, <<"DUPLICATE", 1, i, 1>>) = DuplicateAssignments(query)[i].value
<1>1. ConflictAssignments(query) \in Seq(AssignmentType)
  <2>1. query.conflict \in Seq(ConflictType) /\ <<>> \in Seq(AssignmentType)
    BY DEF TypeOK, QueryType
  <2>2. ASSUME query.conflict # <<>> PROVE query.conflict[1].assignments \in Seq(AssignmentType)
    <3>1. query.conflict[1] \in ConflictType
      BY <2>1, <2>2
    <3> QED BY <3>1 DEF ConflictType
  <2> QED BY <2>1, <2>2 DEF ConflictAssignments
<1>2. DuplicateAssignments(query) \in Seq(AssignmentType)
  BY DEF TypeOK, QueryType, DuplicateAssignments
<1>3. \A i : Meant(query, <<"CONFLICT", 1, i, 1>>) = ConflictAssignments(query)[i].value
  BY DEF Meant
<1>4. \A i : Meant(query, <<"DUPLICATE", 1, i, 1>>) = DuplicateAssignments(query)[i].value
  BY DEF Meant
<1> QED BY <1>1, <1>2, <1>3, <1>4

\* All rows are written; the assignments come next.
LEMMA FinishRowsInv == BindInv /\ FinishRows => BindInv'
<1> SUFFICES ASSUME BindInv, FinishRows PROVE BindInv'
  OBVIOUS
<1>1. /\ pc = "values" /\ index > Len(normalized) /\ pc' = "conflict" /\ index' = 1
      /\ UNCHANGED <<query, normalized, nextArg, args, text>>
  BY DEF FinishRows, buffers
<1>2. /\ Len(normalized) = Len(query.rows) /\ index - 1 <= Len(query.rows)
      /\ Covers(query, SlotsIn(text), index - 1, 0, 0)
      /\ index \in Nat /\ Len(query.rows) \in Nat
      /\ Len(ConflictAssignments(query)) \in Nat
  <2>1. ConflictAssignments(query) \in Seq(AssignmentType)
    BY AssignmentLists DEF BindInv
  <2> QED BY <1>1, <2>1 DEF BindInv, TypeOK, QueryType, RowsProgress, TextProgress
<1>3. index - 1 = Len(query.rows)
  BY <1>1, <1>2
<1>4. TypeOK' /\ AtRest' /\ Counted' /\ ArgumentsInPlace'
  BY <1>1 DEF BindInv, TypeOK, AtRest, Counted, ArgumentsInPlace
<1>5. RowsPrepared' /\ RowsProgress'
  <2>1. RowsPrepared'
    BY <1>1, RowsKept DEF BindInv
  <2> QED BY <1>1, <2>1, QueryKept DEF BindInv, RowsProgress
<1>6. TextProgress'
  <2>1. index' - 1 = 0 /\ 0 <= Len(ConflictAssignments(query))
    BY <1>1, <1>2
  <2>2. Covers(query, SlotsIn(text), Len(query.rows), index' - 1, 0)
    BY <1>2, <1>3, <2>1, Zenon
  <2> QED BY <1>1, <2>1, <2>2 DEF TextProgress
<1> QED BY <1>4, <1>5, <1>6 DEF BindInv

OneSlot(clause, list, n, incoming) ==
  IF list[n].source = incoming THEN {} ELSE {<<clause, 1, n, 1>>}

LEMMA OneMoreAssignment ==
  ASSUME NEW clause, NEW list, NEW incoming, NEW n \in Nat \ {0}
  PROVE  AssignedSlots(clause, list, n, incoming) =
           AssignedSlots(clause, list, n - 1, incoming) \union OneSlot(clause, list, n, incoming)
<1>1. 1 .. n = (1 .. n - 1) \union {n}
  OBVIOUS
<1> QED BY <1>1 DEF AssignedSlots, OneSlot

\* One assignment of a list that Build is writing.
Assigning(clause, list, incoming) ==
  /\ list \in Seq(AssignmentType)
  /\ \A i \in DOMAIN list : Meant(query, <<clause, 1, i, 1>>) = list[i].value
  /\ pc \in {"conflict", "duplicate"} /\ index <= Len(list)
  /\ RenderAssignment(clause, list[index], incoming)
  /\ index' = index + 1
  /\ UNCHANGED <<query, pc, normalized>>

LEMMA AssignmentInv ==
  ASSUME BindInv, NEW clause \in {"CONFLICT", "DUPLICATE"}, NEW list, NEW incoming,
         Assigning(clause, list, incoming)
  PROVE  /\ TypeOK' /\ AtRest' /\ Counted' /\ RowsPrepared' /\ RowsProgress' /\ ArgumentsInPlace'
         /\ SlotsIn(text') = SlotsIn(text) \union OneSlot(clause, list, index, incoming)
<1>1. /\ list \in Seq(AssignmentType) /\ index \in DOMAIN list /\ index \in Nat \ {0}
      /\ index' = index + 1 /\ index' \in Nat \ {0} /\ pc \in {"conflict", "duplicate"}
      /\ UNCHANGED <<query, pc, normalized>> /\ TypeOK
  BY DEF Assigning, BindInv, TypeOK
<1>2. RowsPrepared' /\ RowsProgress' /\ AtRest'
  <2>1. RowsPrepared'
    BY <1>1, RowsKept DEF BindInv
  <2> QED BY <1>1, <2>1, QueryKept DEF BindInv, RowsProgress, AtRest
<1>3. CASE list[index].source = incoming
  <2>1. UNCHANGED <<nextArg, args, text>>
    BY <1>3 DEF Assigning, RenderAssignment, buffers
  <2>2. TypeOK' /\ Counted' /\ ArgumentsInPlace'
    BY <1>1, <2>1 DEF BindInv, TypeOK, Counted, ArgumentsInPlace
  <2>3. SlotsIn(text') = SlotsIn(text) \union OneSlot(clause, list, index, incoming)
    BY <1>3, <2>1 DEF OneSlot
  <2> QED BY <1>2, <2>2, <2>3
<1>4. CASE list[index].source # incoming
  <2> DEFINE value == list[index].value
             values == <<value>>
             added == Placeholders(clause, 1, index, values, nextArg)
  <2>1. value \in Bindable /\ Meant(query, <<clause, 1, index, 1>>) = value
    <3>1. list[index] \in AssignmentType
      BY <1>1
    <3> QED BY <1>1, <3>1 DEF Assigning, AssignmentType, Bindable
  <2>2. /\ values \in Seq(Bindable) /\ Len(values) = 1 /\ values[1] = value
        /\ nextArg \in Nat \ {0} /\ args \in Seq(Bindable)
    BY <2>1 DEF BindInv, TypeOK, Bindable
  <2>3. text' = text \o added /\ args' = Append(args, value) /\ nextArg' = nextArg + 1
    BY <1>4 DEF Assigning, RenderAssignment
  <2> HIDE DEF value
  <2>4. args' = args \o values
    BY <2>1, <2>2, <2>3, AppendIsConcat
  <2>5. added = [p \in 1 .. 1 |-> [slot |-> <<clause, 1, index, p>>, number |-> nextArg + p - 1]]
    BY <2>2, Zenon DEF Placeholders
  <2>6. /\ added \in Seq(Placed) /\ Len(added) = 1 /\ DOMAIN added = {1}
        /\ added[1].slot = <<clause, 1, index, 1>> /\ added[1].number = nextArg
    <3> DEFINE placeholder == [slot |-> <<clause, 1, index, 1>>, number |-> nextArg]
    <3>1. placeholder \in Placed
      BY <1>1, <2>2 DEF Placed, PlaceholderType, SlotType, Clauses
    <3>2. added[1] = placeholder /\ DOMAIN added = 1 .. 1
      BY <2>2, <2>5
    <3> HIDE DEF added
    <3>3. added \in [1 .. 1 -> Placed]
      <4>1. added = [p \in 1 .. 1 |-> added[p]] /\ \A p \in 1 .. 1 : p = 1
        BY <2>5
      <4> QED BY <3>1, <3>2, <4>1
    <3>4. added \in Seq(Placed) /\ Len(added) = 1
      BY <3>3, Listed
    <3> QED BY <3>2, <3>4
  <2> HIDE DEF added, values
  <2>7. Fitting(query, added, values, nextArg)
    <3>1. \A k \in 1 .. Len(values) : k = 1
      BY <2>2
    <3>2. nextArg + 1 - 1 = nextArg
      BY <2>2
    <3> QED BY <2>1, <2>2, <2>6, <3>1, <3>2 DEF Fitting
  <2>8. Written(added, values)
    BY <1>1, <2>2, <2>3, <2>4 DEF Written
  <2>9. /\ text' \in Seq(Placed) /\ args' \in Seq(Bindable) /\ nextArg' \in Nat \ {0}
        /\ Counted' /\ ArgumentsInPlace'
        /\ SlotsIn(text') = SlotsIn(text) \union SlotsIn(added)
    BY <2>7, <2>8, WriteInPlace DEF BindInv
  <2>10. SlotsIn(added) = OneSlot(clause, list, index, incoming)
    BY <1>4, <2>6 DEF SlotsIn, OneSlot
  <2>11. TypeOK'
    BY <1>1, <2>9 DEF TypeOK, Placed, Bindable
  <2> QED BY <1>2, <2>9, <2>10, <2>11
<1> QED BY <1>3, <1>4
\* The upsert clause of PostgreSQL and SQLite.
LEMMA ConflictInv == BindInv /\ RenderConflict => BindInv'
<1> SUFFICES ASSUME BindInv, RenderConflict PROVE BindInv'
  OBVIOUS
<1> DEFINE list == ConflictAssignments(query)
           rows == Len(query.rows)
<1>1. /\ pc = "conflict" /\ list \in Seq(AssignmentType) /\ Len(list) \in Nat
      /\ index \in Nat \ {0} /\ index - 1 <= Len(list)
      /\ Covers(query, SlotsIn(text), rows, index - 1, 0)
      /\ RenderAssignments("CONFLICT", "conflict", list, "excluded", "duplicate")
      /\ \A i \in DOMAIN list : Meant(query, <<"CONFLICT", 1, i, 1>>) = list[i].value
      /\ TypeOK /\ Len(DuplicateAssignments(query)) \in Nat
  BY AssignmentLists DEF RenderConflict, RenderAssignments, BindInv, TypeOK, TextProgress
<1>2. CASE index <= Len(list)
  <2>1. /\ Assigning("CONFLICT", list, "excluded") /\ index' = index + 1
        /\ UNCHANGED <<query, pc, normalized>>
    BY <1>1, <1>2 DEF RenderAssignments, Assigning
  <2>2. /\ TypeOK' /\ AtRest' /\ Counted' /\ RowsPrepared' /\ RowsProgress' /\ ArgumentsInPlace'
        /\ SlotsIn(text') = SlotsIn(text) \union OneSlot("CONFLICT", list, index, "excluded")
    BY <2>1, AssignmentInv
  <2>3. Covers(query, SlotsIn(text'), rows, index, 0)
    <3>1. AssignedSlots("CONFLICT", list, index, "excluded") =
            AssignedSlots("CONFLICT", list, index - 1, "excluded")
              \union OneSlot("CONFLICT", list, index, "excluded")
      BY <1>1, OneMoreAssignment
    <3> QED BY <1>1, <2>2, <3>1, Zenon DEF Covers
  <2>4. index' - 1 = index
    BY <1>1, <2>1
  <2>5. Covers(query, SlotsIn(text'), rows, index' - 1, 0)
    BY <2>3, <2>4, Zenon
  <2>6. TextProgress'
    BY <1>1, <1>2, <2>1, <2>4, <2>5 DEF TextProgress
  <2> QED BY <2>2, <2>6 DEF BindInv
<1>3. CASE ~(index <= Len(list))
  <2>1. /\ pc' = "duplicate" /\ index' = 1
        /\ UNCHANGED <<query, normalized, nextArg, args, text>>
    BY <1>1, <1>3 DEF RenderAssignments, buffers
  <2>2. TypeOK' /\ AtRest' /\ Counted' /\ ArgumentsInPlace'
    BY <1>1, <2>1 DEF BindInv, TypeOK, AtRest, Counted, ArgumentsInPlace
  <2>3. RowsPrepared' /\ RowsProgress'
    <3>1. RowsPrepared'
      BY <2>1, RowsKept DEF BindInv
    <3> QED BY <1>1, <2>1, <3>1, QueryKept DEF BindInv, RowsProgress
  <2>4. index - 1 = Len(list) /\ index' - 1 = 0 /\ 0 <= Len(DuplicateAssignments(query))
    BY <1>1, <1>3, <2>1
  <2>5. Covers(query, SlotsIn(text), rows, Len(list), index' - 1)
    BY <1>1, <2>4, Zenon
  <2>6. TextProgress'
    BY <2>1, <2>4, <2>5 DEF TextProgress
  <2> QED BY <2>2, <2>3, <2>6 DEF BindInv
<1> QED BY <1>2, <1>3

\* The one of MySQL, after which the statement is built.
LEMMA DuplicateInv == BindInv /\ RenderDuplicateKey => BindInv'
<1> SUFFICES ASSUME BindInv, RenderDuplicateKey PROVE BindInv'
  OBVIOUS
<1> DEFINE list == DuplicateAssignments(query)
           rows == Len(query.rows)
           conflicts == Len(ConflictAssignments(query))
<1>1. /\ pc = "duplicate" /\ list \in Seq(AssignmentType) /\ Len(list) \in Nat
      /\ index \in Nat \ {0} /\ index - 1 <= Len(list)
      /\ Covers(query, SlotsIn(text), rows, conflicts, index - 1)
      /\ RenderAssignments("DUPLICATE", "duplicate", list, "inserted", "built")
      /\ \A i \in DOMAIN list : Meant(query, <<"DUPLICATE", 1, i, 1>>) = list[i].value
      /\ TypeOK
  BY AssignmentLists DEF RenderDuplicateKey, RenderAssignments, BindInv, TypeOK, TextProgress
<1>2. CASE index <= Len(list)
  <2>1. /\ Assigning("DUPLICATE", list, "inserted") /\ index' = index + 1
        /\ UNCHANGED <<query, pc, normalized>>
    BY <1>1, <1>2 DEF RenderAssignments, Assigning
  <2>2. /\ TypeOK' /\ AtRest' /\ Counted' /\ RowsPrepared' /\ RowsProgress' /\ ArgumentsInPlace'
        /\ SlotsIn(text') = SlotsIn(text) \union OneSlot("DUPLICATE", list, index, "inserted")
    BY <2>1, AssignmentInv
  <2>3. Covers(query, SlotsIn(text'), rows, conflicts, index)
    <3>1. AssignedSlots("DUPLICATE", list, index, "inserted") =
            AssignedSlots("DUPLICATE", list, index - 1, "inserted")
              \union OneSlot("DUPLICATE", list, index, "inserted")
      BY <1>1, OneMoreAssignment
    <3> QED BY <1>1, <2>2, <3>1, Zenon DEF Covers
  <2>4. index' - 1 = index
    BY <1>1, <2>1
  <2>5. Covers(query, SlotsIn(text'), rows, conflicts, index' - 1)
    BY <2>3, <2>4, Zenon
  <2>6. TextProgress'
    BY <1>1, <1>2, <2>1, <2>4, <2>5 DEF TextProgress
  <2> QED BY <2>2, <2>6 DEF BindInv
<1>3. CASE ~(index <= Len(list))
  <2>1. /\ pc' = "built" /\ index' = 1
        /\ UNCHANGED <<query, normalized, nextArg, args, text>>
    BY <1>1, <1>3 DEF RenderAssignments, buffers
  <2>2. TypeOK' /\ AtRest' /\ Counted' /\ ArgumentsInPlace'
    BY <1>1, <2>1 DEF BindInv, TypeOK, AtRest, Counted, ArgumentsInPlace
  <2>3. RowsPrepared' /\ RowsProgress'
    <3>1. RowsPrepared'
      BY <2>1, RowsKept DEF BindInv
    <3> QED BY <1>1, <2>1, <3>1, QueryKept DEF BindInv, RowsProgress
  <2>4. index - 1 = Len(list)
    BY <1>1, <1>3
  <2>5. Covers(query, SlotsIn(text), rows, conflicts, Len(list))
    BY <1>1, <2>4, Zenon
  <2>6. TextProgress'
    BY <2>1, <2>5 DEF TextProgress
  <2> QED BY <2>2, <2>3, <2>6 DEF BindInv
<1> QED BY <1>2, <1>3

LEMMA StepInv == BindInv /\ [Next]_vars => BindInv'
<1> SUFFICES ASSUME BindInv, [Next]_vars PROVE BindInv'
  OBVIOUS
<1>1. CASE Next
  BY <1>1, OutsideInv, BuildInv, NormalizeInv, CheckInv, RenderRowInv, FinishRowsInv,
     ConflictInv, DuplicateInv DEF Next, Writing
<1>2. CASE UNCHANGED vars
  <2>1. UNCHANGED <<query, pc, index, normalized, nextArg, args, text>>
    BY <1>2 DEF vars, locals, buffers
  <2>2. TypeOK' /\ AtRest' /\ Counted' /\ ArgumentsInPlace'
    BY <2>1 DEF BindInv, TypeOK, AtRest, Counted, ArgumentsInPlace
  <2>3. RowsPrepared'
    BY <2>1, RowsKept DEF BindInv
  <2>4. RowsProgress' /\ TextProgress'
    BY <2>1, QueryKept DEF BindInv, RowsProgress, TextProgress
  <2> QED BY <2>2, <2>3, <2>4 DEF BindInv
<1> QED BY <1>1, <1>2

THEOREM Invariance == Spec => []BindInv
BY InitInv, StepInv, PTL DEF Spec

\* The query stays well formed, at most one clause of each kind is set, and
\* Build's locals keep their types, through every chain of calls.
THEOREM TypeCorrect == Spec => []TypeOK
<1>1. BindInv => TypeOK
  BY DEF BindInv
<1> QED BY <1>1, Invariance, PTL

\* Whatever the rows and the upsert clause, the n-th placeholder carries number
\* n and its argument is the value the caller gave for that row and column.
THEOREM ArgumentsStayInPlace == Spec => []ArgumentsInPlace
<1>1. BindInv => ArgumentsInPlace
  BY DEF BindInv
<1> QED BY <1>1, Invariance, PTL

\* A built INSERT is a full rectangle: every row has one value for each column
\* of the first, and it is the value its own call of Values named the column
\* with, in whatever order that call named them.
THEOREM RowsAreFull == Spec => []RowsFillColumns
<1>1. BindInv => RowsFillColumns
  <2> SUFFICES ASSUME BindInv, pc = "built"
               PROVE  LET columns == Names(query.rows[1]) IN
                      /\ query.target.required \subseteq columns
                      /\ columns \subseteq query.target.insertable
                      /\ Len(normalized) = Len(query.rows)
                      /\ \A r \in DOMAIN normalized :
                           /\ Len(normalized[r]) = Len(query.rows[1])
                           /\ {<<query.rows[1][c].column.name, normalized[r][c]>> :
                                 c \in DOMAIN normalized[r]}
                                = {<<query.rows[r][c].column.name, query.rows[r][c].value>> :
                                     c \in DOMAIN query.rows[r]}
    BY DEF RowsFillColumns
  <2> DEFINE first == query.rows[1]
  <2>1. /\ TypeOK /\ query.rows # <<>> /\ query.rows \in Seq(Seq(InsertValueType))
        /\ normalized \in Seq(Seq(Values)) /\ Len(normalized) = Len(query.rows)
        /\ DOMAIN normalized = DOMAIN query.rows /\ 1 \in DOMAIN normalized
        /\ \A r \in DOMAIN normalized :
             RowOK(query.rows[r]) /\ normalized[r] = Normalize(query.rows[r])
    BY DEF BindInv, TypeOK, QueryType, RowsProgress, RowsPrepared
  <2>2. query.target.required \subseteq Names(first) /\ Names(first) \subseteq query.target.insertable
    BY <2>1 DEF RowOK, Assignable, Names
  <2>3. ASSUME NEW r \in DOMAIN normalized
        PROVE  /\ Len(normalized[r]) = Len(first)
               /\ {<<first[c].column.name, normalized[r][c]>> : c \in DOMAIN normalized[r]}
                    = {<<query.rows[r][c].column.name, query.rows[r][c].value>> :
                         c \in DOMAIN query.rows[r]}
    <3> DEFINE row == query.rows[r]
               written == normalized[r]
    <3>1. /\ Len(written) = Len(first) /\ written \in Seq(Values)
          /\ \A c \in DOMAIN first : \E i \in DOMAIN row :
               row[i].column = first[c].column /\ written[c] = row[i].value
      <4>1. /\ r \in DOMAIN query.rows /\ RowOK(query.rows[1]) /\ RowOK(query.rows[r])
            /\ normalized[r] = Normalize(query.rows[r])
        BY <2>1, <2>3
      <4>2. /\ Normalize(query.rows[r]) \in Seq(Values)
            /\ Len(Normalize(query.rows[r])) = Len(query.rows[1])
            /\ \A c \in DOMAIN query.rows[1] : \E i \in DOMAIN query.rows[r] :
                 /\ query.rows[r][i].column = query.rows[1][c].column
                 /\ Normalize(query.rows[r])[c] = query.rows[r][i].value
        BY <2>1, <4>1, RowFits
      <4> QED BY <4>1, <4>2
    <3>2. first \in Seq(InsertValueType) /\ DOMAIN written = DOMAIN first
      BY <2>1, <3>1
    <3>3. /\ Names(row) = Names(first)
          /\ \A i, j \in DOMAIN row : row[i].column.name = row[j].column.name => i = j
      BY <2>1, <2>3 DEF RowOK, Assignable
    <3> HIDE DEF row, written, first
    <3>4. ASSUME NEW c \in DOMAIN written
          PROVE  \E i \in DOMAIN row :
                   <<first[c].column.name, written[c]>> = <<row[i].column.name, row[i].value>>
      BY <3>1, <3>2
    <3>5. ASSUME NEW i \in DOMAIN row
          PROVE  \E c \in DOMAIN written :
                   <<first[c].column.name, written[c]>> = <<row[i].column.name, row[i].value>>
      <4>1. row[i].column.name \in Names(first)
        BY <3>3 DEF Names
      <4>2. PICK c \in DOMAIN first : first[c].column.name = row[i].column.name
        BY <4>1 DEF Names
      <4>3. PICK j \in DOMAIN row : row[j].column = first[c].column /\ written[c] = row[j].value
        BY <3>1
      <4>4. j = i
        BY <3>3, <4>2, <4>3
      <4> QED BY <3>2, <4>2, <4>3, <4>4
    <3>6. {<<first[c].column.name, written[c]>> : c \in DOMAIN written}
            = {<<row[i].column.name, row[i].value>> : i \in DOMAIN row}
      BY <3>4, <3>5
    <3> QED BY <3>1, <3>6 DEF row, written, first
  <2> QED BY <2>1, <2>2, <2>3
<1> QED BY <1>1, Invariance, PTL
-----------------------------------------------------------------------------
(***************************************************************************)
(* Refinement of BoundStatement.  It needs that no ON CONFLICT assignment  *)
(* refers to the row alias of MySQL: MC_InsertIncoming shows the INSERT    *)
(* that binds a value nobody supplied when one does.                       *)
(***************************************************************************)
OnlyExcluded ==
  \A list \in ConflictLists : \A i \in DOMAIN list : list[i].source # "inserted"

\* The assignments of ON CONFLICT are a list that the caller passed.
ConflictPassed ==
  \A i \in DOMAIN query.conflict : query.conflict[i].assignments \in ConflictLists \union {<<>>}

LEMMA ConflictPassedStep == BindInv /\ ConflictPassed /\ [Next]_vars => ConflictPassed'
<1> SUFFICES ASSUME BindInv, ConflictPassed, [Next]_vars PROVE ConflictPassed'
  OBVIOUS
<1>1. CASE query'.conflict = query.conflict
  BY <1>1, Zenon DEF ConflictPassed
<1>2. ASSUME NEW columns, NEW doNothing, NEW list \in ConflictLists \union {<<>>},
             query' = [query EXCEPT !.conflict = Conflict(columns, doNothing, list)]
      PROVE  ConflictPassed'
  <2> DEFINE clause == [columns |-> columns, doNothing |-> doNothing, assignments |-> list]
  <2>1. query \in QueryType
    BY DEF BindInv, TypeOK
  <2>2. query'.conflict = <<clause>>
    BY <1>2, <2>1 DEF QueryType, Conflict
  <2>3. clause.assignments = list
    OBVIOUS
  <2> HIDE DEF clause
  <2>4. DOMAIN query'.conflict = {1} /\ query'.conflict[1] = clause
    BY <2>2
  <2> QED BY <2>3, <2>4 DEF ConflictPassed
<1>3. CASE Assemble
  <2>1. query \in QueryType
    BY DEF BindInv, TypeOK
  <2>2. ASSUME NEW row \in Rows, AddRow(row) PROVE query'.conflict = query.conflict
    BY <2>1, <2>2 DEF AddRow, Refined, QueryType
  <2>3. ASSUME NEW columns \in ConflictTargets, WithConflictDoNothing(columns)
        PROVE  ConflictPassed'
    BY <1>2, <2>3 DEF WithConflictDoNothing, Refined
  <2>4. ASSUME NEW columns \in ConflictTargets, NEW list \in ConflictLists,
               WithConflictDoUpdate(columns, list)
        PROVE  ConflictPassed'
    BY <1>2, <2>4 DEF WithConflictDoUpdate, Refined
  <2>5. ASSUME NEW list \in DuplicateLists, WithDuplicateKeyDoUpdate(list)
        PROVE  query'.conflict = query.conflict
    BY <2>1, <2>5 DEF WithDuplicateKeyDoUpdate, Refined, QueryType
  <2>6. ASSUME NEW columns \in Returned, Returning(columns)
        PROVE  query'.conflict = query.conflict
    BY <2>1, <2>6 DEF Returning, Refined, QueryType
  <2> QED BY <1>1, <1>3, <2>2, <2>3, <2>4, <2>5, <2>6 DEF Assemble
<1>4. CASE Build \/ Refine \/ UNCHANGED vars
  BY <1>1, <1>4 DEF Build, Refine, vars
<1>5. CASE Writing
  <2>1. UNCHANGED query
    BY <1>5 DEF Writing, NormalizeRow, CheckClauses, Reject, RenderRow, FinishRows,
                RenderConflict, RenderDuplicateKey, RenderAssignments
  <2> QED BY <1>1, <2>1
<1> QED BY <1>3, <1>4, <1>5 DEF Next

\* When Build has passed every row and assignment, the slots are those of the
\* query.
LEMMA AllCovered ==
  ASSUME TypeOK, ClausesOK, ConflictPassed, OnlyExcluded, NEW slots,
         Covers(query, slots, Len(query.rows), Len(ConflictAssignments(query)),
                Len(DuplicateAssignments(query)))
  PROVE  slots = Slots(query)
<1> DEFINE conflicts == ConflictAssignments(query)
           duplicates == DuplicateAssignments(query)
<1>1. /\ query.rows \in Seq(Seq(InsertValueType))
      /\ query.conflict \in Seq(ConflictType) /\ Len(query.conflict) <= 1
      /\ query.duplicate \in Seq(Seq(AssignmentType)) /\ Len(query.duplicate) <= 1
      /\ conflicts \in Seq(AssignmentType) /\ duplicates \in Seq(AssignmentType)
  BY AssignmentLists DEF TypeOK, QueryType
<1>2. ASSUME NEW i \in 1 .. Len(conflicts)
      PROVE  conflicts[i].source # "excluded" <=> conflicts[i].source = "value"
  <2>1. conflicts[i] \in AssignmentType
    BY <1>1
  <2>2. query.conflict # <<>> /\ 1 \in DOMAIN query.conflict
    BY <1>1 DEF ConflictAssignments
  <2>3. conflicts \in ConflictLists
    BY <1>1, <2>2 DEF ConflictAssignments, ConflictPassed
  <2>4. conflicts[i].source # "inserted"
    BY <1>1, <2>3 DEF OnlyExcluded
  <2> QED BY <2>1, <2>4 DEF AssignmentType, Sources
<1>3. ASSUME NEW i \in 1 .. Len(duplicates)
      PROVE  duplicates[i].source # "inserted" <=> duplicates[i].source = "value"
  <2>1. duplicates[i] \in AssignmentType
    BY <1>1
  <2>2. query.duplicate # <<>> /\ 1 \in DOMAIN query.duplicate
    BY <1>1 DEF DuplicateAssignments
  <2>3. DuplicateOK(duplicates)
    BY <2>2 DEF ClausesOK, DuplicateAssignments
  <2>4. duplicates[i].source # "excluded"
    BY <1>1, <2>3 DEF DuplicateOK
  <2> QED BY <2>1, <2>4 DEF AssignmentType, Sources
<1>4. /\ DOMAIN conflicts = 1 .. Len(conflicts) /\ DOMAIN duplicates = 1 .. Len(duplicates)
      /\ DOMAIN query.rows = 1 .. Len(query.rows)
  BY <1>1
<1> HIDE DEF conflicts, duplicates
<1>5. AssignedSlots("CONFLICT", conflicts, Len(conflicts), "excluded")
        = ValueSlots("CONFLICT", conflicts)
  BY <1>2, <1>4 DEF AssignedSlots, ValueSlots
<1>6. AssignedSlots("DUPLICATE", duplicates, Len(duplicates), "inserted")
        = ValueSlots("DUPLICATE", duplicates)
  BY <1>3, <1>4 DEF AssignedSlots, ValueSlots
<1>7. slots = RowSlots(query, Len(query.rows))
                \union ValueSlots("CONFLICT", conflicts) \union ValueSlots("DUPLICATE", duplicates)
  BY <1>5, <1>6, Zenon DEF Covers, conflicts, duplicates
<1> QED BY <1>4, <1>7, Zenon DEF Slots, RowSlots, conflicts, duplicates

\* A text in its place binds what is wanted, in every dialect.
LEMMA BindsWanted ==
  ASSUME NEW q, NEW d, NEW t, NEW a, SlotsIn(t) = Slots(q),
         \A i \in DOMAIN t : t[i].number = i /\ a[i] = Meant(q, t[i].slot)
  PROVE  BoundSlots(d, t, a) = Wanted(q)
<1>1. \A i \in DOMAIN t : BoundAt(d, t, a, i) = Meant(q, t[i].slot)
  BY DEF BoundAt
<1>2. BoundSlots(d, t, a) = {<<t[i].slot, Meant(q, t[i].slot)>> : i \in DOMAIN t}
  BY <1>1 DEF BoundSlots
<1>3. Wanted(q) = {<<slot, Meant(q, slot)>> : slot \in SlotsIn(t)}
  BY DEF Wanted
<1> QED BY <1>2, <1>3 DEF SlotsIn

\* The steps of BoundStatement, in terms of pc.
LEMMA PendingSteps ==
  ASSUME pc \notin {"built", "rejected"}
  PROVE  /\ pc' \notin {"built", "rejected"} /\ query' = query => UNCHANGED Promise!vars
         /\ pc' = "rejected" /\ query' = query /\ text' = <<>> => Promise!Next
         /\ pc' = "built" /\ query' = query
              /\ BoundSlots(dialect', text', args') = Wanted(query) => Promise!Next
<1>1. text' = <<>> => BoundSlots(dialect', text', args') = {}
  BY DEF BoundSlots
<1> QED
  BY <1>1
     DEF Promise!vars, Promise!Next, Promise!Refuse, Promise!Refused, Promise!Pending,
         Promise!Bind, Promise!Bound, dialect

LEMMA ChangeStep ==
  ASSUME pc' = "query", query' \in QueryType
  PROVE  Promise!Next
BY DEF Promise!Next, Promise!Change, Promise!Pending

LEMMA InitRefines == Init => Promise!Init
BY InitInv DEF Init, BindInv, TypeOK, Promise!Init, Promise!Pending

LEMMA StepRefines ==
  ASSUME OnlyExcluded
  PROVE  BindInv /\ BindInv' /\ ConflictPassed /\ [Next]_vars => [Promise!Next]_(Promise!vars)
<1> SUFFICES ASSUME BindInv, BindInv', ConflictPassed, [Next]_vars
             PROVE  [Promise!Next]_(Promise!vars)
  OBVIOUS
<1>a. pc' = "rejected" => text' = <<>>
  BY DEF BindInv, AtRest
<1>1. CASE Assemble \/ Refine
  <2>1. pc' = "query"
    BY <1>1 DEF Assemble, AddRow, WithConflictDoNothing, WithConflictDoUpdate,
                WithDuplicateKeyDoUpdate, Returning, Refined, Refine
  <2>2. query' \in QueryType
    BY DEF BindInv, TypeOK
  <2> QED BY <2>1, <2>2, ChangeStep
<1>2. CASE Build
  BY <1>2, <1>a, PendingSteps DEF Build
<1>3. CASE NormalizeRow \/ CheckClauses
  BY <1>3, <1>a, PendingSteps DEF NormalizeRow, CheckClauses, Reject
<1>4. CASE RenderRow \/ FinishRows \/ RenderConflict
  BY <1>4, <1>a, PendingSteps DEF RenderRow, FinishRows, RenderConflict, RenderAssignments
<1>5. CASE RenderDuplicateKey
  <2>1. pc = "duplicate" /\ query' = query /\ pc' \in {"duplicate", "built"}
    BY <1>5 DEF RenderDuplicateKey, RenderAssignments
  <2>2. CASE pc' = "duplicate"
    BY <2>1, <2>2, PendingSteps
  <2>3. CASE pc' = "built"
    <3>1. Covers(query, SlotsIn(text'), Len(query.rows), Len(ConflictAssignments(query)),
                 Len(DuplicateAssignments(query)))
      BY <2>1, <2>3 DEF BindInv, TextProgress
    <3>2. TypeOK /\ ClausesOK
      BY <2>1 DEF BindInv, RowsProgress
    <3>3. SlotsIn(text') = Slots(query)
      BY <3>1, <3>2, AllCovered
    <3>4. \A i \in DOMAIN text' : text'[i].number = i /\ args'[i] = Meant(query, text'[i].slot)
      BY <2>1 DEF BindInv, ArgumentsInPlace
    <3>5. BoundSlots(dialect', text', args') = Wanted(query)
      BY <3>3, <3>4, BindsWanted
    <3> QED BY <2>1, <2>3, <3>5, PendingSteps
  <2> QED BY <2>1, <2>2, <2>3
<1>6. CASE UNCHANGED vars
  BY <1>6 DEF vars, locals, buffers, Promise!vars, dialect
<1> QED BY <1>1, <1>2, <1>3, <1>4, <1>5, <1>6 DEF Next, Writing

\* While no ON CONFLICT assignment refers to MySQL's row alias, Build keeps the
\* promise of BoundStatement for every query: it refuses the INSERT, or the
\* statement binds every value of every row and every assigned value where the
\* caller put it, once, and nothing else.
THEOREM Refinement ==
  ASSUME OnlyExcluded
  PROVE  Spec => KeepsPromise
<1>1. Init => ConflictPassed
  BY DEF Init, NewInsert, ConflictPassed
<1>2. BindInv /\ BindInv' /\ ConflictPassed /\ [Next]_vars => [Promise!Next]_(Promise!vars)
  BY StepRefines
<1> QED
  BY <1>1, <1>2, InitRefines, Invariance, ConflictPassedStep, PTL
     DEF Spec, KeepsPromise, Promise!Spec
=============================================================================
