-------------------------- MODULE SelectBuildProofs --------------------------
(***************************************************************************)
(* Theorems about the SELECT builder, for every set of tables, predicates  *)
(* and values and for chains of calls of every length.                     *)
(***************************************************************************)
EXTENDS SelectBuild, SequenceLemmas, FiniteSetTheorems

\* What placeholders and arguments are.
Placed == PlaceholderType(Clauses)
Bindable == Values \union Counts

\* Build's locals are empty outside a Build.
AtRest ==
  pc \in {"source", "query", "rejected"} =>
    /\ index = 1 /\ visible = {} /\ rendered = <<>> /\ conditions = <<>>
    /\ nextArg = 1 /\ args = <<>> /\ text = <<>>

\* The counter is one ahead of the arguments until OFFSET, the last one.
Counted == pc # "built" => nextArg = Len(args) + 1

\* Conditions under way are those of the call to On, or come from a foreign
\* key and bind nothing.
ConditionsOrigin ==
  pc = "on" =>
    /\ Len(rendered) < Len(query.joins)
    /\ \/ conditions = query.joins[Len(rendered) + 1].conditions
       \/ \A c \in DOMAIN conditions : conditions[c].values = <<>>

BindInv == TypeOK /\ AtRest /\ Counted /\ ConditionsOrigin /\ ArgumentsInPlace

-----------------------------------------------------------------------------
\* Placeholders added after n arguments, and values that are what they mean.
Extends(q, added, values, n) ==
  \A k \in 1 .. Len(values) :
    added[k].number = n + k /\ Meant(q, added[k].slot) = values[k]

\* Appending placeholders that mean the values appended with them keeps every
\* argument in its place.
LEMMA AppendInPlace ==
  ASSUME NEW q,
         NEW placed \in Seq(Placed), NEW bound \in Seq(Bindable), InPlace(q, placed, bound),
         NEW added \in Seq(Placed), NEW values \in Seq(Bindable), Len(values) = Len(added),
         Extends(q, added, values, Len(bound))
  PROVE  /\ placed \o added \in Seq(Placed) /\ bound \o values \in Seq(Bindable)
         /\ Len(bound \o values) = Len(bound) + Len(values)
         /\ InPlace(q, placed \o added, bound \o values)
<1>1. Len(bound) \in Nat /\ Len(values) \in Nat /\ Len(placed) = Len(bound)
  BY DEF InPlace
<1>2. /\ placed \o added \in Seq(Placed)
      /\ Len(placed \o added) = Len(placed) + Len(added)
      /\ \A i \in 1 .. Len(placed) + Len(added) :
           (placed \o added)[i] = IF i <= Len(placed) THEN placed[i] ELSE added[i - Len(placed)]
  BY Concatenation
<1>3. /\ bound \o values \in Seq(Bindable)
      /\ Len(bound \o values) = Len(bound) + Len(values)
      /\ \A i \in 1 .. Len(bound) + Len(values) :
           (bound \o values)[i] = IF i <= Len(bound) THEN bound[i] ELSE values[i - Len(bound)]
  BY Concatenation
<1>4. ASSUME NEW i \in 1 .. Len(bound) + Len(values)
      PROVE  /\ (placed \o added)[i].number = i
             /\ (bound \o values)[i] = Meant(q, (placed \o added)[i].slot)
  <2>1. CASE i <= Len(bound)
    <3>1. (placed \o added)[i] = placed[i] /\ (bound \o values)[i] = bound[i]
      BY <1>1, <1>2, <1>3, <2>1
    <3>2. i \in DOMAIN placed
      BY <1>1, <2>1
    <3>3. placed[i].number = i /\ bound[i] = Meant(q, placed[i].slot)
      BY <3>2 DEF InPlace
    <3> QED BY <3>1, <3>3, Zenon
  <2>2. CASE i > Len(bound)
    <3>1. i - Len(bound) \in 1 .. Len(values)
      BY <1>1, <2>2
    <3>2. PICK k \in 1 .. Len(values) : k = i - Len(bound)
      BY <3>1
    <3>3. (placed \o added)[i] = added[k] /\ (bound \o values)[i] = values[k]
      BY <1>1, <1>2, <1>3, <2>2, <3>2
    <3>4. added[k].number = Len(bound) + k /\ Meant(q, added[k].slot) = values[k]
      BY DEF Extends
    <3>5. Len(bound) + k = i
      BY <1>1, <3>2
    <3> QED BY <3>3, <3>4, <3>5, Zenon
  <2> QED BY <1>1, <2>1, <2>2
<1>5. DOMAIN (placed \o added) = 1 .. Len(bound) + Len(values)
  BY <1>1, <1>2
<1>6. InPlace(q, placed \o added, bound \o values)
  BY <1>1, <1>2, <1>3, <1>4, <1>5 DEF InPlace
<1> QED BY <1>2, <1>3, <1>6
-----------------------------------------------------------------------------
\* Build is about to render the values of a predicate as added.
Ready(clause, item, part, values, added) ==
  /\ TypeOK /\ ArgumentsInPlace /\ nextArg = Len(args) + 1
  /\ added = Placeholders(clause, item, part, values, nextArg)
  /\ \A p \in 1 .. Len(values) : Meant(query, <<clause, item, part, p>>) = values[p]

\* Rendering the values of one predicate: the types, the length and the
\* places after it.
LEMMA RenderKeepsPlaces ==
  ASSUME NEW clause \in Clauses, NEW item \in Nat, NEW part \in Nat,
         NEW values \in Seq(Bindable), NEW added,
         Ready(clause, item, part, values, added)
  PROVE  /\ text \o added \in Seq(Placed)
         /\ args \o values \in Seq(Bindable)
         /\ Len(args \o values) = Len(args) + Len(values)
         /\ InPlace(query, text \o added, args \o values)
<1>1. /\ text \in Seq(Placed) /\ args \in Seq(Bindable)
      /\ nextArg = Len(args) + 1 /\ InPlace(query, text, args)
      /\ nextArg \in Nat \ {0} /\ Len(args) \in Nat
  BY DEF Ready, TypeOK, Placed, Bindable, ArgumentsInPlace
<1>2. /\ added \in Seq(Placed)
      /\ Len(values) = Len(added)
      /\ \A p \in 1 .. Len(values) :
           added[p].slot = <<clause, item, part, p>> /\ added[p].number = nextArg + p - 1
  <2>1. added = Placeholders(clause, item, part, values, nextArg)
    BY DEF Ready
  <2>2. added = Slotting(clause, item, part, Len(values), nextArg) /\ Len(values) \in Nat
    BY <2>1 DEF Placeholders, Slotting
  <2>3. /\ added \in Seq(SlotPlaceholder(Clauses))
        /\ Len(added) = Len(values)
    <3>1. PICK n \in Nat : n = Len(values)
      BY <2>2
    <3>2. PICK first \in Nat \ {0} : first = nextArg
      BY <1>1
    <3>3. Slotting(clause, item, part, n, first) \in Seq(SlotPlaceholder(Clauses))
      BY SlottingShape
    <3>4. Len(Slotting(clause, item, part, n, first)) = n
      BY SlottingShape
    <3> QED BY <2>2, <3>1, <3>2, <3>3, <3>4, Zenon
  <2>4. ASSUME NEW p \in 1 .. Len(values)
        PROVE  added[p].slot = <<clause, item, part, p>> /\ added[p].number = nextArg + p - 1
    <3>1. added[p] = [slot |-> <<clause, item, part, p>>, number |-> nextArg + p - 1]
      BY <2>1 DEF Placeholders
    <3> QED BY <3>1
  <2> QED BY <2>3, <2>4 DEF Placed, PlaceholderType, SlotType, SlotPlaceholder
<1>3. Extends(query, added, values, Len(args))
  <2> SUFFICES ASSUME NEW k \in 1 .. Len(values)
               PROVE  added[k].number = Len(args) + k /\ Meant(query, added[k].slot) = values[k]
    BY DEF Extends
  <2>1. added[k].number = Len(args) + k
    BY <1>1, <1>2
  <2>2. Meant(query, added[k].slot) = values[k]
    BY <1>2, Zenon DEF Ready
  <2> QED BY <2>1, <2>2
<1>4. text \in Seq(Placed) /\ args \in Seq(Bindable) /\ InPlace(query, text, args)
      /\ added \in Seq(Placed) /\ Len(values) = Len(added)
  BY <1>1, <1>2
<1>5. \A q : \A placed \in Seq(Placed), bound \in Seq(Bindable), a \in Seq(Placed), v \in Seq(Bindable) :
        InPlace(q, placed, bound) /\ Len(v) = Len(a) /\ Extends(q, a, v, Len(bound))
        => InPlace(q, placed \o a, bound \o v)
  BY AppendInPlace, Zenon
<1>6. InPlace(query, text \o added, args \o values)
  BY <1>3, <1>4, <1>5
<1>7. args \o values \in Seq(Bindable) /\ Len(args \o values) = Len(args) + Len(values)
  BY <1>3, <1>4, Concatenation
<1>8. text \o added \in Seq(Placed)
  BY <1>3, <1>4, Concatenation
<1> QED BY <1>6, <1>7, <1>8

LEMMA PlainColumn ==
  ASSUME NEW a \in STRING, NEW b \in STRING
  PROVE  Column(a, b) \in ColumnType
BY DEF Column, ColumnType, Functions

\* The conditions inferred from a foreign key bind no value.
LEMMA InferredConditions ==
  ASSUME TypeOK, JoinPending,
         NEW link \in Candidates(query.tables, visible, right)
  PROVE  /\ KeyConditions(link) \in Seq(PredicateType(Values))
         /\ \A c \in DOMAIN KeyConditions(link) : KeyConditions(link)[c].values = <<>>
<1> DEFINE key == link[1].foreignKeys[link[3]]
           condition(c) == Predicate(<<Column(Qualifier(link[1]), key.columns[c]),
                                       Column(Qualifier(link[2]), key.referencedColumns[c])>>, <<>>)
<1>1. right \in TableType /\ \A i \in DOMAIN query.tables : query.tables[i] \in TableType
  <2>1. Len(rendered) + 1 \in DOMAIN query.joins
    BY DEF TypeOK, QueryType, JoinPending
  <2>2. query.joins \in Seq(JoinType) /\ query.tables \in Seq(TableType)
    BY DEF TypeOK, QueryType
  <2>3. current \in JoinType
    BY <2>1, <2>2 DEF current
  <2>4. right \in TableType
    BY <2>3 DEF JoinType, right
  <2> QED BY <2>2, <2>4
<1>2. PICK i \in DOMAIN query.tables :
        link \in Links(query.tables[i], right) \union Links(right, query.tables[i])
  BY DEF Candidates
<1>3. PICK child \in TableType, parent \in TableType : link \in Links(child, parent)
  BY <1>1, <1>2
<1>4. PICK f \in DOMAIN child.foreignKeys :
        link = <<child, parent, f>> /\ Relates(child.foreignKeys[f], parent)
  BY <1>3 DEF Links
<1>5. link[1] = child /\ link[2] = parent /\ key = child.foreignKeys[f]
  BY <1>4
<1>6. key \in ForeignKeyType /\ Len(key.columns) = Len(key.referencedColumns)
  BY <1>4, <1>5 DEF TableType, Relates
<1>7. ASSUME NEW t \in TableType PROVE Qualifier(t) \in STRING
  BY DEF TableType, Qualifier
<1>8. ASSUME NEW c \in 1 .. Len(key.columns)
      PROVE  condition(c) \in PredicateType(Values) /\ condition(c).values = <<>>
  <2>1. key.columns[c] \in STRING /\ key.referencedColumns[c] \in STRING
    BY <1>6 DEF ForeignKeyType
  <2>2. Qualifier(link[1]) \in STRING /\ Qualifier(link[2]) \in STRING
    BY <1>5, <1>7
  <2>3. /\ Column(Qualifier(link[1]), key.columns[c]) \in ColumnType
        /\ Column(Qualifier(link[2]), key.referencedColumns[c]) \in ColumnType
    BY <2>1, <2>2, PlainColumn, Zenon
  <2>4. /\ condition(c).values = <<>>
        /\ condition(c) = [columns |-> <<Column(Qualifier(link[1]), key.columns[c]),
                                        Column(Qualifier(link[2]), key.referencedColumns[c])>>,
                          values |-> <<>>]
    BY DEF Predicate
  <2> HIDE DEF key, condition
  <2> QED BY <2>3, <2>4 DEF PredicateType
<1>9. KeyConditions(link) = [c \in 1 .. Len(key.columns) |-> condition(c)]
  BY DEF KeyConditions
<1>10. Len(key.columns) \in Nat
  BY <1>6 DEF ForeignKeyType
<1> HIDE DEF condition, key
<1> QED BY <1>8, <1>9, <1>10
-----------------------------------------------------------------------------
WellFormed(q) == q \in QueryType /\ Len(q.tables) = Len(q.joins) + 1

\* Every call that assembles a query yields a query.
LEMMA AssembleWellFormed ==
  ASSUME TypeOK, Assemble
  PROVE  WellFormed(query')
<1> DEFINE Preds == PredicateType(Values)
<1>1. query \in QueryType /\ Len(query.tables) = Len(query.joins) + 1
  BY DEF TypeOK
<1>2. /\ NextTables \subseteq TableType
      /\ OnLists \subseteq Seq(Preds)
      /\ WherePredicates \subseteq Preds /\ HavingPredicates \subseteq Preds
      /\ Selections \subseteq Seq(ColumnType) /\ Groupings \subseteq Seq(ColumnType)
      /\ Orderings \subseteq Seq(ColumnType)
  BY InputAssumption
<1> HIDE DEF Preds
<1>3. ASSUME NEW kind \in JoinKinds, NEW table \in NextTables, Join(kind, table)
      PROVE  WellFormed(query')
  <2> DEFINE join == [kind |-> kind, right |-> table, conditions |-> <<>>]
  <2>1. join \in JoinType
    BY <1>2 DEF JoinType
  <2> DEFINE tables == Append(query.tables, table)
             joins == Append(query.joins, join)
  <2>2. query' = [query EXCEPT !.tables = tables, !.joins = joins]
    BY <1>3 DEF Join
  <2>3. tables \in Seq(TableType) /\ Len(tables) = Len(query.tables) + 1
    BY <1>1, <1>2 DEF QueryType
  <2> HIDE DEF join
  <2>4. joins \in Seq(JoinType) /\ Len(joins) = Len(query.joins) + 1
    BY <1>1, <2>1 DEF QueryType
  <2> HIDE DEF tables, joins
  <2>5. query' \in QueryType /\ query'.tables = tables /\ query'.joins = joins
    BY <1>1, <2>2, <2>3, <2>4 DEF QueryType
  <2>6. Len(query.joins) \in Nat
    BY <1>1 DEF QueryType
  <2> QED BY <1>1, <2>3, <2>4, <2>5, <2>6 DEF WellFormed
<1>4. ASSUME NEW list \in OnLists, On(list) PROVE WellFormed(query')
  <2> DEFINE n == Len(query.joins)
             changed == [query.joins[n] EXCEPT !.conditions = list]
             joins == [query.joins EXCEPT ![n] = changed]
  <2>1. query' = [query EXCEPT !.joins = joins] /\ query.joins # <<>>
    BY <1>4 DEF On
  <2>2. list \in Seq(Preds)
    BY <1>2
  <2>3. query.joins \in Seq(JoinType) /\ n \in DOMAIN query.joins
    BY <1>1, <2>1 DEF QueryType
  <2>4. changed \in JoinType
    <3> DEFINE last == query.joins[n]
    <3>0. last \in JoinType
      BY <2>3
    <3> HIDE DEF last
    <3>1. last \in [kind : JoinKinds, right : TableType, conditions : Seq(Preds)]
      BY <3>0 DEF JoinType, Preds
    <3>2. [last EXCEPT !.conditions = list]
            \in [kind : JoinKinds, right : TableType, conditions : Seq(Preds)]
      BY <2>2, <3>1
    <3> QED BY <3>2 DEF JoinType, Preds, last
  <2> HIDE DEF changed
  <2>5. joins \in Seq(JoinType) /\ Len(joins) = n
    BY <2>3, <2>4
  <2> HIDE DEF n, joins
  <2>6. Len(query'.joins) = Len(query.joins) /\ query'.tables = query.tables
    BY <1>1, <2>1, <2>5 DEF QueryType, n
  <2> QED BY <1>1, <2>1, <2>5, <2>6 DEF WellFormed, QueryType
<1>5. CASE StartQuery
  BY <1>1, <1>5 DEF StartQuery, WellFormed
<1>6. ASSUME NEW predicate \in WherePredicates, Where(predicate) PROVE WellFormed(query')
  <2> DEFINE list == Append(query.predicates, predicate)
  <2>1. list \in Seq(Preds)
    BY <1>1, <1>2 DEF QueryType, Preds
  <2>2. query' = [query EXCEPT !.predicates = list]
    BY <1>6 DEF Where, Refined
  <2> HIDE DEF list
  <2> QED BY <1>1, <2>1, <2>2 DEF WellFormed, QueryType, Preds
<1>7. ASSUME NEW predicate \in HavingPredicates, Having(predicate) PROVE WellFormed(query')
  <2> DEFINE list == Append(query.having, predicate)
  <2>1. list \in Seq(Preds)
    BY <1>1, <1>2 DEF QueryType, Preds
  <2>2. query' = [query EXCEPT !.having = list]
    BY <1>7 DEF Having, Refined
  <2> HIDE DEF list
  <2> QED BY <1>1, <2>1, <2>2 DEF WellFormed, QueryType, Preds
<1>8. ASSUME NEW columns \in Selections, Select(columns) PROVE WellFormed(query')
  BY <1>1, <1>2, <1>8 DEF Select, Refined, WellFormed, QueryType
<1>9. ASSUME NEW columns \in Groupings, GroupBy(columns) PROVE WellFormed(query')
  BY <1>1, <1>2, <1>9 DEF GroupBy, Refined, WellFormed, QueryType
<1>10. ASSUME NEW columns \in Orderings, OrderBy(columns) PROVE WellFormed(query')
  BY <1>1, <1>2, <1>10 DEF OrderBy, Refined, WellFormed, QueryType
<1>11. CASE Distinct
  BY <1>1, <1>11 DEF Distinct, Refined, WellFormed, QueryType
<1>12. ASSUME NEW n \in Counts, Limit(n) PROVE WellFormed(query')
  <2> DEFINE count == <<n>>
  <2>1. count \in Seq(Counts)
    OBVIOUS
  <2>2. query' = [query EXCEPT !.limit = count]
    BY <1>12 DEF Limit, Refined
  <2> HIDE DEF count
  <2> QED BY <1>1, <2>1, <2>2 DEF WellFormed, QueryType
<1>13. ASSUME NEW n \in Counts, Offset(n) PROVE WellFormed(query')
  <2> DEFINE count == <<n>>
  <2>1. count \in Seq(Counts)
    OBVIOUS
  <2>2. query' = [query EXCEPT !.offset = count]
    BY <1>13 DEF Offset, Refined
  <2> HIDE DEF count
  <2> QED BY <1>1, <2>1, <2>2 DEF WellFormed, QueryType
<1> QED BY <1>3, <1>4, <1>5, <1>6, <1>7, <1>8, <1>9, <1>10, <1>11, <1>12, <1>13 DEF Assemble
-----------------------------------------------------------------------------
LEMMA NothingBound == \A q : InPlace(q, <<>>, <<>>)
BY DEF InPlace

\* Locals that hold nothing satisfy every conjunct about them.
LEMMA IdleInv ==
  ASSUME Idle, pc \in {"source", "query", "rejected"}, WellFormed(query)
  PROVE  BindInv
<1>1. TypeOK
  BY DEF Idle, WellFormed, TypeOK
<1>2. AtRest /\ Counted /\ ConditionsOrigin
  BY DEF Idle, AtRest, Counted, ConditionsOrigin
<1>3. ArgumentsInPlace
  BY NothingBound DEF Idle, ArgumentsInPlace
<1> QED BY <1>1, <1>2, <1>3 DEF BindInv

LEMMA InitInv == Init => BindInv
<1> SUFFICES ASSUME Init PROVE BindInv
  OBVIOUS
<1>1. PICK table \in FirstTables : query = NewQuery(table)
  BY DEF Init
<1>2. table \in TableType
  BY InputAssumption
<1>3. WellFormed(query)
  BY <1>1, <1>2 DEF WellFormed, NewQuery, QueryType
<1> QED BY <1>3, IdleInv DEF Init

LEMMA AssembleInv == BindInv /\ Assemble => BindInv'
<1> SUFFICES ASSUME BindInv, Assemble PROVE BindInv'
  OBVIOUS
<1>1. WellFormed(query')
  BY AssembleWellFormed DEF BindInv
<1>2. pc \in {"source", "query"} /\ pc' \in {"source", "query"} /\ UNCHANGED locals
  BY DEF Assemble, Join, On, StartQuery, Where, Having, Select, GroupBy, OrderBy, Distinct,
         Limit, Offset, Refined
<1>3. Idle
  BY <1>2 DEF BindInv, AtRest, Idle
<1>4. Idle'
  BY <1>2, <1>3 DEF Idle, locals
<1>5. TypeOK'
  BY <1>1, <1>2, <1>4 DEF Idle, WellFormed, TypeOK
<1>6. AtRest' /\ Counted' /\ ConditionsOrigin'
  BY <1>2, <1>4 DEF Idle, AtRest, Counted, ConditionsOrigin
<1>7. ArgumentsInPlace'
  BY <1>4, NothingBound DEF Idle, ArgumentsInPlace
<1> QED BY <1>5, <1>6, <1>7 DEF BindInv

\* The outcomes that leave nothing behind: an error return, and a Query that
\* is used again.
LEMMA DroppedInv ==
  BindInv /\ ClearLocals /\ UNCHANGED query /\ pc' \in {"query", "rejected"} => BindInv'
<1> SUFFICES ASSUME BindInv, ClearLocals, UNCHANGED query, pc' \in {"query", "rejected"}
             PROVE  BindInv'
  OBVIOUS
<1>1. Idle'
  BY DEF ClearLocals, Idle
<1>2. TypeOK'
  BY <1>1 DEF Idle, BindInv, TypeOK
<1>3. AtRest' /\ Counted' /\ ConditionsOrigin'
  BY <1>1 DEF Idle, AtRest, Counted, ConditionsOrigin
<1>4. ArgumentsInPlace'
  BY <1>1, NothingBound DEF Idle, ArgumentsInPlace
<1> QED BY <1>2, <1>3, <1>4 DEF BindInv

LEMMA BuildInv == BindInv /\ (Build \/ RefuseQuery) => BindInv'
<1> SUFFICES ASSUME BindInv, Build \/ RefuseQuery PROVE BindInv'
  OBVIOUS
<1>1. CASE Build
  <2>1. query.tables[1] \in TableType
    BY DEF BindInv, TypeOK, QueryType
  <2>2. Qualifier(query.tables[1]) \in STRING
    BY <2>1 DEF TableType, Qualifier
  <2>3. TypeOK'
    BY <1>1, <2>2 DEF Build, buffers, BindInv, TypeOK
  <2>4. AtRest' /\ Counted' /\ ConditionsOrigin'
    BY <1>1 DEF Build, buffers, BindInv, AtRest, Counted, ConditionsOrigin
  <2>5. ArgumentsInPlace'
    BY <1>1 DEF Build, buffers, BindInv, ArgumentsInPlace
  <2> QED BY <2>3, <2>4, <2>5 DEF BindInv
<1>2. CASE RefuseQuery
  <2>1. TypeOK'
    BY <1>2 DEF RefuseQuery, locals, BindInv, TypeOK
  <2>2. AtRest' /\ Counted' /\ ConditionsOrigin'
    BY <1>2 DEF RefuseQuery, locals, BindInv, AtRest, Counted, ConditionsOrigin
  <2>3. ArgumentsInPlace'
    BY <1>2 DEF RefuseQuery, locals, BindInv, ArgumentsInPlace
  <2> QED BY <2>1, <2>2, <2>3 DEF BindInv
<1> QED BY <1>1, <1>2

\* The joined table, and what Build adds to its locals when it has written
\* the join.
LEMMA JoinTypes ==
  ASSUME TypeOK, Len(rendered) < Len(query.joins)
  PROVE  /\ current.conditions \in Seq(PredicateType(Values))
         /\ Qualifier(right) \in STRING
         /\ \A list \in Seq(PredicateType(Values)) : Written(list) \in
              Seq([kind : JoinKinds, right : TableType, on : Seq(PredicateType(Values))])
<1>1. Len(rendered) + 1 \in DOMAIN query.joins /\ query.joins \in Seq(JoinType)
  BY DEF TypeOK, QueryType
<1>2. current \in JoinType
  BY <1>1 DEF current
<1>3. /\ current.kind \in JoinKinds /\ right \in TableType
      /\ current.conditions \in Seq(PredicateType(Values))
  BY <1>2 DEF JoinType, right
<1>4. Qualifier(right) \in STRING
  BY <1>3 DEF TableType, Qualifier
<1>5. ASSUME NEW list \in Seq(PredicateType(Values))
      PROVE  Written(list) \in
               Seq([kind : JoinKinds, right : TableType, on : Seq(PredicateType(Values))])
  <2> DEFINE clause == [kind |-> current.kind, right |-> right, on |-> list]
  <2>1. clause \in [kind : JoinKinds, right : TableType, on : Seq(PredicateType(Values))]
    BY <1>3
  <2> HIDE DEF clause
  <2>2. Append(rendered, clause) \in
          Seq([kind : JoinKinds, right : TableType, on : Seq(PredicateType(Values))])
    BY <2>1 DEF TypeOK
  <2> QED BY <2>2 DEF Written, clause
<1> QED BY <1>3, <1>4, <1>5

\* The steps of Build that write a JOIN but no placeholder.
LEMMA JoinStepInv ==
  BindInv /\ (RejectFullJoin \/ CrossJoin \/ ExplicitOn \/ InferOn \/ FinishOn) => BindInv'
<1> SUFFICES ASSUME BindInv,
                    RejectFullJoin \/ CrossJoin \/ ExplicitOn \/ InferOn \/ FinishOn
             PROVE  BindInv'
  OBVIOUS
<1> USE DEF BindInv
<1>1. CASE Reject
  BY <1>1, DroppedInv DEF Reject
<1>2. CASE CrossJoin /\ ~Reject
  <2>1. Len(rendered) < Len(query.joins) /\ pc = "join"
    BY <1>2 DEF CrossJoin, JoinPending
  <2>2. /\ rendered' = Written(<<>>) /\ visible' = visible \union {Qualifier(right)}
        /\ UNCHANGED <<query, pc, index, conditions, buffers>>
    BY <1>2 DEF CrossJoin
  <2>3. Qualifier(right) \in STRING /\ rendered' \in
          Seq([kind : JoinKinds, right : TableType, on : Seq(PredicateType(Values))])
    <3>1. <<>> \in Seq(PredicateType(Values))
      OBVIOUS
    <3> QED BY <2>1, <2>2, <3>1, JoinTypes
  <2>4. TypeOK'
    BY <2>2, <2>3 DEF buffers, TypeOK
  <2>5. AtRest' /\ Counted' /\ ConditionsOrigin'
    BY <2>1, <2>2 DEF buffers, AtRest, Counted, ConditionsOrigin
  <2>6. ArgumentsInPlace'
    BY <2>2 DEF buffers, ArgumentsInPlace
  <2> QED BY <2>4, <2>5, <2>6
<1>3. ASSUME NEW list \in Seq(PredicateType(Values)), JoinPending, StartOn(list),
             list = current.conditions \/ \A c \in DOMAIN list : list[c].values = <<>>
      PROVE  BindInv'
  <2>1. TypeOK'
    BY <1>3 DEF StartOn, buffers, TypeOK
  <2>2. AtRest' /\ Counted'
    BY <1>3 DEF StartOn, JoinPending, buffers, AtRest, Counted
  <2>3. ConditionsOrigin'
    BY <1>3 DEF StartOn, JoinPending, buffers, ConditionsOrigin, current
  <2>4. ArgumentsInPlace'
    BY <1>3 DEF StartOn, buffers, ArgumentsInPlace
  <2> QED BY <2>1, <2>2, <2>3, <2>4
<1>4. CASE ExplicitOn
  <2>1. current.conditions \in Seq(PredicateType(Values))
    BY <1>4, JoinTypes DEF ExplicitOn, JoinPending
  <2> QED BY <1>3, <1>4, <2>1 DEF ExplicitOn
<1>5. CASE InferOn /\ ~Reject
  <2> DEFINE links == Candidates(query.tables, visible, right)
             link == CHOOSE l \in links : TRUE
  <2>1. JoinPending /\ Cardinality(links) = 1 /\ StartOn(KeyConditions(link))
    BY <1>5 DEF InferOn
  <2>2. link \in links
    BY <2>1, FS_EmptySet
  <2>3. /\ KeyConditions(link) \in Seq(PredicateType(Values))
        /\ \A c \in DOMAIN KeyConditions(link) : KeyConditions(link)[c].values = <<>>
    BY <2>1, <2>2, InferredConditions
  <2> QED BY <1>3, <2>1, <2>3
<1>6. CASE FinishOn
  <2>1. Len(rendered) < Len(query.joins) /\ conditions \in Seq(PredicateType(Values))
    BY <1>6 DEF FinishOn, ConditionsOrigin, TypeOK
  <2>2. Qualifier(right) \in STRING /\ rendered' \in
          Seq([kind : JoinKinds, right : TableType, on : Seq(PredicateType(Values))])
    BY <1>6, <2>1, JoinTypes DEF FinishOn
  <2>3. TypeOK'
    <3>1. visible' \subseteq STRING /\ conditions' = <<>> /\ index' = 1 /\ pc' = "join"
      BY <1>6, <2>2 DEF FinishOn, TypeOK
    <3>2. UNCHANGED <<query, nextArg, args, text>>
      BY <1>6 DEF FinishOn, buffers
    <3> QED BY <2>2, <3>1, <3>2 DEF TypeOK
  <2>4. AtRest' /\ Counted' /\ ConditionsOrigin'
    BY <1>6 DEF FinishOn, buffers, AtRest, Counted, ConditionsOrigin
  <2>5. ArgumentsInPlace'
    BY <1>6 DEF FinishOn, buffers, ArgumentsInPlace
  <2> QED BY <2>3, <2>4, <2>5
<1> QED BY <1>1, <1>2, <1>4, <1>5, <1>6 DEF RejectFullJoin

\* A step of Build that writes the values of one predicate.
LEMMA Rendered ==
  ASSUME BindInv, pc # "built",
         NEW clause \in Clauses, NEW item \in Nat, NEW part \in Nat,
         NEW values \in Seq(Bindable),
         \A p \in 1 .. Len(values) : Meant(query, <<clause, item, part, p>>) = values[p]
  PROVE  /\ text \o Placeholders(clause, item, part, values, nextArg) \in Seq(Placed)
         /\ args \o values \in Seq(Bindable)
         /\ nextArg + Len(values) = Len(args \o values) + 1
         /\ nextArg + Len(values) \in Nat
         /\ InPlace(query, text \o Placeholders(clause, item, part, values, nextArg),
                    args \o values)
<1> DEFINE added == Placeholders(clause, item, part, values, nextArg)
<1> HIDE DEF added
<1>1. nextArg = Len(args) + 1 /\ Len(args) \in Nat /\ Len(values) \in Nat
  BY DEF BindInv, Counted, TypeOK
<1>2. Ready(clause, item, part, values, added)
  BY <1>1 DEF Ready, BindInv, added
<1>3. /\ text \o added \in Seq(Placed)
      /\ args \o values \in Seq(Bindable)
      /\ Len(args \o values) = Len(args) + Len(values)
      /\ InPlace(query, text \o added, args \o values)
  BY <1>2, RenderKeepsPlaces, Zenon
<1> QED BY <1>1, <1>3 DEF added

LEMMA RenderOnInv == BindInv /\ RenderOn => BindInv'
<1> SUFFICES ASSUME BindInv, RenderOn PROVE BindInv'
  OBVIOUS
<1> DEFINE values == conditions[index].values
           item == Len(rendered) + 1
<1>1. CASE Reject
  BY <1>1, DroppedInv DEF Reject
<1>2. CASE ~Reject
  <2>1. /\ pc = "on" /\ index \in DOMAIN conditions
        /\ Render("ON", item, index, values)
        /\ index' = index + 1
        /\ UNCHANGED <<query, pc, visible, rendered, conditions>>
    BY <1>2 DEF RenderOn, BindInv, TypeOK
  <2>2. item \in Nat /\ index \in Nat /\ "ON" \in Clauses
    BY DEF BindInv, TypeOK, Clauses
  <2>3. values \in Seq(Values)
    <3>1. conditions[index] \in PredicateType(Values)
      BY <2>1 DEF BindInv, TypeOK
    <3> QED BY <3>1 DEF PredicateType
  <2>4. values \in Seq(Bindable)
    BY <2>3 DEF Bindable
  <2>5. ASSUME NEW p \in 1 .. Len(values)
        PROVE  Meant(query, <<"ON", item, index, p>>) = values[p]
    <3>1. conditions = query.joins[item].conditions
      BY <2>1, <2>3 DEF BindInv, ConditionsOrigin
    <3>2. Meant(query, <<"ON", item, index, p>>) = query.joins[item].conditions[index].values[p]
      BY DEF Meant, Items
    <3> QED BY <3>1, <3>2
  <2> HIDE DEF values, item
  <2>6. /\ text' = text \o Placeholders("ON", item, index, values, nextArg)
        /\ args' = args \o values
        /\ nextArg' = nextArg + Len(values)
    BY <2>1 DEF Render
  <2>7. /\ text' \in Seq(Placed) /\ args' \in Seq(Bindable)
        /\ nextArg' = Len(args') + 1 /\ nextArg' \in Nat
        /\ InPlace(query, text', args')
    <3>1. pc # "built"
      BY <2>1
    <3> QED BY <2>2, <2>4, <2>5, <2>6, <3>1, Rendered
  <2>8. TypeOK'
    BY <2>1, <2>7 DEF BindInv, TypeOK, Placed, Bindable
  <2>9. AtRest' /\ Counted' /\ ConditionsOrigin'
    BY <2>1, <2>7 DEF BindInv, AtRest, Counted, ConditionsOrigin
  <2>10. ArgumentsInPlace'
    BY <2>1, <2>7 DEF ArgumentsInPlace
  <2> QED BY <2>8, <2>9, <2>10 DEF BindInv
<1> QED BY <1>1, <1>2

\* WHERE and HAVING, which differ in the clause and the list.
LEMMA RenderListInv ==
  ASSUME BindInv, RenderWhere \/ RenderHaving
  PROVE  BindInv'
<1>1. ASSUME NEW clause \in {"WHERE", "HAVING"}, NEW place \in {"where", "having"},
             NEW next \in {"having", "limit"}, NEW list \in Seq(PredicateType(Values)),
             Items(query, clause, 1) = list,
             RenderEach(clause, place, list, next)
      PROVE  BindInv'
  <2>1. CASE index <= Len(list)
    <3> DEFINE values == list[index].values
    <3>1. /\ pc = place /\ pc' = pc
          /\ Render(clause, 1, index, values)
          /\ index' = index + 1
          /\ UNCHANGED <<query, visible, rendered, conditions>>
      BY <1>1, <2>1 DEF RenderEach
    <3>2. index \in DOMAIN list /\ index \in Nat /\ 1 \in Nat /\ clause \in Clauses
      BY <2>1 DEF BindInv, TypeOK, Clauses
    <3>3. values \in Seq(Bindable)
      <4>1. list[index] \in PredicateType(Values)
        BY <3>2
      <4>2. values \in Seq(Values)
        BY <4>1 DEF PredicateType
      <4> QED BY <4>2 DEF Bindable
    <3>4. \A p \in 1 .. Len(values) : Meant(query, <<clause, 1, index, p>>) = values[p]
      BY <1>1 DEF Meant
    <3> HIDE DEF values
    <3>5. /\ text' = text \o Placeholders(clause, 1, index, values, nextArg)
          /\ args' = args \o values
          /\ nextArg' = nextArg + Len(values)
      BY <3>1 DEF Render
    <3>6. pc # "built"
      BY <3>1
    <3>7. /\ text' \in Seq(Placed) /\ args' \in Seq(Bindable)
          /\ nextArg' = Len(args') + 1 /\ nextArg' \in Nat
          /\ InPlace(query, text', args')
      BY <3>2, <3>3, <3>4, <3>5, <3>6, Rendered
    <3>8. TypeOK'
      BY <3>1, <3>7 DEF BindInv, TypeOK, Placed, Bindable
    <3>9. AtRest' /\ Counted' /\ ConditionsOrigin'
      BY <3>1, <3>7 DEF BindInv, AtRest, Counted, ConditionsOrigin
    <3>10. ArgumentsInPlace'
      BY <3>1, <3>7 DEF ArgumentsInPlace
    <3> QED BY <3>8, <3>9, <3>10 DEF BindInv
  <2>2. CASE ~(index <= Len(list))
    <3>1. /\ pc = place /\ pc' = next /\ index' = 1
          /\ UNCHANGED <<query, visible, rendered, conditions, nextArg, args, text>>
      BY <1>1, <2>2 DEF RenderEach, buffers
    <3>2. TypeOK'
      BY <3>1 DEF BindInv, TypeOK
    <3>3. AtRest' /\ Counted' /\ ConditionsOrigin'
      BY <3>1 DEF BindInv, AtRest, Counted, ConditionsOrigin
    <3>4. ArgumentsInPlace'
      BY <3>1 DEF BindInv, ArgumentsInPlace
    <3> QED BY <3>2, <3>3, <3>4 DEF BindInv
  <2> QED BY <2>1, <2>2
<1>2. /\ query.predicates \in Seq(PredicateType(Values))
      /\ query.having \in Seq(PredicateType(Values))
  BY DEF BindInv, TypeOK, QueryType
<1>3. /\ Items(query, "WHERE", 1) = query.predicates
      /\ Items(query, "HAVING", 1) = query.having
  BY DEF Items
<1> QED BY <1>1, <1>2, <1>3 DEF RenderWhere, RenderHaving

\* LIMIT and OFFSET, which differ in what becomes of the counter.
LEMMA RenderCountInv ==
  ASSUME BindInv, RenderLimit \/ RenderOffset
  PROVE  BindInv'
<1>1. ASSUME NEW clause \in {"LIMIT", "OFFSET"}, NEW count \in Seq(Counts),
             Items(query, clause, 1) = <<Predicate(<<>>, count)>>,
             pc \in {"limit", "offset"},
             text' = text \o Placeholders(clause, 1, 1, count, nextArg),
             args' = args \o count,
             \/ nextArg' = nextArg + Len(count) /\ pc' = "offset"
             \/ nextArg' = nextArg /\ pc' = "built",
             UNCHANGED <<query, index, visible, rendered, conditions>>
      PROVE  BindInv'
  <2>1. count \in Seq(Bindable) /\ 1 \in Nat /\ clause \in Clauses /\ pc # "built"
    BY <1>1 DEF Bindable, Clauses
  <2>2. \A p \in 1 .. Len(count) : Meant(query, <<clause, 1, 1, p>>) = count[p]
    BY <1>1 DEF Meant, Predicate
  <2>3. /\ text' \in Seq(Placed) /\ args' \in Seq(Bindable)
        /\ nextArg + Len(count) = Len(args') + 1 /\ nextArg + Len(count) \in Nat
        /\ InPlace(query, text', args')
    BY <1>1, <2>1, <2>2, Rendered
  <2>4. TypeOK'
    BY <1>1, <2>3 DEF BindInv, TypeOK, Placed, Bindable
  <2>5. AtRest' /\ Counted' /\ ConditionsOrigin'
    BY <1>1, <2>3 DEF BindInv, AtRest, Counted, ConditionsOrigin
  <2>6. ArgumentsInPlace'
    BY <1>1, <2>3 DEF ArgumentsInPlace
  <2> QED BY <2>4, <2>5, <2>6 DEF BindInv
<1>2. query.limit \in Seq(Counts) /\ query.offset \in Seq(Counts)
  BY DEF BindInv, TypeOK, QueryType
<1>3. /\ Items(query, "LIMIT", 1) = <<Predicate(<<>>, query.limit)>>
      /\ Items(query, "OFFSET", 1) = <<Predicate(<<>>, query.offset)>>
  BY DEF Items
<1>4. CASE RenderLimit
  <2>1. /\ pc = "limit" /\ pc' = "offset"
        /\ text' = text \o Placeholders("LIMIT", 1, 1, query.limit, nextArg)
        /\ args' = args \o query.limit
        /\ nextArg' = nextArg + Len(query.limit)
        /\ UNCHANGED <<query, index, visible, rendered, conditions>>
    BY <1>4 DEF RenderLimit, Render
  <2>2. /\ "LIMIT" \in {"LIMIT", "OFFSET"} /\ pc \in {"limit", "offset"}
        /\ \/ nextArg' = nextArg + Len(query.limit) /\ pc' = "offset"
           \/ nextArg' = nextArg /\ pc' = "built"
    BY <2>1
  <2> QED BY <1>1, <1>2, <1>3, <2>1, <2>2, Zenon
<1>5. CASE RenderOffset
  BY <1>1, <1>2, <1>3, <1>5 DEF RenderOffset
<1> QED BY <1>4, <1>5

LEMMA StartWhereInv == BindInv /\ StartWhere => BindInv'
<1> SUFFICES ASSUME BindInv, StartWhere PROVE BindInv'
  OBVIOUS
<1>1. TypeOK'
  BY DEF StartWhere, locals, BindInv, TypeOK
<1>2. AtRest' /\ Counted' /\ ConditionsOrigin'
  BY DEF StartWhere, locals, BindInv, AtRest, Counted, ConditionsOrigin
<1>3. ArgumentsInPlace'
  BY DEF StartWhere, locals, BindInv, ArgumentsInPlace
<1> QED BY <1>1, <1>2, <1>3 DEF BindInv

LEMMA StepInv == BindInv /\ [Next]_vars => BindInv'
<1> SUFFICES ASSUME BindInv, [Next]_vars PROVE BindInv'
  OBVIOUS
<1>1. CASE Writing
  <2>1. CASE RenderWhere \/ RenderHaving
    BY <2>1, RenderListInv
  <2>2. CASE RenderLimit \/ RenderOffset
    BY <2>2, RenderCountInv
  <2> QED BY <1>1, <2>1, <2>2, JoinStepInv, RenderOnInv, StartWhereInv DEF Writing
<1>2. CASE Refine
  BY <1>2, DroppedInv DEF Refine
<1>3. CASE UNCHANGED vars
  <2>1. TypeOK'
    BY <1>3 DEF vars, locals, BindInv, TypeOK
  <2>2. AtRest' /\ Counted' /\ ConditionsOrigin'
    BY <1>3 DEF vars, locals, BindInv, AtRest, Counted, ConditionsOrigin
  <2>3. ArgumentsInPlace'
    BY <1>3 DEF vars, locals, BindInv, ArgumentsInPlace
  <2> QED BY <2>1, <2>2, <2>3 DEF BindInv
<1> QED BY <1>1, <1>2, <1>3, AssembleInv, BuildInv DEF Next

THEOREM Invariance == Spec => []BindInv
BY InitInv, StepInv, PTL DEF Spec

\* The query stays well formed, and Build's locals keep their types, through
\* every chain of calls.
THEOREM TypeCorrect == Spec => []TypeOK
<1>1. BindInv => TypeOK
  BY DEF BindInv
<1> QED BY <1>1, Invariance, PTL

\* Whatever the query, its n-th placeholder carries number n and its argument
\* is the value the caller put there, at every point of Build.
THEOREM ArgumentsStayInPlace == Spec => []ArgumentsInPlace
<1>1. BindInv => ArgumentsInPlace
  BY DEF BindInv
<1> QED BY <1>1, Invariance, PTL
-----------------------------------------------------------------------------
(***************************************************************************)
(* What Build knows of the joins it has written: the second invariant.     *)
(***************************************************************************)
Building == pc \in {"join", "on", "where", "having", "limit", "offset", "built"}

\* The qualifiers of the first n tables.
SeenTables(n) == {Qualifier(query.tables[i]) : i \in 1 .. n}

\* Table j + 1 is the one that join j adds.
Paired == \A j \in DOMAIN query.joins : query.tables[j + 1] = query.joins[j].right

\* A JOIN clause as join j asks for it: its ON looks no further than the
\* joined table, and one that was left out comes from the only foreign key.
JoinDone(j, clause) ==
  /\ clause.right = query.tables[j + 1]
  /\ \A i \in DOMAIN clause.on : InScope(clause.on[i].columns, SeenTables(j + 1))
  /\ query.joins[j].conditions = <<>> /\ clause.kind # "CROSS" =>
       \E link \in KeysInto(j) : KeysInto(j) = {link} /\ clause.on = KeyConditions(link)

JoinsDone ==
  /\ QueryOK
  /\ Len(rendered) <= Len(query.joins)
  /\ pc \notin {"join", "on"} => Len(rendered) = Len(query.joins)
  /\ visible = SeenTables(Len(rendered) + 1)
  /\ \A j \in DOMAIN rendered : JoinDone(j, rendered[j])

\* The conditions of the JOIN under way, as far as they are written.
OnUnderWay ==
  LET j == Len(rendered) + 1 IN
  /\ index - 1 <= Len(conditions)
  /\ \A i \in 1 .. index - 1 : InScope(conditions[i].columns, SeenTables(j + 1))
  /\ \/ query.joins[j].conditions # <<>> /\ conditions = query.joins[j].conditions
     \/ /\ query.joins[j].conditions = <<>>
        /\ \E link \in KeysInto(j) : KeysInto(j) = {link} /\ conditions = KeyConditions(link)

ScopeInv == Paired /\ (Building => JoinsDone) /\ (pc = "on" => OnUnderWay)
-----------------------------------------------------------------------------
LEMMA OneMoreTable ==
  ASSUME NEW n \in Nat
  PROVE  SeenTables(n + 1) = SeenTables(n) \union {Qualifier(query.tables[n + 1])}
<1>1. 1 .. n + 1 = (1 .. n) \union {n + 1}
  OBVIOUS
<1> QED BY <1>1 DEF SeenTables

\* The table that is being joined.
LEMMA NextTable ==
  ASSUME TypeOK, Paired, Len(rendered) < Len(query.joins)
  PROVE  /\ Len(rendered) \in Nat /\ Len(rendered) + 1 \in DOMAIN query.joins
         /\ right = query.tables[Len(rendered) + 2]
<1>1. Len(rendered) \in Nat /\ Len(rendered) + 1 \in DOMAIN query.joins
  BY DEF TypeOK, QueryType
<1>2. right = query.tables[(Len(rendered) + 1) + 1]
  BY <1>1 DEF Paired, right, current
<1> QED BY <1>1, <1>2

\* ON may look at the tables written so far and the one being joined.
LEMMA OnAllowedSeen ==
  ASSUME TypeOK, Paired, Len(rendered) < Len(query.joins),
         visible = SeenTables(Len(rendered) + 1)
  PROVE  OnAllowed = SeenTables(Len(rendered) + 2)
<1>1. /\ Len(rendered) + 1 \in Nat /\ (Len(rendered) + 1) + 1 = Len(rendered) + 2
      /\ right = query.tables[Len(rendered) + 2]
  BY NextTable
<1>2. SeenTables((Len(rendered) + 1) + 1) =
        SeenTables(Len(rendered) + 1) \union {Qualifier(query.tables[(Len(rendered) + 1) + 1])}
  BY <1>1, OneMoreTable
<1> QED BY <1>1, <1>2 DEF OnAllowed

\* The foreign keys among which Build looks are those that relate the joined
\* table to a table at its left: no other table has one of the names in sight.
LEMMA CandidatesAreKeys ==
  ASSUME TypeOK, Paired, Len(rendered) < Len(query.joins),
         DistinctReferences(query.tables), visible = SeenTables(Len(rendered) + 1)
  PROVE  Candidates(query.tables, visible, right) = KeysInto(Len(rendered) + 1)
<1> DEFINE n == Len(rendered) + 1
           near == {i \in DOMAIN query.tables : Qualifier(query.tables[i]) \in visible}
<1>1. /\ n \in Nat /\ n + 1 = Len(rendered) + 2 /\ right = query.tables[n + 1]
      /\ n < Len(query.tables) /\ DOMAIN query.tables = 1 .. Len(query.tables)
      /\ Len(query.tables) \in Nat
  <2>1. Len(rendered) \in Nat /\ right = query.tables[Len(rendered) + 2]
    BY NextTable
  <2>2. Len(query.tables) = Len(query.joins) + 1 /\ query.tables \in Seq(TableType)
        /\ Len(query.joins) \in Nat
    BY DEF TypeOK, QueryType
  <2> QED BY <2>1, <2>2
<1> HIDE DEF n
<1>2. visible = SeenTables(n)
  BY DEF n
<1>3. near = 1 .. n
  <2>1. ASSUME NEW i \in 1 .. n PROVE i \in near
    BY <1>1, <1>2 DEF SeenTables
  <2>2. ASSUME NEW i \in near PROVE i \in 1 .. n
    <3>1. PICK k \in 1 .. n : Qualifier(query.tables[i]) = Qualifier(query.tables[k])
      BY <1>2 DEF SeenTables
    <3>2. k \in DOMAIN query.tables
      BY <1>1
    <3> QED BY <3>1, <3>2 DEF DistinctReferences
  <2> QED BY <2>1, <2>2
<1>4. Candidates(query.tables, visible, right)
        = UNION {Links(query.tables[i], right) \union Links(right, query.tables[i]) : i \in near}
  BY DEF Candidates
<1>5. KeysInto(n) = UNION {Links(query.tables[i], right) \union Links(right, query.tables[i]) :
                             i \in 1 .. n}
  BY <1>1 DEF KeysInto
<1> QED BY <1>3, <1>4, <1>5 DEF n

LEMMA FiniteImage ==
  ASSUME NEW S, IsFiniteSet(S), NEW f, DOMAIN f = S, f = [x \in S |-> f[x]]
  PROVE  IsFiniteSet({f[x] : x \in S})
<1> DEFINE T == {f[x] : x \in S}
<1>1. f \in Surjection(S, T)
  BY DEF Surjection
<1> QED BY <1>1, FS_Surjection

LEMMA FiniteLinks ==
  ASSUME NEW child \in TableType, NEW parent
  PROVE  IsFiniteSet(Links(child, parent))
<1> DEFINE S == {g \in DOMAIN child.foreignKeys : Relates(child.foreignKeys[g], parent)}
           f == [g \in S |-> <<child, parent, g>>]
<1>1. DOMAIN child.foreignKeys = 1 .. Len(child.foreignKeys) /\ Len(child.foreignKeys) \in Nat
  BY DEF TableType
<1>2. IsFiniteSet(1 .. Len(child.foreignKeys))
  BY <1>1, FS_Interval
<1>3. IsFiniteSet(S)
  BY <1>1, <1>2, FS_Subset
<1>4. Links(child, parent) = {f[g] : g \in S}
  BY DEF Links
<1>5. DOMAIN f = S /\ f = [x \in S |-> f[x]]
  OBVIOUS
<1> HIDE DEF f, S
<1> QED BY <1>3, <1>4, <1>5, FiniteImage

LEMMA FiniteKeys ==
  ASSUME TypeOK, NEW n \in Nat, n < Len(query.tables)
  PROVE  IsFiniteSet(KeysInto(n))
<1> DEFINE links(i) == Links(query.tables[i], query.tables[n + 1])
                         \union Links(query.tables[n + 1], query.tables[i])
           f == [i \in 1 .. n |-> links(i)]
<1>1. \A i \in 1 .. n + 1 : query.tables[i] \in TableType
  BY SMTT(30) DEF TypeOK, QueryType
<1>2. ASSUME NEW i \in 1 .. n PROVE IsFiniteSet(links(i))
  <2>1. query.tables[i] \in TableType /\ query.tables[n + 1] \in TableType
    BY <1>1
  <2>2. /\ IsFiniteSet(Links(query.tables[i], query.tables[n + 1]))
        /\ IsFiniteSet(Links(query.tables[n + 1], query.tables[i]))
    BY <2>1, FiniteLinks
  <2> QED BY <2>2, FS_Union
<1>3. IsFiniteSet(1 .. n)
  BY FS_Interval
<1>4. DOMAIN f = 1 .. n /\ f = [i \in 1 .. n |-> f[i]]
  OBVIOUS
<1>5. KeysInto(n) = UNION {f[i] : i \in 1 .. n}
  BY DEF KeysInto
<1>6. \A T \in {f[i] : i \in 1 .. n} : IsFiniteSet(T)
  BY <1>2
<1> HIDE DEF f, links
<1>7. IsFiniteSet({f[i] : i \in 1 .. n})
  BY <1>3, <1>4, FiniteImage
<1> QED BY <1>5, <1>6, <1>7, FS_UNION
-----------------------------------------------------------------------------
\* A step that keeps the query keeps what is said of the query alone.
LEMMA ScopeKept ==
  ASSUME query' = query
  PROVE  /\ Paired' <=> Paired
         /\ QueryOK' <=> QueryOK
         /\ \A n : SeenTables(n)' = SeenTables(n)
         /\ \A j : KeysInto(j)' = KeysInto(j)
         /\ \A j, clause : JoinDone(j, clause)' <=> JoinDone(j, clause)
<1>1. \A n : SeenTables(n)' = SeenTables(n)
  BY DEF SeenTables
<1>2. \A j : KeysInto(j)' = KeysInto(j)
  BY DEF KeysInto
<1>3. ASSUME NEW j, NEW clause PROVE JoinDone(j, clause)' <=> JoinDone(j, clause)
  BY <1>1, <1>2 DEF JoinDone
<1>4. GroupingOK' <=> GroupingOK
  BY DEF GroupingOK, UsesAggregate, HavingColumns
<1>5. QueryOK' <=> QueryOK
  BY <1>4 DEF QueryOK, DistinctOK, CountsOK, dialect
<1>6. Paired' <=> Paired
  BY DEF Paired
<1> QED BY <1>1, <1>2, <1>3, <1>5, <1>6

LEMMA JoinsDoneKept ==
  ASSUME query' = query, visible' = visible, rendered' = rendered, JoinsDone,
         pc' \notin {"join", "on"} => Len(rendered) = Len(query.joins)
  PROVE  JoinsDone'
BY ScopeKept DEF JoinsDone

\* Outside a Build only the pairing of joins and tables is claimed.
LEMMA ScopeDropped ==
  ASSUME ScopeInv, query' = query, pc' \in {"query", "rejected"}
  PROVE  ScopeInv'
BY ScopeKept DEF ScopeInv, Building

LEMMA ScopeInit == Init => ScopeInv
<1> SUFFICES ASSUME Init PROVE ScopeInv
  OBVIOUS
<1>1. pc = "source" /\ query.joins = <<>>
  BY DEF Init, NewQuery
<1> QED BY <1>1 DEF ScopeInv, Paired, Building

\* The caller's calls: a join adds its table, and On keeps it.
LEMMA ScopeAssemble ==
  ASSUME BindInv, ScopeInv, Assemble
  PROVE  ScopeInv'
<1>1. pc' \in {"source", "query"}
  BY DEF Assemble, Join, On, StartQuery, Where, Having, Select, GroupBy, OrderBy, Distinct,
         Limit, Offset, Refined
<1>2. /\ query \in QueryType /\ query.joins \in Seq(JoinType) /\ query.tables \in Seq(TableType)
      /\ Len(query.tables) = Len(query.joins) + 1 /\ Len(query.joins) \in Nat /\ Paired
  BY DEF BindInv, TypeOK, QueryType, ScopeInv
<1>3. CASE query'.joins = query.joins /\ query'.tables = query.tables
  BY <1>1, <1>2, <1>3 DEF ScopeInv, Paired, Building
<1>4. ASSUME NEW kind \in JoinKinds, NEW table \in NextTables, Join(kind, table)
      PROVE  ScopeInv'
  <2> DEFINE join == [kind |-> kind, right |-> table, conditions |-> <<>>]
  <2>1. query'.joins = Append(query.joins, join) /\ query'.tables = Append(query.tables, table)
    BY <1>2, <1>4 DEF Join, QueryType
  <2>2. join.right = table
    OBVIOUS
  <2> HIDE DEF join
  <2>3. ASSUME NEW j \in DOMAIN query'.joins PROVE query'.tables[j + 1] = query'.joins[j].right
    <3>1. CASE j \in DOMAIN query.joins
      <4>1. query'.joins[j] = query.joins[j] /\ query'.tables[j + 1] = query.tables[j + 1]
        BY <1>2, <2>1, <3>1
      <4> QED BY <1>2, <3>1, <4>1 DEF Paired
    <3>2. CASE j = Len(query.joins) + 1
      <4>1. j + 1 = Len(query.tables) + 1 /\ j \in Nat
        BY <1>2, <3>2
      <4>2. query'.tables[j + 1] = table
        BY <1>2, <2>1, <4>1
      <4>3. query'.joins[j] = join
        BY <1>2, <2>1, <3>2
      <4> QED BY <2>2, <4>2, <4>3
    <3> QED BY <1>2, <2>1, <3>1, <3>2
  <2> QED BY <1>1, <2>3 DEF ScopeInv, Paired, Building
<1>5. ASSUME NEW list \in OnLists, On(list) PROVE ScopeInv'
  <2> DEFINE n == Len(query.joins)
             changed == [query.joins[n] EXCEPT !.conditions = list]
  <2>1. /\ query'.joins = [query.joins EXCEPT ![n] = changed] /\ query'.tables = query.tables
        /\ n \in DOMAIN query.joins
    BY <1>2, <1>5 DEF On, QueryType
  <2>2. query.joins[n] \in JoinType
    BY <1>2, <2>1
  <2>3. changed.right = query.joins[n].right
    BY <2>2 DEF JoinType
  <2> HIDE DEF changed
  <2>4. \A j \in DOMAIN query.joins : query'.joins[j].right = query.joins[j].right
    BY <2>1, <2>3
  <2>5. DOMAIN query'.joins = DOMAIN query.joins
    BY <2>1
  <2> QED BY <1>1, <1>2, <2>1, <2>4, <2>5 DEF ScopeInv, Paired, Building
<1>6. CASE StartQuery \/ Distinct
  BY <1>2, <1>3, <1>6 DEF StartQuery, Distinct, Refined, QueryType
<1>7. ASSUME NEW predicate, Where(predicate) \/ Having(predicate) PROVE ScopeInv'
  BY <1>2, <1>3, <1>7 DEF Where, Having, Refined, QueryType
<1>8. ASSUME NEW columns, Select(columns) \/ GroupBy(columns) \/ OrderBy(columns)
      PROVE  ScopeInv'
  BY <1>2, <1>3, <1>8 DEF Select, GroupBy, OrderBy, Refined, QueryType
<1>9. ASSUME NEW n, Limit(n) \/ Offset(n) PROVE ScopeInv'
  BY <1>2, <1>3, <1>9 DEF Limit, Offset, Refined, QueryType
<1> QED BY <1>4, <1>5, <1>6, <1>7, <1>8, <1>9 DEF Assemble

LEMMA ScopeBuild ==
  ASSUME BindInv, ScopeInv, Build
  PROVE  ScopeInv'
<1>1. /\ pc' = "join" /\ query' = query /\ rendered' = <<>> /\ QueryOK
      /\ visible' = {Qualifier(query.tables[1])}
  BY DEF Build, BindInv, AtRest
<1>2. SeenTables(1) = {Qualifier(query.tables[1])}
  BY DEF SeenTables
<1>3. Len(rendered') + 1 = 1 /\ Len(rendered') <= Len(query.joins) /\ DOMAIN rendered' = {}
  BY <1>1 DEF BindInv, TypeOK, QueryType
<1>4. (visible = SeenTables(Len(rendered) + 1))'
  BY <1>1, <1>2, <1>3, ScopeKept, Zenon
<1>5. JoinsDone'
  BY <1>1, <1>3, <1>4, ScopeKept DEF JoinsDone
<1> QED BY <1>1, <1>5, ScopeKept DEF ScopeInv

\* One more JOIN clause is written.
Joined(clause) ==
  /\ pc \in {"join", "on"} /\ pc' = "join"
  /\ Len(rendered) < Len(query.joins)
  /\ JoinDone(Len(rendered) + 1, clause)
  /\ rendered' = Append(rendered, clause)
  /\ visible' = visible \union {Qualifier(right)}
  /\ query' = query

LEMMA JoinedInv ==
  ASSUME TypeOK, ScopeInv, NEW clause, Joined(clause)
  PROVE  ScopeInv'
<1> DEFINE n == Len(rendered)
<1>1. /\ JoinsDone /\ Paired /\ pc' = "join" /\ query' = query
      /\ rendered' = Append(rendered, clause) /\ n < Len(query.joins)
      /\ visible = SeenTables(n + 1) /\ QueryOK /\ JoinDone(n + 1, clause)
      /\ visible' = visible \union {Qualifier(right)}
  BY DEF Joined, ScopeInv, Building, JoinsDone
<1>2. /\ n \in Nat /\ n + 1 \in Nat /\ (n + 1) + 1 = n + 2 /\ Len(query.joins) \in Nat
      /\ right = query.tables[n + 2]
  <2>1. n \in Nat /\ right = query.tables[n + 2]
    BY <1>1, NextTable
  <2>2. Len(query.joins) \in Nat
    BY DEF TypeOK, QueryType
  <2> QED BY <2>1, <2>2
<1>3. /\ Len(rendered') = n + 1 /\ DOMAIN rendered' = 1 .. n + 1
      /\ \A j \in 1 .. n : rendered'[j] = rendered[j]
      /\ rendered'[n + 1] = clause /\ DOMAIN rendered = 1 .. n
  BY <1>1 DEF TypeOK
<1>4. SeenTables((n + 1) + 1) = visible \union {Qualifier(query.tables[(n + 1) + 1])}
  BY <1>1, <1>2, OneMoreTable
<1> HIDE DEF n
<1>5. visible' = SeenTables(Len(rendered') + 1)
  BY <1>1, <1>2, <1>3, <1>4
<1>6. ASSUME NEW j \in DOMAIN rendered' PROVE JoinDone(j, rendered'[j])
  <2>1. j \in 1 .. n \/ j = n + 1
    BY <1>2, <1>3
  <2>2. CASE j \in 1 .. n
    BY <1>1, <1>3, <2>2 DEF JoinsDone
  <2>3. CASE j = n + 1
    BY <1>1, <1>3, <2>3
  <2> QED BY <2>1, <2>2, <2>3
<1>7. Len(rendered') <= Len(query.joins)
  BY <1>1, <1>2, <1>3
<1>8. (visible = SeenTables(Len(rendered) + 1))'
  BY <1>1, <1>5, ScopeKept, Zenon
<1>9. JoinsDone'
  BY <1>1, <1>6, <1>7, <1>8, ScopeKept DEF JoinsDone
<1> QED BY <1>1, <1>9, ScopeKept DEF ScopeInv

LEMMA ScopeCross ==
  ASSUME BindInv, ScopeInv, CrossJoin
  PROVE  ScopeInv'
<1>1. CASE Reject
  BY <1>1, ScopeDropped DEF Reject
<1>2. CASE ~Reject
  <2> DEFINE clause == [kind |-> current.kind, right |-> right, on |-> <<>>]
  <2>1. /\ pc = "join" /\ pc' = "join" /\ Len(rendered) < Len(query.joins)
        /\ current.kind = "CROSS" /\ query' = query
        /\ rendered' = Append(rendered, clause)
        /\ visible' = visible \union {Qualifier(right)}
    BY <1>2 DEF CrossJoin, JoinPending, Written
  <2>2. right = query.tables[(Len(rendered) + 1) + 1]
    BY <2>1, NextTable DEF BindInv, ScopeInv
  <2>3. clause.right = right /\ clause.on = <<>> /\ clause.kind = "CROSS"
    BY <2>1
  <2> HIDE DEF clause
  <2>4. JoinDone(Len(rendered) + 1, clause)
    BY <2>2, <2>3 DEF JoinDone
  <2>5. Joined(clause)
    BY <2>1, <2>4 DEF Joined
  <2> QED BY <2>5, JoinedInv DEF BindInv
<1> QED BY <1>1, <1>2

\* The conditions of an explicit ON, or of the only foreign key.
LEMMA ScopeStartOn ==
  ASSUME BindInv, ScopeInv, ExplicitOn \/ InferOn
  PROVE  ScopeInv'
<1> DEFINE n == Len(rendered) + 1
           asked == query.joins[n].conditions
<1>1. CASE Reject
  BY <1>1, ScopeDropped DEF Reject
<1>2. CASE ~Reject
  <2>1. /\ pc = "join" /\ Len(rendered) < Len(query.joins) /\ JoinsDone /\ Paired
        /\ current.conditions = asked
    BY <1>2 DEF ExplicitOn, InferOn, JoinPending, ScopeInv, Building, current
  <2>2. ASSUME NEW list, StartOn(list), Len(list) \in Nat,
               \/ asked # <<>> /\ list = asked
               \/ asked = <<>> /\ \E link \in KeysInto(n) :
                                    KeysInto(n) = {link} /\ list = KeyConditions(link)
        PROVE  ScopeInv'
    <3>1. /\ pc' = "on" /\ index' = 1 /\ conditions' = list
          /\ UNCHANGED <<query, visible, rendered>>
      BY <2>2 DEF StartOn
    <3>2. JoinsDone'
      BY <2>1, <3>1, JoinsDoneKept
    <3>3. index' - 1 = 0 /\ 0 <= Len(conditions') /\ 1 .. index' - 1 = {}
      BY <2>2, <3>1
    <3>4. KeysInto(n)' = KeysInto(n)
      BY <3>1, ScopeKept
    <3>5. \/ query'.joins[Len(rendered') + 1].conditions # <<>>
             /\ conditions' = query'.joins[Len(rendered') + 1].conditions
          \/ /\ query'.joins[Len(rendered') + 1].conditions = <<>>
             /\ \E link \in KeysInto(n)' : KeysInto(n)' = {link} /\ conditions' = KeyConditions(link)
      BY <2>2, <3>1, <3>4
    <3>6. OnUnderWay'
      BY <3>1, <3>3, <3>5 DEF OnUnderWay
    <3> QED BY <2>1, <3>1, <3>2, <3>6, ScopeKept DEF ScopeInv
  <2>3. CASE ExplicitOn
    <3>1. asked \in Seq(PredicateType(Values))
      BY <2>1, JoinTypes DEF BindInv
    <3> QED BY <2>1, <2>2, <2>3, <3>1 DEF ExplicitOn
  <2>4. CASE InferOn
    <3> DEFINE links == Candidates(query.tables, visible, right)
               link == CHOOSE l \in links : TRUE
    <3>1. Cardinality(links) = 1 /\ StartOn(KeyConditions(link)) /\ asked = <<>>
      BY <1>2, <2>1, <2>4 DEF InferOn
    <3>2. links = KeysInto(n)
      BY <2>1, CandidatesAreKeys DEF BindInv, JoinsDone, QueryOK
    <3>3. n \in Nat /\ n < Len(query.tables)
      BY <2>1 DEF BindInv, TypeOK, QueryType
    <3>4. IsFiniteSet(links)
      BY <3>2, <3>3, FiniteKeys DEF BindInv
    <3>5. PICK x : links = {x}
      BY <3>1, <3>4, FS_Singleton
    <3>6. link = x /\ link \in links
      BY <3>5
    <3>7. KeyConditions(link) \in Seq(PredicateType(Values))
      BY <2>1, <3>6, InferredConditions DEF BindInv, JoinPending
    <3> HIDE DEF links, link, n
    <3>8. \E l \in KeysInto(n) : KeysInto(n) = {l} /\ KeyConditions(link) = KeyConditions(l)
      BY <3>2, <3>5, <3>6
    <3> QED BY <2>2, <3>1, <3>7, <3>8
  <2> QED BY <2>3, <2>4
<1> QED BY <1>1, <1>2

LEMMA ScopeRenderOn ==
  ASSUME BindInv, ScopeInv, RenderOn
  PROVE  ScopeInv'
<1> DEFINE j == Len(rendered) + 1
           condition == conditions[index]
<1>1. CASE Reject
  BY <1>1, ScopeDropped DEF Reject
<1>2. CASE ~Reject
  <2>1. /\ pc = "on" /\ pc' = "on" /\ index <= Len(conditions) /\ index' = index + 1
        /\ RowPredicates(<<condition>>, OnAllowed)
        /\ UNCHANGED <<query, visible, rendered, conditions>>
    BY <1>2 DEF RenderOn
  <2>2. /\ JoinsDone /\ OnUnderWay /\ Paired /\ Len(rendered) < Len(query.joins)
        /\ index \in Nat \ {0} /\ Len(conditions) \in Nat /\ Len(rendered) \in Nat
    BY <2>1 DEF ScopeInv, Building, BindInv, TypeOK, ConditionsOrigin
  <2>3. OnAllowed = SeenTables(j + 1)
    <3>1. OnAllowed = SeenTables(Len(rendered) + 2)
      BY <2>2, OnAllowedSeen DEF BindInv, JoinsDone
    <3> QED BY <2>2, <3>1
  <2>4. InScope(condition.columns, SeenTables(j + 1))
    <3>1. 1 \in DOMAIN <<condition>> /\ <<condition>>[1] = condition
      OBVIOUS
    <3> HIDE DEF condition
    <3> QED BY <2>1, <2>3, <3>1 DEF RowPredicates
  <2>5. \A i \in 1 .. index' - 1 : InScope(conditions[i].columns, SeenTables(j + 1))
    <3>1. \A i \in 1 .. index' - 1 : i \in 1 .. index - 1 \/ i = index
      BY <2>1, <2>2
    <3> QED BY <2>2, <2>4, <3>1 DEF OnUnderWay
  <2>6. OnUnderWay'
    <3>1. index' - 1 <= Len(conditions)
      BY <2>1, <2>2
    <3>2. SeenTables(j + 1)' = SeenTables(j + 1) /\ KeysInto(j)' = KeysInto(j)
      BY <2>1, ScopeKept
    <3> QED BY <2>1, <2>2, <2>5, <3>1, <3>2 DEF OnUnderWay
  <2> QED BY <2>1, <2>2, <2>6, JoinsDoneKept, ScopeKept DEF ScopeInv
<1> QED BY <1>1, <1>2

LEMMA ScopeFinishOn ==
  ASSUME BindInv, ScopeInv, FinishOn
  PROVE  ScopeInv'
<1> DEFINE j == Len(rendered) + 1
           clause == [kind |-> current.kind, right |-> right, on |-> conditions]
<1>1. /\ pc = "on" /\ pc' = "join" /\ index > Len(conditions) /\ query' = query
      /\ rendered' = Append(rendered, clause) /\ visible' = visible \union {Qualifier(right)}
  BY DEF FinishOn, Written
<1>2. /\ OnUnderWay /\ Paired /\ Len(rendered) < Len(query.joins)
      /\ index \in Nat \ {0} /\ Len(conditions) \in Nat /\ Len(rendered) \in Nat
      /\ DOMAIN conditions = 1 .. Len(conditions)
  BY <1>1 DEF ScopeInv, BindInv, TypeOK, ConditionsOrigin
<1>3. clause.right = query.tables[j + 1]
  BY <1>2, NextTable DEF BindInv
<1>4. clause.on = conditions
  OBVIOUS
<1> HIDE DEF clause
<1>5. \A i \in DOMAIN clause.on : InScope(clause.on[i].columns, SeenTables(j + 1))
  <2>1. DOMAIN conditions = 1 .. index - 1
    BY <1>1, <1>2 DEF OnUnderWay
  <2> QED BY <1>2, <1>4, <2>1 DEF OnUnderWay
<1>6. JoinDone(j, clause)
  BY <1>2, <1>3, <1>4, <1>5 DEF JoinDone, OnUnderWay
<1>7. Joined(clause)
  BY <1>1, <1>2, <1>6 DEF Joined
<1> QED BY <1>7, JoinedInv DEF BindInv

LEMMA ScopeStep == BindInv /\ ScopeInv /\ [Next]_vars => ScopeInv'
<1> SUFFICES ASSUME BindInv, ScopeInv, [Next]_vars PROVE ScopeInv'
  OBVIOUS
<1>1. CASE Assemble
  BY <1>1, ScopeAssemble
<1>2. CASE RefuseQuery \/ RejectFullJoin \/ Refine
  BY <1>2, ScopeDropped DEF RefuseQuery, RejectFullJoin, Reject, Refine
<1>3. CASE Build
  BY <1>3, ScopeBuild
<1>4. CASE CrossJoin \/ ExplicitOn \/ InferOn \/ RenderOn \/ FinishOn
  BY <1>4, ScopeCross, ScopeStartOn, ScopeRenderOn, ScopeFinishOn
<1>5. CASE StartWhere \/ RenderWhere \/ RenderHaving \/ RenderLimit \/ RenderOffset
  <2>1. /\ UNCHANGED <<query, visible, rendered>>
        /\ pc' \in {"where", "having", "limit", "offset", "built"}
        /\ \/ pc \in {"where", "having", "limit", "offset"}
           \/ pc = "join" /\ Len(rendered) = Len(query.joins)
    BY <1>5 DEF StartWhere, locals, RenderWhere, RenderHaving, RenderEach, RenderLimit, RenderOffset
  <2>2. JoinsDone /\ Paired /\ Len(rendered) = Len(query.joins)
    BY <2>1 DEF ScopeInv, Building, JoinsDone
  <2>3. JoinsDone'
    BY <2>1, <2>2, JoinsDoneKept
  <2> QED BY <2>1, <2>2, <2>3, ScopeKept DEF ScopeInv
<1>6. CASE UNCHANGED vars
  <2>1. UNCHANGED <<query, pc, index, visible, rendered, conditions>>
    BY <1>6 DEF vars, locals
  <2>2. Building => JoinsDone'
    BY <2>1, JoinsDoneKept DEF ScopeInv, JoinsDone
  <2>3. pc = "on" => OnUnderWay'
    BY <2>1, ScopeKept DEF ScopeInv, OnUnderWay
  <2> QED BY <2>1, <2>2, <2>3, ScopeKept DEF ScopeInv, Building
<1> QED BY <1>1, <1>2, <1>3, <1>4, <1>5, <1>6 DEF Next, Writing

THEOREM ScopeInvariance == Spec => []ScopeInv
BY ScopeInit, ScopeStep, Invariance, PTL DEF Spec

\* Tables with different qualifiers: a qualifier in sight denotes one of them.
LEMMA ScopeResolves ==
  ASSUME TypeOK, DistinctReferences(query.tables),
         NEW n \in Nat, n <= Len(query.tables),
         NEW columns, InScope(columns, SeenTables(n))
  PROVE  Resolves(columns, n)
<1> SUFFICES ASSUME NEW c \in DOMAIN columns
             PROVE  Cardinality(Denoted(columns[c].qualifier, n)) = 1
  BY DEF Resolves
<1> DEFINE q == columns[c].qualifier
<1>1. PICK i \in 1 .. n : Qualifier(query.tables[i]) = q
  BY DEF InScope, SeenTables
<1>2. 1 .. n \subseteq DOMAIN query.tables
  BY DEF TypeOK, QueryType
<1>3. ASSUME NEW k \in Denoted(q, n) PROVE k = i
  BY <1>1, <1>2 DEF Denoted, DistinctReferences
<1>4. i \in Denoted(q, n)
  BY <1>1 DEF Denoted
<1>5. Denoted(q, n) = {i}
  BY <1>3, <1>4
<1> QED BY <1>5, FS_Singleton

\* In every built statement each column names exactly one table occurrence: in
\* the ON of a join one at its left or the joined one.
THEOREM ColumnsAlwaysResolve == Spec => []ColumnsResolve
<1>1. TypeOK /\ ScopeInv => ColumnsResolve
  <2> SUFFICES ASSUME TypeOK, ScopeInv, pc = "built"
               PROVE  LET n == Len(query.tables) IN
                      /\ Len(rendered) = n - 1
                      /\ \A j \in DOMAIN rendered :
                           /\ rendered[j].right = query.tables[j + 1]
                           /\ \A i \in DOMAIN rendered[j].on :
                                Resolves(rendered[j].on[i].columns, j + 1)
                      /\ Resolves(query.projections, n)
                      /\ Resolves(query.groupBy, n)
                      /\ Resolves(query.orderBy, n)
                      /\ \A i \in DOMAIN query.predicates :
                           Resolves(query.predicates[i].columns, n)
                      /\ \A i \in DOMAIN query.having : Resolves(query.having[i].columns, n)
    BY DEF ColumnsResolve
  <2> DEFINE n == Len(query.tables)
  <2>1. JoinsDone /\ QueryOK /\ Len(rendered) = Len(query.joins)
    BY DEF ScopeInv, Building, JoinsDone
  <2>2. /\ n \in Nat /\ n = Len(rendered) + 1 /\ Len(rendered) \in Nat
        /\ DOMAIN rendered = 1 .. Len(rendered)
        /\ DOMAIN query.tables = 1 .. n
    BY <2>1 DEF TypeOK, QueryType
  <2>3. DistinctReferences(query.tables)
    BY <2>1 DEF QueryOK
  <2>4. SeenTables(n) = AllowedColumns(query.tables)
    BY <2>2 DEF SeenTables, AllowedColumns
  <2>5. ASSUME NEW columns, InScope(columns, AllowedColumns(query.tables))
        PROVE  Resolves(columns, n)
    BY <2>2, <2>3, <2>4, <2>5, ScopeResolves
  <2>6. ASSUME NEW j \in DOMAIN rendered
        PROVE  /\ rendered[j].right = query.tables[j + 1]
               /\ \A i \in DOMAIN rendered[j].on : Resolves(rendered[j].on[i].columns, j + 1)
    <3>1. JoinDone(j, rendered[j])
      BY <2>1 DEF JoinsDone
    <3>2. j + 1 \in Nat /\ j + 1 <= Len(query.tables)
      BY <2>2
    <3>3. ASSUME NEW i \in DOMAIN rendered[j].on
          PROVE  Resolves(rendered[j].on[i].columns, j + 1)
      <4>1. InScope(rendered[j].on[i].columns, SeenTables(j + 1))
        BY <3>1 DEF JoinDone
      <4> QED BY <2>3, <3>2, <4>1, ScopeResolves
    <3> QED BY <3>1, <3>3 DEF JoinDone
  <2>7. Resolves(query.projections, n) /\ Resolves(query.groupBy, n) /\ Resolves(query.orderBy, n)
    BY <2>1, <2>5 DEF QueryOK
  <2>8. /\ \A i \in DOMAIN query.predicates : Resolves(query.predicates[i].columns, n)
        /\ \A i \in DOMAIN query.having : Resolves(query.having[i].columns, n)
    BY <2>1, <2>5 DEF QueryOK, RowPredicates
  <2>9. Len(rendered) = n - 1
    BY <2>2
  <2> QED BY <2>6, <2>7, <2>8, <2>9
<1> QED BY <1>1, TypeCorrect, ScopeInvariance, PTL

\* However many foreign keys the tables have, an ON that was left out and
\* built comes from the only one that relates the joined table to its left.
THEOREM InferenceIsUnique == Spec => []InferredFromOnlyKey
<1>1. ScopeInv => InferredFromOnlyKey
  BY DEF ScopeInv, Building, JoinsDone, JoinDone, InferredFromOnlyKey
<1> QED BY <1>1, ScopeInvariance, PTL

\* The two columns that a foreign key compares: both tables are in sight of the
\* join that it is inferred for, and neither is an aggregate.
LEMMA InferredInScope ==
  ASSUME NEW n \in Nat, NEW link \in KeysInto(n), NEW c \in DOMAIN KeyConditions(link)
  PROVE  /\ InScope(KeyConditions(link)[c].columns, SeenTables(n + 1))
         /\ NoAggregates(KeyConditions(link)[c].columns)
<1> DEFINE key == link[1].foreignKeys[link[3]]
           one == Column(Qualifier(link[1]), key.columns[c])
           two == Column(Qualifier(link[2]), key.referencedColumns[c])
           compared(k) ==
             Predicate(<<Column(Qualifier(link[1]), key.columns[k]),
                         Column(Qualifier(link[2]), key.referencedColumns[k])>>, <<>>)
           columns == KeyConditions(link)[c].columns
<1>1. PICK i \in 1 .. n :
        link \in Links(query.tables[i], query.tables[n + 1])
                   \union Links(query.tables[n + 1], query.tables[i])
  BY DEF KeysInto
<1>2. link[1] \in {query.tables[i], query.tables[n + 1]}
      /\ link[2] \in {query.tables[i], query.tables[n + 1]}
  BY <1>1 DEF Links
<1>3. i \in 1 .. n + 1 /\ n + 1 \in 1 .. n + 1
  BY <1>1
<1>4. Qualifier(link[1]) \in SeenTables(n + 1) /\ Qualifier(link[2]) \in SeenTables(n + 1)
  BY <1>2, <1>3 DEF SeenTables
<1>5. /\ one.qualifier = Qualifier(link[1]) /\ ~IsAggregate(one)
      /\ two.qualifier = Qualifier(link[2]) /\ ~IsAggregate(two)
  BY DEF Column, IsAggregate
<1>6. columns = <<one, two>>
  <2>1. KeyConditions(link) = [k \in 1 .. Len(key.columns) |-> compared(k)]
    BY DEF KeyConditions
  <2>2. compared(c).columns = <<one, two>>
    BY DEF Predicate
  <2> HIDE DEF key, compared, one, two
  <2> QED BY <2>1, <2>2
<1> HIDE DEF one, two
<1>7. DOMAIN columns = {1, 2} /\ columns[1] = one /\ columns[2] = two
  BY <1>6
<1> HIDE DEF columns
<1>8. \A k \in DOMAIN columns :
        columns[k].qualifier \in SeenTables(n + 1) /\ ~IsAggregate(columns[k])
  BY <1>4, <1>5, <1>7
<1>9. InScope(columns, SeenTables(n + 1)) /\ NoAggregates(columns)
  BY <1>8 DEF InScope, NoAggregates
<1> QED BY <1>9 DEF columns

\* A column whose qualifier is not in sight denotes no table.
LEMMA OutOfSight ==
  ASSUME NEW n, NEW columns, ~InScope(columns, SeenTables(n))
  PROVE  ~Resolves(columns, n)
<1>1. PICK c \in DOMAIN columns : columns[c].qualifier \notin SeenTables(n)
  BY DEF InScope
<1>2. Denoted(columns[c].qualifier, n) = {}
  BY <1>1 DEF Denoted, SeenTables
<1>3. Cardinality(Denoted(columns[c].qualifier, n)) = 0
  BY <1>2, FS_EmptySet
<1>4. Cardinality(Denoted(columns[c].qualifier, n)) # 1
  BY <1>3
<1> QED BY <1>1, <1>4 DEF Resolves

LEMMA UnwritableKept ==
  ASSUME query' = query
  PROVE  \A j : Unwritable(j)' <=> Unwritable(j)
<1>1. \A columns, n : Resolves(columns, n)' <=> Resolves(columns, n)
  BY DEF Resolves, Denoted
<1>2. \A j : KeysInto(j)' = KeysInto(j)
  BY ScopeKept
<1> QED BY <1>1, <1>2 DEF Unwritable, dialect

\* A step of Build that gives up while it writes a join.
LEMMA RejectedForAReason ==
  ASSUME BindInv, ScopeInv, Reject, RejectFullJoin \/ CrossJoin \/ InferOn \/ RenderOn
  PROVE  \E j \in DOMAIN query.joins : Unwritable(j)
<1> DEFINE n == Len(rendered) + 1
           join == query.joins[n]
<1>1. /\ JoinsDone /\ Paired /\ Len(rendered) < Len(query.joins) /\ TypeOK
      /\ pc \in {"join", "on"}
  BY DEF ScopeInv, Building, RejectFullJoin, CrossJoin, InferOn, JoinPending, RenderOn,
         BindInv, ConditionsOrigin
<1>2. n \in DOMAIN query.joins /\ n \in Nat /\ current = join /\ n + 1 = Len(rendered) + 2
  <2>1. Len(rendered) \in Nat /\ n \in DOMAIN query.joins
    BY <1>1, NextTable
  <2> QED BY <2>1 DEF current
<1> SUFFICES Unwritable(n)
  BY <1>2
<1>3. CASE RejectFullJoin
  BY <1>2, <1>3 DEF RejectFullJoin, Unwritable
<1>4. CASE CrossJoin
  <2>1. join.kind = "CROSS" /\ pc' = "rejected" /\ pc = "join"
    BY <1>2, <1>4 DEF CrossJoin, Reject, JoinPending
  <2>2. join.conditions # <<>>
    BY <1>2, <1>4, <2>1 DEF CrossJoin
  <2> QED BY <2>1, <2>2 DEF Unwritable
<1>5. CASE InferOn
  <2>1. join.kind # "CROSS" /\ join.conditions = <<>> /\ pc' = "rejected"
    BY <1>2, <1>5 DEF InferOn, HasOn, Reject
  <2>2. Cardinality(Candidates(query.tables, visible, right)) # 1
    BY <1>5, <2>1 DEF InferOn, StartOn
  <2>3. Candidates(query.tables, visible, right) = KeysInto(n)
    BY <1>1, CandidatesAreKeys DEF JoinsDone, QueryOK
  <2> QED BY <2>1, <2>2, <2>3 DEF Unwritable
<1>6. CASE RenderOn
  <2> DEFINE condition == conditions[index]
             columns == condition.columns
  <2>1. /\ OnUnderWay /\ index \in DOMAIN conditions /\ pc' = "rejected" /\ pc = "on"
    BY <1>6 DEF RenderOn, ScopeInv, Reject, BindInv, TypeOK
  <2>2. ~RowPredicates(<<condition>>, OnAllowed)
    BY <1>6, <2>1 DEF RenderOn
  <2>3. OnAllowed = SeenTables(n + 1)
    <3>1. OnAllowed = SeenTables(Len(rendered) + 2)
      BY <1>1, OnAllowedSeen DEF JoinsDone
    <3> QED BY <1>2, <3>1
  <2>4. ~InScope(columns, SeenTables(n + 1)) \/ ~NoAggregates(columns)
    <3> HIDE DEF condition
    <3>1. \A i \in DOMAIN <<condition>> : <<condition>>[i] = condition
      OBVIOUS
    <3> QED BY <2>2, <2>3, <3>1 DEF RowPredicates
  <2>5. ASSUME NEW link \in KeysInto(n), conditions = KeyConditions(link)
        PROVE  FALSE
    BY <1>2, <2>1, <2>4, <2>5, InferredInScope
  <2>6. conditions = join.conditions
    BY <2>1, <2>5 DEF OnUnderWay
  <2>7. ~Resolves(columns, n + 1) \/ ~NoAggregates(columns)
    BY <2>4, OutOfSight
  <2> QED BY <2>1, <2>6, <2>7 DEF Unwritable
<1> QED BY <1>3, <1>4, <1>5, <1>6

\* However long the chain of joins is, Build gives up among them only for a join
\* that the query itself makes unwritable.
THEOREM RefusedOnlyForAReason == Spec => []RefusedForAReason
<1>1. Init => RefusedForAReason
  BY DEF Init, RefusedForAReason
<1>2. ASSUME Assemble PROVE pc' # "rejected"
  <2>1. \/ \E kind \in JoinKinds, table \in NextTables : Join(kind, table)
        \/ \E list \in OnLists : On(list)
        \/ StartQuery
        \/ \E new : Refined(new)
    BY <1>2 DEF Assemble, Where, Having, Select, GroupBy, OrderBy, Distinct, Limit, Offset
  <2>2. ASSUME NEW kind, NEW table, Join(kind, table) PROVE pc' = "source"
    BY <2>2 DEF Join
  <2>3. ASSUME NEW list, On(list) PROVE pc' = "source"
    BY <2>3 DEF On
  <2>4. ASSUME NEW new, Refined(new) PROVE pc' = "query"
    BY <2>4 DEF Refined
  <2>5. StartQuery => pc' = "query"
    BY DEF StartQuery
  <2> QED BY <2>1, <2>2, <2>3, <2>4, <2>5
<1>3. BindInv /\ ScopeInv /\ RefusedForAReason /\ [Next]_vars => RefusedForAReason'
  <2> SUFFICES ASSUME BindInv, ScopeInv, RefusedForAReason, [Next]_vars,
                      pc' = "rejected", QueryOK'
               PROVE  (\E j \in DOMAIN query.joins : Unwritable(j))'
    BY DEF RefusedForAReason
  <2>0. ~Assemble
    BY <1>2
  <2>1. query' = query
    <3>1. CASE Build \/ RefuseQuery \/ Refine \/ UNCHANGED vars
      BY <3>1 DEF Build, RefuseQuery, Refine, vars
    <3>2. CASE RejectFullJoin \/ CrossJoin \/ ExplicitOn \/ InferOn
      BY <3>2 DEF RejectFullJoin, CrossJoin, ExplicitOn, InferOn, Reject, StartOn
    <3>3. CASE RenderOn \/ FinishOn \/ StartWhere \/ RenderWhere \/ RenderHaving
      BY <3>3 DEF RenderOn, FinishOn, Reject, StartWhere, RenderWhere, RenderHaving, RenderEach
    <3>4. CASE RenderLimit \/ RenderOffset
      BY <3>4 DEF RenderLimit, RenderOffset
    <3> QED BY <2>0, <3>1, <3>2, <3>3, <3>4 DEF Next, Writing
  <2>2. QueryOK
    BY <2>1, ScopeKept
  <2> SUFFICES \E j \in DOMAIN query.joins : Unwritable(j)
    BY <2>1, UnwritableKept
  <2>3. CASE UNCHANGED vars
    BY <2>2, <2>3 DEF vars, RefusedForAReason
  <2>4. CASE Reject /\ (RejectFullJoin \/ CrossJoin \/ InferOn \/ RenderOn)
    BY <2>4, RejectedForAReason
  <2>5. CASE RefuseQuery
    BY <2>2, <2>5 DEF RefuseQuery
  <2>6. CASE CrossJoin \/ InferOn \/ RenderOn
    <3>1. Reject
      BY <2>6 DEF CrossJoin, InferOn, RenderOn, StartOn, JoinPending
    <3> QED BY <2>4, <2>6, <3>1
  <2>7. CASE RejectFullJoin
    BY <2>4, <2>7 DEF RejectFullJoin
  <2>8. ~(Build \/ ExplicitOn \/ FinishOn \/ StartWhere \/ Refine)
    BY DEF Build, ExplicitOn, FinishOn, StartOn, StartWhere, Refine
  <2>9. ~(RenderWhere \/ RenderHaving \/ RenderLimit \/ RenderOffset)
    BY DEF RenderWhere, RenderHaving, RenderEach, RenderLimit, RenderOffset
  <2> QED BY <2>0, <2>3, <2>5, <2>6, <2>7, <2>8, <2>9 DEF Next, Writing
<1> QED BY <1>1, <1>3, Invariance, ScopeInvariance, PTL DEF Spec
-----------------------------------------------------------------------------
(***************************************************************************)
(* Refinement of BoundStatement: what is written is all that Build has     *)
(* passed, so at the end it is all that was asked for.                     *)
(***************************************************************************)

\* The slots of the first n predicates of a list, and of the first n joins.
ListSlots(clause, item, list, n) ==
  UNION {{<<clause, item, part, p>> : p \in DOMAIN list[part].values} : part \in 1 .. n}
OnSlots(q, n) == UNION {SlotsOf(q, "ON", item) : item \in 1 .. n}

\* The slots of all clauses before HAVING, LIMIT and OFFSET.
AfterOn(q) == OnSlots(q, Len(q.joins))
AfterWhere(q) == AfterOn(q) \union SlotsOf(q, "WHERE", 1)
AfterHaving(q) == AfterWhere(q) \union SlotsOf(q, "HAVING", 1)
AfterLimit(q) == AfterHaving(q) \union SlotsOf(q, "LIMIT", 1)

SlotProgress ==
  LET written == SlotsIn(text)
      done    == Len(rendered)
  IN /\ pc = "join" => index = 1 /\ written = OnSlots(query, done)
     /\ pc = "on" => written = OnSlots(query, done)
                                 \union ListSlots("ON", done + 1, conditions, index - 1)
     /\ pc = "where" =>
          /\ index - 1 <= Len(query.predicates)
          /\ written = AfterOn(query) \union ListSlots("WHERE", 1, query.predicates, index - 1)
     /\ pc = "having" =>
          /\ index - 1 <= Len(query.having)
          /\ written = AfterWhere(query) \union ListSlots("HAVING", 1, query.having, index - 1)
     /\ pc = "limit" => written = AfterHaving(query)
     /\ pc = "offset" => written = AfterLimit(query)
     /\ pc = "built" => written = Slots(query)
-----------------------------------------------------------------------------
LEMMA OneMorePart ==
  ASSUME NEW clause, NEW item, NEW list, NEW n \in Nat \ {0}
  PROVE  ListSlots(clause, item, list, n) =
           ListSlots(clause, item, list, n - 1)
             \union {<<clause, item, n, p>> : p \in DOMAIN list[n].values}
<1> DEFINE slots(part) == {<<clause, item, part, p>> : p \in DOMAIN list[part].values}
<1>1. 1 .. n = (1 .. n - 1) \union {n}
  OBVIOUS
<1>2. ListSlots(clause, item, list, n) = UNION {slots(part) : part \in 1 .. n}
  BY DEF ListSlots
<1>3. ListSlots(clause, item, list, n - 1) = UNION {slots(part) : part \in 1 .. n - 1}
  BY DEF ListSlots
<1> HIDE DEF slots
<1>4. UNION {slots(part) : part \in 1 .. n}
        = (UNION {slots(part) : part \in 1 .. n - 1}) \union slots(n)
  BY <1>1, Zenon
<1> QED BY <1>2, <1>3, <1>4 DEF slots

LEMMA OneMoreJoin ==
  ASSUME NEW q, NEW n \in Nat
  PROVE  OnSlots(q, n + 1) = OnSlots(q, n) \union SlotsOf(q, "ON", n + 1)
<1>1. 1 .. n + 1 = (1 .. n) \union {n + 1}
  OBVIOUS
<1> QED BY <1>1, Zenon DEF OnSlots

\* A step that writes the placeholders of one more list of values, and what
\* it adds to the slots of the text.
Writes(clause, item, part, values) ==
  text' = text \o Placeholders(clause, item, part, values, nextArg)
AddsSlots(clause, item, part, values) ==
  SlotsIn(text') = SlotsIn(text) \union {<<clause, item, part, p>> : p \in DOMAIN values}

LEMMA SlotsAdded ==
  ASSUME BindInv, pc # "built", NEW clause \in Clauses, NEW item \in Nat, NEW part \in Nat,
         NEW T, NEW values \in Seq(T), Writes(clause, item, part, values)
  PROVE  AddsSlots(clause, item, part, values)
<1> DEFINE added == Placeholders(clause, item, part, values, nextArg)
<1>1. text \in Seq(Placed) /\ nextArg \in Nat \ {0}
  BY DEF BindInv, TypeOK, Counted, Placed
<1>2. /\ added \in Seq(Placed)
      /\ SlotsIn(added) = {<<clause, item, part, p>> : p \in DOMAIN values}
  <2>1. added = Slotting(clause, item, part, Len(values), nextArg)
        /\ Len(values) \in Nat /\ DOMAIN values = 1 .. Len(values)
    BY DEF Placeholders, Slotting
  <2> HIDE DEF added
  <2>2. /\ added \in Seq(SlotPlaceholder(Clauses))
        /\ SlotsIn(added) = ItemSlots(clause, item, part, Len(values))
    <3>1. PICK n \in Nat : n = Len(values)
      BY <2>1
    <3>2. PICK first \in Nat \ {0} : first = nextArg
      BY <1>1
    <3>3. Slotting(clause, item, part, n, first) \in Seq(SlotPlaceholder(Clauses))
      BY SlottingShape
    <3>4. SlotsIn(Slotting(clause, item, part, n, first)) = ItemSlots(clause, item, part, n)
      BY SlottingShape
    <3> QED BY <2>1, <3>1, <3>2, <3>3, <3>4, Zenon
  <2> QED BY <2>1, <2>2 DEF ItemSlots, Placed, PlaceholderType, SlotType, SlotPlaceholder
<1> HIDE DEF added
<1>3. SlotsIn(text \o added) = SlotsIn(text) \union SlotsIn(added)
  BY <1>1, <1>2, AppendSlots
<1> QED BY <1>2, <1>3 DEF added, Writes, AddsSlots

\* Outside a Build nothing is claimed.
LEMMA ProgressOutside ==
  ASSUME pc' \in {"source", "query", "rejected"}
  PROVE  SlotProgress'
BY DEF SlotProgress

LEMMA ProgressInit == Init => SlotProgress
BY DEF Init, SlotProgress

LEMMA ProgressBuild == BindInv /\ Build => SlotProgress'
<1> SUFFICES ASSUME BindInv, Build PROVE SlotProgress'
  OBVIOUS
<1>1. /\ pc' = "join" /\ index' = 1 /\ rendered' = <<>> /\ text' = <<>> /\ query' = query
  BY DEF Build, buffers, BindInv, AtRest
<1>2. SlotsIn(text') = {}
  BY <1>1 DEF SlotsIn
<1>3. OnSlots(query', 0) = {}
  BY DEF OnSlots
<1> QED BY <1>1, <1>2, <1>3 DEF SlotProgress

LEMMA ProgressCross == BindInv /\ SlotProgress /\ CrossJoin => SlotProgress'
<1> SUFFICES ASSUME BindInv, SlotProgress, CrossJoin PROVE SlotProgress'
  OBVIOUS
<1>1. CASE Reject
  BY <1>1, ProgressOutside DEF Reject
<1>2. CASE ~Reject
  <2> DEFINE n == Len(rendered)
  <2>1. /\ pc = "join" /\ pc' = "join" /\ UNCHANGED <<query, index, text>>
        /\ rendered' = Written(<<>>) /\ query.joins[n + 1].conditions = <<>>
    BY <1>2 DEF CrossJoin, JoinPending, buffers, current
  <2>2. n \in Nat /\ Len(rendered') = n + 1
    BY <2>1 DEF BindInv, TypeOK, Written
  <2>3. Items(query, "ON", n + 1) = <<>>
    BY <2>1 DEF Items
  <2>4. SlotsOf(query, "ON", n + 1) = {}
    BY <2>3 DEF SlotsOf
  <2>5. OnSlots(query, n + 1) = OnSlots(query, n)
    BY <2>2, <2>4, OneMoreJoin
  <2> QED BY <2>1, <2>2, <2>5 DEF SlotProgress
<1> QED BY <1>1, <1>2

LEMMA ProgressStartOn == BindInv /\ SlotProgress /\ (ExplicitOn \/ InferOn) => SlotProgress'
<1> SUFFICES ASSUME BindInv, SlotProgress, ExplicitOn \/ InferOn PROVE SlotProgress'
  OBVIOUS
<1>1. CASE Reject
  BY <1>1, ProgressOutside DEF Reject
<1>2. CASE ~Reject
  <2>1. /\ pc = "join" /\ pc' = "on" /\ index' = 1 /\ UNCHANGED <<query, rendered, text>>
    BY <1>2 DEF ExplicitOn, InferOn, JoinPending, StartOn, buffers
  <2>2. ListSlots("ON", Len(rendered) + 1, conditions', index' - 1) = {}
    BY <2>1 DEF ListSlots
  <2> QED BY <2>1, <2>2 DEF SlotProgress
<1> QED BY <1>1, <1>2

LEMMA ProgressRenderOn == BindInv /\ SlotProgress /\ RenderOn => SlotProgress'
<1> SUFFICES ASSUME BindInv, SlotProgress, RenderOn PROVE SlotProgress'
  OBVIOUS
<1> DEFINE n == Len(rendered)
           values == conditions[index].values
<1>1. CASE Reject
  BY <1>1, ProgressOutside DEF Reject
<1>2. CASE ~Reject
  <2>1. /\ pc = "on" /\ pc' = "on" /\ index <= Len(conditions) /\ index' = index + 1
        /\ text' = text \o Placeholders("ON", n + 1, index, values, nextArg)
        /\ UNCHANGED <<query, rendered, conditions>>
    BY <1>2 DEF RenderOn, Render
  <2>2. /\ n + 1 \in Nat /\ index \in Nat \ {0} /\ "ON" \in Clauses /\ index \in DOMAIN conditions
        /\ conditions \in Seq(PredicateType(Values))
    BY <2>1 DEF BindInv, TypeOK, Clauses
  <2>3. values \in Seq(Values)
    <3>1. conditions[index] \in PredicateType(Values)
      BY <2>2
    <3> QED BY <3>1 DEF PredicateType
  <2>4. SlotsIn(text') = SlotsIn(text) \union {<<"ON", n + 1, index, p>> : p \in DOMAIN values}
    <3> HIDE DEF n, values
    <3>1. Writes("ON", n + 1, index, values)
      BY <2>1 DEF Writes
    <3>2. AddsSlots("ON", n + 1, index, values)
      BY <2>1, <2>2, <2>3, <3>1, SlotsAdded
    <3> QED BY <3>2 DEF AddsSlots
  <2>5. ListSlots("ON", n + 1, conditions, index) =
          ListSlots("ON", n + 1, conditions, index - 1)
            \union {<<"ON", n + 1, index, p>> : p \in DOMAIN values}
    BY <2>2, OneMorePart
  <2>6. SlotsIn(text') = OnSlots(query, n) \union ListSlots("ON", n + 1, conditions, index)
    BY <2>1, <2>4, <2>5 DEF SlotProgress
  <2>7. index' - 1 = index
    BY <2>1, <2>2
  <2>8. SlotsIn(text') = OnSlots(query, n) \union ListSlots("ON", n + 1, conditions, index' - 1)
    BY <2>6, <2>7, Zenon
  <2> QED BY <2>1, <2>8 DEF SlotProgress
<1> QED BY <1>1, <1>2

LEMMA ProgressFinishOn == BindInv /\ ScopeInv /\ SlotProgress /\ FinishOn => SlotProgress'
<1> SUFFICES ASSUME BindInv, ScopeInv, SlotProgress, FinishOn PROVE SlotProgress'
  OBVIOUS
<1> DEFINE n == Len(rendered)
           asked == query.joins[n + 1].conditions
<1>1. /\ pc = "on" /\ pc' = "join" /\ index > Len(conditions) /\ index' = 1
      /\ UNCHANGED <<query, text>> /\ rendered' = Written(conditions)
  BY DEF FinishOn, buffers
<1>2. /\ OnUnderWay /\ n \in Nat /\ Len(rendered') = n + 1
      /\ DOMAIN conditions = 1 .. Len(conditions) /\ Len(conditions) \in Nat /\ index \in Nat
      /\ conditions = asked \/ \A c \in DOMAIN conditions : conditions[c].values = <<>>
  BY <1>1 DEF ScopeInv, BindInv, TypeOK, Written, ConditionsOrigin
<1>3. 1 .. index - 1 = DOMAIN conditions
  BY <1>1, <1>2 DEF OnUnderWay
<1>4. SlotsOf(query, "ON", n + 1)
        = UNION {{<<"ON", n + 1, part, p>> : p \in DOMAIN asked[part].values} : part \in DOMAIN asked}
  BY DEF SlotsOf, Items
<1>5. ListSlots("ON", n + 1, conditions, index - 1)
        = UNION {{<<"ON", n + 1, part, p>> : p \in DOMAIN conditions[part].values} :
                   part \in DOMAIN conditions}
  BY <1>3, Zenon DEF ListSlots
<1>6. ListSlots("ON", n + 1, conditions, index - 1) = SlotsOf(query, "ON", n + 1)
  <2>1. CASE conditions = asked
    BY <1>4, <1>5, <2>1
  <2>2. CASE conditions # asked
    <3>1. asked = <<>> /\ \A c \in DOMAIN conditions : conditions[c].values = <<>>
      BY <1>2, <2>2 DEF OnUnderWay
    <3>2. SlotsOf(query, "ON", n + 1) = {}
      BY <1>4, <3>1
    <3>3. \A c \in DOMAIN conditions : DOMAIN conditions[c].values = {}
      BY <3>1
    <3>4. ListSlots("ON", n + 1, conditions, index - 1) = {}
      BY <1>5, <3>3
    <3> QED BY <3>2, <3>4
  <2> QED BY <2>1, <2>2
<1>7. SlotsIn(text) = OnSlots(query, n) \union ListSlots("ON", n + 1, conditions, index - 1)
  BY <1>1 DEF SlotProgress
<1>8. OnSlots(query, n + 1) = SlotsIn(text)
  BY <1>2, <1>6, <1>7, OneMoreJoin
<1> QED BY <1>1, <1>2, <1>8 DEF SlotProgress

LEMMA ProgressStartWhere == BindInv /\ SlotProgress /\ StartWhere => SlotProgress'
<1> SUFFICES ASSUME BindInv, SlotProgress, StartWhere PROVE SlotProgress'
  OBVIOUS
<1>1. /\ pc = "join" /\ pc' = "where" /\ Len(rendered) = Len(query.joins)
      /\ UNCHANGED <<query, index, text>>
  BY DEF StartWhere, locals
<1>2. index = 1 /\ SlotsIn(text) = AfterOn(query)
  BY <1>1 DEF SlotProgress, AfterOn
<1>3. ListSlots("WHERE", 1, query.predicates, index - 1) = {} /\ index - 1 = 0
  BY <1>2 DEF ListSlots
<1>4. 0 <= Len(query.predicates)
  BY DEF BindInv, TypeOK, QueryType
<1> QED BY <1>1, <1>2, <1>3, <1>4 DEF SlotProgress

\* WHERE and HAVING alike: what RenderEach writes of a list after the slots
\* that are there.
LEMMA ProgressEach ==
  ASSUME BindInv, NEW before, NEW clause \in {"WHERE", "HAVING"}, NEW place, NEW next,
         place # "built", NEW list \in Seq(PredicateType(Values)),
         RenderEach(clause, place, list, next),
         index - 1 <= Len(list),
         SlotsIn(text) = before \union ListSlots(clause, 1, list, index - 1)
  PROVE  \/ /\ pc' = place /\ index' - 1 <= Len(list)
            /\ SlotsIn(text') = before \union ListSlots(clause, 1, list, index' - 1)
         \/ /\ pc' = next /\ index' = 1
            /\ SlotsIn(text') = before \union ListSlots(clause, 1, list, Len(list))
<1>1. index \in Nat \ {0} /\ Len(list) \in Nat /\ pc = place
  BY DEF BindInv, TypeOK, RenderEach
<1>2. CASE index <= Len(list)
  <2> DEFINE values == list[index].values
  <2>1. /\ pc' = place /\ index' = index + 1
        /\ text' = text \o Placeholders(clause, 1, index, values, nextArg)
    BY <1>1, <1>2 DEF RenderEach, Render
  <2>2. values \in Seq(Values) /\ clause \in Clauses
    <3>1. list[index] \in PredicateType(Values)
      BY <1>1, <1>2
    <3> QED BY <3>1 DEF PredicateType, Clauses
  <2>3. SlotsIn(text') = SlotsIn(text) \union {<<clause, 1, index, p>> : p \in DOMAIN values}
    <3> HIDE DEF values
    <3>1. pc # "built" /\ 1 \in Nat /\ index \in Nat
      BY <1>1
    <3>2. Writes(clause, 1, index, values)
      BY <2>1 DEF Writes
    <3>3. AddsSlots(clause, 1, index, values)
      BY <2>2, <3>1, <3>2, SlotsAdded
    <3> QED BY <3>3 DEF AddsSlots
  <2>4. ListSlots(clause, 1, list, index) =
          ListSlots(clause, 1, list, index - 1)
            \union {<<clause, 1, index, p>> : p \in DOMAIN values}
    <3>1. \A n \in Nat \ {0} :
            ListSlots(clause, 1, list, n) =
              ListSlots(clause, 1, list, n - 1)
                \union {<<clause, 1, n, p>> : p \in DOMAIN list[n].values}
      BY OneMorePart
    <3> QED BY <1>1, <3>1
  <2>5. SlotsIn(text') = before \union ListSlots(clause, 1, list, index)
    BY <2>3, <2>4
  <2>6. index' - 1 = index
    BY <1>1, <2>1
  <2>7. SlotsIn(text') = before \union ListSlots(clause, 1, list, index' - 1)
    BY <2>5, <2>6, Zenon
  <2> QED BY <1>2, <2>1, <2>6, <2>7
<1>3. CASE ~(index <= Len(list))
  <2>1. pc' = next /\ index' = 1 /\ text' = text
    BY <1>3 DEF RenderEach, buffers
  <2>2. index - 1 = Len(list)
    BY <1>1, <1>3
  <2> QED BY <2>1, <2>2, Zenon
<1> QED BY <1>2, <1>3

\* A whole clause, as the query has it.
LEMMA WholeClauses ==
  ASSUME NEW q \in QueryType
  PROVE  /\ SlotsOf(q, "WHERE", 1) = ListSlots("WHERE", 1, q.predicates, Len(q.predicates))
         /\ SlotsOf(q, "HAVING", 1) = ListSlots("HAVING", 1, q.having, Len(q.having))
         /\ SlotsOf(q, "LIMIT", 1) = {<<"LIMIT", 1, 1, p>> : p \in DOMAIN q.limit}
         /\ SlotsOf(q, "OFFSET", 1) = {<<"OFFSET", 1, 1, p>> : p \in DOMAIN q.offset}
<1>1. DOMAIN q.predicates = 1 .. Len(q.predicates) /\ DOMAIN q.having = 1 .. Len(q.having)
  BY DEF QueryType
<1>2. SlotsOf(q, "WHERE", 1) = ListSlots("WHERE", 1, q.predicates, Len(q.predicates))
  BY <1>1 DEF SlotsOf, Items, ListSlots
<1>3. SlotsOf(q, "HAVING", 1) = ListSlots("HAVING", 1, q.having, Len(q.having))
  BY <1>1 DEF SlotsOf, Items, ListSlots
<1>4. ASSUME NEW clause, NEW values, Items(q, clause, 1) = <<Predicate(<<>>, values)>>
      PROVE  SlotsOf(q, clause, 1) = {<<clause, 1, 1, p>> : p \in DOMAIN values}
  <2>1. DOMAIN Items(q, clause, 1) = {1} /\ Items(q, clause, 1)[1].values = values
    BY <1>4 DEF Predicate
  <2> QED BY <2>1 DEF SlotsOf
<1>5. /\ Items(q, "LIMIT", 1) = <<Predicate(<<>>, q.limit)>>
      /\ Items(q, "OFFSET", 1) = <<Predicate(<<>>, q.offset)>>
  BY DEF Items
<1> QED BY <1>2, <1>3, <1>4, <1>5

LEMMA ProgressLists ==
  ASSUME BindInv, SlotProgress, RenderWhere \/ RenderHaving
  PROVE  SlotProgress'
<1>1. /\ query \in QueryType /\ query' = query
      /\ query.predicates \in Seq(PredicateType(Values))
      /\ query.having \in Seq(PredicateType(Values))
      /\ Len(query.having) \in Nat
  BY DEF BindInv, TypeOK, QueryType, RenderWhere, RenderHaving, RenderEach
<1>2. CASE RenderWhere
  <2>1. /\ pc = "where" /\ RenderEach("WHERE", "where", query.predicates, "having")
        /\ index - 1 <= Len(query.predicates)
        /\ SlotsIn(text) = AfterOn(query) \union ListSlots("WHERE", 1, query.predicates, index - 1)
    BY <1>2 DEF RenderWhere, RenderEach, SlotProgress
  <2>2. \/ /\ pc' = "where" /\ index' - 1 <= Len(query.predicates)
           /\ SlotsIn(text') =
                AfterOn(query) \union ListSlots("WHERE", 1, query.predicates, index' - 1)
        \/ /\ pc' = "having" /\ index' = 1
           /\ SlotsIn(text') = AfterOn(query)
                \union ListSlots("WHERE", 1, query.predicates, Len(query.predicates))
    BY <1>1, <2>1, ProgressEach
  <2>3. ListSlots("HAVING", 1, query.having, 0) = {}
    BY DEF ListSlots
  <2>4. AfterWhere(query) = AfterOn(query)
          \union ListSlots("WHERE", 1, query.predicates, Len(query.predicates))
    BY <1>1, WholeClauses DEF AfterWhere
  <2> QED BY <1>1, <2>2, <2>3, <2>4 DEF SlotProgress
<1>3. CASE RenderHaving
  <2>1. /\ pc = "having" /\ RenderEach("HAVING", "having", query.having, "limit")
        /\ index - 1 <= Len(query.having)
        /\ SlotsIn(text) = AfterWhere(query) \union ListSlots("HAVING", 1, query.having, index - 1)
    BY <1>3 DEF RenderHaving, RenderEach, SlotProgress
  <2>2. \/ /\ pc' = "having" /\ index' - 1 <= Len(query.having)
           /\ SlotsIn(text') =
                AfterWhere(query) \union ListSlots("HAVING", 1, query.having, index' - 1)
        \/ /\ pc' = "limit" /\ index' = 1
           /\ SlotsIn(text') = AfterWhere(query)
                \union ListSlots("HAVING", 1, query.having, Len(query.having))
    BY <1>1, <2>1, ProgressEach
  <2>3. AfterHaving(query) = AfterWhere(query)
          \union ListSlots("HAVING", 1, query.having, Len(query.having))
    BY <1>1, WholeClauses DEF AfterHaving
  <2> QED BY <1>1, <2>2, <2>3 DEF SlotProgress
<1> QED BY <1>2, <1>3

LEMMA ProgressCounts ==
  ASSUME BindInv, SlotProgress, RenderLimit \/ RenderOffset
  PROVE  SlotProgress'
<1>1. /\ query \in QueryType /\ query' = query
      /\ query.limit \in Seq(Counts) /\ query.offset \in Seq(Counts)
      /\ 1 \in Nat /\ "LIMIT" \in Clauses /\ "OFFSET" \in Clauses
  BY DEF BindInv, TypeOK, QueryType, RenderLimit, RenderOffset, Clauses
<1>2. CASE RenderLimit
  <2>1. /\ pc = "limit" /\ pc' = "offset" /\ pc # "built"
        /\ text' = text \o Placeholders("LIMIT", 1, 1, query.limit, nextArg)
        /\ SlotsIn(text) = AfterHaving(query)
    BY <1>2 DEF RenderLimit, Render, SlotProgress
  <2>2. SlotsIn(text') = SlotsIn(text) \union {<<"LIMIT", 1, 1, p>> : p \in DOMAIN query.limit}
    BY <1>1, <2>1, SlotsAdded DEF Writes, AddsSlots
  <2>3. SlotsIn(text') = AfterLimit(query)
    BY <1>1, <2>1, <2>2, WholeClauses DEF AfterLimit
  <2> QED BY <1>1, <2>1, <2>3 DEF SlotProgress
<1>3. CASE RenderOffset
  <2>1. /\ pc = "offset" /\ pc' = "built" /\ pc # "built"
        /\ text' = text \o Placeholders("OFFSET", 1, 1, query.offset, nextArg)
        /\ SlotsIn(text) = AfterLimit(query)
    BY <1>3 DEF RenderOffset, SlotProgress
  <2>2. SlotsIn(text') = SlotsIn(text) \union {<<"OFFSET", 1, 1, p>> : p \in DOMAIN query.offset}
    BY <1>1, <2>1, SlotsAdded DEF Writes, AddsSlots
  <2>3. SlotsIn(text') = AfterLimit(query) \union SlotsOf(query, "OFFSET", 1)
    BY <1>1, <2>1, <2>2, WholeClauses
  <2>4. DOMAIN query.joins = 1 .. Len(query.joins)
    BY <1>1 DEF QueryType
  <2>5. AfterOn(query) = UNION {SlotsOf(query, "ON", item) : item \in DOMAIN query.joins}
    BY <2>4 DEF AfterOn, OnSlots
  <2>6. Slots(query) = AfterLimit(query) \union SlotsOf(query, "OFFSET", 1)
    BY <2>5, Zenon DEF Slots, AfterLimit, AfterHaving, AfterWhere
  <2> QED BY <1>1, <2>1, <2>3, <2>6 DEF SlotProgress
<1> QED BY <1>2, <1>3

LEMMA ProgressStep == BindInv /\ ScopeInv /\ SlotProgress /\ [Next]_vars => SlotProgress'
<1> SUFFICES ASSUME BindInv, ScopeInv, SlotProgress, [Next]_vars PROVE SlotProgress'
  OBVIOUS
<1>1. CASE Assemble \/ RefuseQuery \/ RejectFullJoin \/ Refine
  <2>1. pc' \in {"source", "query", "rejected"}
    BY <1>1 DEF Assemble, Join, On, StartQuery, Where, Having, Select, GroupBy, OrderBy,
                Distinct, Limit, Offset, Refined, RefuseQuery, RejectFullJoin, Reject, Refine
  <2> QED BY <2>1, ProgressOutside
<1>2. CASE Build \/ StartWhere
  BY <1>2, ProgressBuild, ProgressStartWhere
<1>3. CASE CrossJoin \/ ExplicitOn \/ InferOn \/ RenderOn \/ FinishOn
  BY <1>3, ProgressCross, ProgressStartOn, ProgressRenderOn, ProgressFinishOn
<1>4. CASE RenderWhere \/ RenderHaving
  BY <1>4, ProgressLists
<1>5. CASE RenderLimit \/ RenderOffset
  BY <1>5, ProgressCounts
<1>6. CASE UNCHANGED vars
  BY <1>6 DEF vars, locals, SlotProgress
<1> QED BY <1>1, <1>2, <1>3, <1>4, <1>5, <1>6 DEF Next, Writing

\* A text in its place binds what is wanted, in every dialect.
LEMMA BindsWanted ==
  ASSUME NEW q, NEW d, NEW t, NEW a, SlotsIn(t) = Slots(q), InPlace(q, t, a)
  PROVE  BoundSlots(d, t, a) = Wanted(q)
<1>1. \A i \in DOMAIN t : BoundAt(d, t, a, i) = Meant(q, t[i].slot)
  BY DEF BoundAt, InPlace
<1>2. BoundSlots(d, t, a) = {<<t[i].slot, Meant(q, t[i].slot)>> : i \in DOMAIN t}
  BY <1>1 DEF BoundSlots
<1>3. Wanted(q) = {<<slot, Meant(q, slot)>> : slot \in SlotsIn(t)}
  BY DEF Wanted
<1> QED BY <1>2, <1>3 DEF SlotsIn

\* The steps of BoundStatement, in terms of pc.
LEMMA PendingSteps ==
  ASSUME pc \notin {"built", "rejected"}, query' = query
  PROVE  /\ pc' \notin {"built", "rejected"} => UNCHANGED Promise!vars
         /\ pc' = "rejected" /\ text' = <<>> => Promise!Next
         /\ pc' = "built" /\ BoundSlots(dialect', text', args') = Wanted(query) => Promise!Next
<1>1. text' = <<>> => BoundSlots(dialect', text', args') = {}
  BY DEF BoundSlots
<1> QED
  BY <1>1
     DEF Promise!vars, Promise!Next, Promise!Refuse, Promise!Refused, Promise!Pending,
         Promise!Bind, Promise!Bound, dialect

LEMMA ChangeStep ==
  ASSUME pc' \notin {"built", "rejected"}, query' \in QueryType
  PROVE  Promise!Next
BY DEF Promise!Next, Promise!Change, Promise!Pending

LEMMA InitRefines == Init => Promise!Init
BY InitInv DEF Init, BindInv, TypeOK, Promise!Init, Promise!Pending

LEMMA StepRefines ==
  BindInv /\ BindInv' /\ SlotProgress' /\ [Next]_vars => [Promise!Next]_(Promise!vars)
<1> SUFFICES ASSUME BindInv, BindInv', SlotProgress', [Next]_vars
             PROVE  [Promise!Next]_(Promise!vars)
  OBVIOUS
<1>a. pc' = "rejected" => text' = <<>>
  BY DEF BindInv, AtRest
<1>1. CASE Assemble \/ Refine
  <2>1. pc' \notin {"built", "rejected"}
    BY <1>1 DEF Assemble, Join, On, StartQuery, Where, Having, Select, GroupBy, OrderBy,
                Distinct, Limit, Offset, Refined, Refine
  <2>2. query' \in QueryType
    BY DEF BindInv, TypeOK
  <2> QED BY <2>1, <2>2, ChangeStep
<1>2. CASE Build \/ RefuseQuery
  BY <1>2, <1>a, PendingSteps DEF Build, RefuseQuery
<1>3. CASE RejectFullJoin \/ CrossJoin \/ ExplicitOn \/ InferOn
  BY <1>3, <1>a, PendingSteps
     DEF RejectFullJoin, CrossJoin, ExplicitOn, InferOn, JoinPending, Reject, StartOn
<1>4. CASE RenderOn \/ FinishOn \/ StartWhere
  BY <1>4, <1>a, PendingSteps DEF RenderOn, FinishOn, StartWhere, Reject
<1>5. CASE RenderWhere \/ RenderHaving \/ RenderLimit
  BY <1>5, <1>a, PendingSteps DEF RenderWhere, RenderHaving, RenderEach, RenderLimit
<1>6. CASE RenderOffset
  <2>1. pc = "offset" /\ pc' = "built" /\ query' = query
    BY <1>6 DEF RenderOffset
  <2>2. SlotsIn(text') = Slots(query)
    BY <2>1 DEF SlotProgress
  <2>3. InPlace(query, text', args')
    BY <2>1 DEF BindInv, ArgumentsInPlace
  <2>4. BoundSlots(dialect', text', args') = Wanted(query)
    BY <2>2, <2>3, BindsWanted
  <2> QED BY <2>1, <2>4, PendingSteps
<1>7. CASE UNCHANGED vars
  BY <1>7 DEF vars, locals, Promise!vars, dialect
<1> QED BY <1>1, <1>2, <1>3, <1>4, <1>5, <1>6, <1>7 DEF Next, Writing

\* Build keeps the promise of BoundStatement for every query and every chain of
\* calls: it refuses the query as a whole, or the statement binds every value
\* the caller supplied, each once and at its own place, and nothing else.
THEOREM Refinement == Spec => KeepsPromise
BY ProgressInit, ProgressStep, InitRefines, StepRefines, Invariance, ScopeInvariance, PTL
   DEF Spec, KeepsPromise, Promise!Spec
=============================================================================
