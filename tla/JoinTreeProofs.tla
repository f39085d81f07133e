--------------------------- MODULE JoinTreeProofs ---------------------------
(***************************************************************************)
(* Theorems about the typed JOIN tree, for every number of joins and for   *)
(* every database.                                                         *)
(*                                                                         *)
(* None of the properties is inductive alone: RIGHT and FULL JOIN replace  *)
(* the view by its nullable twin, so the twin must be known to be nullable *)
(* everywhere, and a LEFT JOIN types its right table nullable because some *)
(* row pattern exists at all.  Inv adds both facts.                        *)
(***************************************************************************)
EXTENDS JoinTree, TLAPS

TwinIsNullable == \A t \in Tables : source.nullable[t] = "nullable"

Inv ==
  /\ TypeOK
  /\ TwinIsNullable
  /\ patterns # {}
  /\ RequiredIsPresent
  /\ NullableIsNeeded

USE DEF View, Kinds, Tables

-----------------------------------------------------------------------------
\* The tree starts as one table, required, with a nullable twin.
LEMMA InitInv == Init => Inv
  BY MaxJoinsAssumption
  DEF Init, Inv, TypeOK, TwinIsNullable, RequiredIsPresent, NullableIsNeeded,
      TableJoinSource

\* Whatever the kind, a join appends one entry to each view, keeps the
\* twin's entries and takes the left entries of the columns from the view or
\* from the twin.
LEMMA JoinViews ==
  ASSUME NEW kind \in Kinds, TypeOK, TwinIsNullable, Join(kind)
  PROVE  LET n == Len(source.columns) + 1 IN
         /\ source' \in [columns : Seq(View), nullable : Seq(View)]
         /\ Len(source'.columns) = n /\ Len(source'.nullable) = n
         /\ \A t \in 1 .. n : source'.nullable[t] = "nullable"
         /\ \A t \in 1 .. n - 1 : source'.columns[t] =
              IF KeepsRight(kind) THEN "nullable" ELSE source.columns[t]
         /\ source'.columns[n] = IF KeepsLeft(kind) THEN "nullable" ELSE "required"
<1> DEFINE n == Len(source.columns) + 1
           l == IF KeepsRight(kind) THEN source.nullable ELSE source.columns
           r == IF KeepsLeft(kind) THEN "nullable" ELSE "required"
<1>1. /\ source \in [columns : Seq(View), nullable : Seq(View)]
      /\ Len(source.nullable) = Len(source.columns)
      /\ Len(source.columns) \in Nat
  BY DEF TypeOK
<1>2. JoinOf(kind, source) = Joined(source, l, r)
  BY DEF JoinOf, LeftJoin, InnerJoin, RightJoin, FullJoin, CrossJoin,
         KeepsLeft, KeepsRight
<1>3. source' = [columns |-> Append(l, r), nullable |-> Append(source.nullable, "nullable")]
  BY <1>2 DEF Join, TiqqJoinSource, Joined
<1>4. l \in Seq(View) /\ r \in View /\ Len(l) = n - 1
  BY <1>1
<1>5. \A t \in 1 .. n - 1 : source.nullable[t] = "nullable"
  BY <1>1 DEF TwinIsNullable
<1>6. \A t \in 1 .. n - 1 : l[t] = IF KeepsRight(kind) THEN "nullable" ELSE source.columns[t]
  BY <1>5
<1> HIDE DEF l, r
<1>7. /\ source' \in [columns : Seq(View), nullable : Seq(View)]
      /\ Len(source'.columns) = n /\ Len(source'.nullable) = n
  BY <1>1, <1>3, <1>4
<1>8. \A t \in 1 .. n : source'.nullable[t] = "nullable"
  BY <1>1, <1>3, <1>5
<1>9. \A t \in 1 .. n - 1 : source'.columns[t] = l[t]
  BY <1>1, <1>3, <1>4
<1>10. source'.columns[n] = r
  BY <1>1, <1>3, <1>4
<1> QED BY <1>6, <1>7, <1>8, <1>9, <1>10 DEF r

\* A join keeps the invariant.
LEMMA JoinInv ==
  ASSUME NEW kind \in Kinds, Inv, Join(kind)
  PROVE  Inv'
<1> DEFINE n == Len(source.columns) + 1
<1>1. /\ TypeOK /\ TwinIsNullable /\ patterns # {}
      /\ RequiredIsPresent /\ NullableIsNeeded
      /\ n \in Nat /\ n \in 1 .. MaxJoins + 1
  BY MaxJoinsAssumption DEF Inv, TypeOK, Join
<1>2. /\ source' \in [columns : Seq(View), nullable : Seq(View)]
      /\ Len(source'.columns) = n /\ Len(source'.nullable) = n
      /\ \A t \in 1 .. n : source'.nullable[t] = "nullable"
      /\ \A t \in 1 .. n - 1 : source'.columns[t] =
           IF KeepsRight(kind) THEN "nullable" ELSE source.columns[t]
      /\ source'.columns[n] = IF KeepsLeft(kind) THEN "nullable" ELSE "required"
  BY <1>1, JoinViews
<1>3. Tables = 1 .. n - 1 /\ Tables' = 1 .. n
  BY <1>1, <1>2 DEF TypeOK
<1>4. patterns' = Evaluate(kind, n, patterns, patterns, TRUE)
  BY DEF Join
<1>5. PICK matched \in SUBSET rows, unmatched \in SUBSET rows, alone \in BOOLEAN :
        rows' = Evaluate(kind, n, matched, unmatched, alone)
  BY DEF Join
<1>6. patterns \subseteq SUBSET (1 .. n - 1) /\ rows \subseteq SUBSET (1 .. n - 1)
  BY <1>1, <1>3 DEF TypeOK
<1>7. TypeOK'
  <2>1. 1 .. n - 1 \subseteq 1 .. n /\ n \in 1 .. n
    BY <1>1
  <2>2. patterns' \subseteq SUBSET (1 .. n)
    <3>1. \A p \in patterns : p \in SUBSET (1 .. n) /\ p \union {n} \in SUBSET (1 .. n)
      BY <1>6, <2>1
    <3>2. {n} \in SUBSET (1 .. n)
      BY <2>1
    <3> SUFFICES ASSUME NEW s \in patterns' PROVE s \in SUBSET (1 .. n)
      OBVIOUS
    <3>3. (\E p \in patterns : s = p \union {n}) \/ s \in patterns \/ s = {n}
      BY <1>4 DEF Evaluate
    <3> QED BY <3>1, <3>2, <3>3
  <2>3. rows' \subseteq SUBSET (1 .. n)
    BY <1>5, <1>6, <2>1 DEF Evaluate
  <2> QED BY <1>1, <1>2, <1>3, <2>2, <2>3 DEF TypeOK
<1>8. TwinIsNullable'
  BY <1>2, <1>3 DEF TwinIsNullable
<1>9. patterns' # {}
  <2>1. PICK p \in patterns : TRUE
    BY <1>1
  <2>2. p \union {n} \in patterns'
    BY <1>4, <2>1 DEF Evaluate
  <2> QED BY <2>2
<1>10. RequiredIsPresent'
  <2> SUFFICES ASSUME NEW t \in 1 .. n, source'.columns[t] = "required", NEW r \in rows'
               PROVE  t \in r
    BY <1>3 DEF RequiredIsPresent
  <2>1. CASE t = n
    <3>1. ~KeepsLeft(kind)
      BY <1>2, <2>1
    <3> QED BY <1>5, <2>1, <3>1 DEF Evaluate
  <2>2. CASE t # n
    <3>1. t \in 1 .. n - 1
      BY <1>1, <2>2
    <3>2. ~KeepsRight(kind) /\ source.columns[t] = "required"
      BY <1>2, <3>1
    <3>3. \A p \in rows : t \in p
      BY <1>1, <1>3, <3>1, <3>2 DEF RequiredIsPresent
    <3> QED BY <1>5, <3>2, <3>3 DEF Evaluate
  <2> QED BY <2>1, <2>2
<1>11. NullableIsNeeded'
  <2> SUFFICES ASSUME NEW t \in 1 .. n, source'.columns[t] = "nullable"
               PROVE  \E r \in patterns' : t \notin r
    BY <1>3 DEF NullableIsNeeded
  <2>1. n \notin 1 .. n - 1
    BY <1>1
  <2>2. CASE t = n
    <3>1. KeepsLeft(kind)
      BY <1>2, <2>2
    <3>2. PICK p \in patterns : TRUE
      BY <1>1
    <3>3. p \in patterns' /\ n \notin p
      BY <1>4, <1>6, <2>1, <3>1, <3>2 DEF Evaluate
    <3> QED BY <2>2, <3>3
  <2>3. CASE t # n /\ KeepsRight(kind)
    <3>1. {n} \in patterns'
      BY <1>4, <2>3 DEF Evaluate
    <3> QED BY <2>3, <3>1
  <2>4. CASE t # n /\ ~KeepsRight(kind)
    <3>1. t \in 1 .. n - 1
      BY <1>1, <2>4
    <3>2. source.columns[t] = "nullable"
      BY <1>2, <2>4, <3>1
    <3>3. PICK p \in patterns : t \notin p
      BY <1>1, <1>3, <3>1, <3>2 DEF NullableIsNeeded
    <3>4. p \union {n} \in patterns' /\ t \notin p \union {n}
      BY <1>4, <2>4, <3>3 DEF Evaluate
    <3> QED BY <3>4
  <2> QED BY <2>2, <2>3, <2>4
<1> QED BY <1>7, <1>8, <1>9, <1>10, <1>11 DEF Inv

\* Nothing but a join changes the tree.
LEMMA StepInv == Inv /\ [Next]_vars => Inv'
<1> SUFFICES ASSUME Inv, [Next]_vars PROVE Inv'
  OBVIOUS
<1>1. CASE Next
  BY <1>1, JoinInv DEF Next
<1>2. CASE UNCHANGED vars
  BY <1>2 DEF vars, Inv, TypeOK, TwinIsNullable, RequiredIsPresent, NullableIsNeeded
<1> QED BY <1>1, <1>2

\* The strengthened invariant of the tree.
THEOREM Invariance == Spec => []Inv
  BY InitInv, StepInv, PTL DEF Spec

-----------------------------------------------------------------------------
\* Both views of a tree of any size describe the same tables.
THEOREM TypeCorrect == Spec => []TypeOK
<1>1. Inv => TypeOK
  BY DEF Inv
<1> QED BY Invariance, <1>1, PTL

\* Nullability is sound: a column typed required comes from a real row, for
\* every chain of joins and every database.
THEOREM RequiredSound == Spec => []RequiredIsPresent
<1>1. Inv => RequiredIsPresent
  BY DEF Inv
<1> QED BY Invariance, <1>1, PTL

\* Nullability is exact: a column typed nullable can be null-extended.
THEOREM NullableExact == Spec => []NullableIsNeeded
<1>1. Inv => NullableIsNeeded
  BY DEF Inv
<1> QED BY Invariance, <1>1, PTL

\* A join never restores the required view of a table that lost it.
THEOREM NullabilityMonotone == Spec => NullabilityIsKept
<1> DEFINE Kept == \A t \in Tables :
             source.columns[t] = "nullable" => source'.columns[t] = "nullable"
<1>1. Inv /\ [Next]_vars => [Kept]_vars
  <2> SUFFICES ASSUME Inv, NEW kind \in Kinds, Join(kind) PROVE Kept
    BY DEF Next
  <2>1. TypeOK /\ TwinIsNullable /\ Len(source.columns) \in Nat
    BY DEF Inv, TypeOK
  <2>2. \A t \in 1 .. Len(source.columns) :
          source'.columns[t] = IF KeepsRight(kind) THEN "nullable" ELSE source.columns[t]
    BY <2>1, JoinViews
  <2>3. Tables = 1 .. Len(source.columns)
    BY <2>1 DEF TypeOK
  <2> QED BY <2>2, <2>3
<1> QED BY Invariance, <1>1, PTL DEF Spec, NullabilityIsKept
=============================================================================
