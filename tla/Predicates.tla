----------------------------- MODULE Predicates -----------------------------
(***************************************************************************)
(* Predicate trees (expression.go, column.go): how conditions are put      *)
(* together, what renderPredicate writes for them, and how a database      *)
(* reads it.                                                               *)
(*                                                                         *)
(* A written condition is a sequence of tokens: parentheses, AND, OR, NOT, *)
(* and comparisons, each with the numbers of its placeholders.             *)
(***************************************************************************)
EXTENDS Statements, SequencesExt

CONSTANTS
  Trees,    \* the predicates of an instance, with all their children
  Height    \* how deep each of them is

\* A leaf compares one or two columns with any number of values; an inner node
\* has kind "AND", "OR" or "NOT".
Node(kind, children) ==
  [kind |-> kind, op |-> "", columns |-> <<>>, values |-> <<>>, children |-> children]
LeafNode(op, columns, values) ==
  [kind |-> "leaf", op |-> op, columns |-> columns, values |-> values, children |-> <<>>]

Compare(column, op, value) == LeafNode(op, <<column>>, <<value>>)
CompareColumns(left, op, right) == LeafNode(op, <<left, right>>, <<>>)
In(column, op, values) == LeafNode(op, <<column>>, values)
IsNull(column, op) == LeafNode(op, <<column>>, <<>>)
And(predicates) == Node("AND", predicates)
Or(predicates) == Node("OR", predicates)
Not(predicate) == Node("NOT", <<predicate>>)

\* A predicate is built from finished ones, an inner node from at least one,
\* NOT from one.
TreesOK ==
  /\ Height \in [Trees -> Nat]
  /\ \A t \in Trees :
       /\ t.kind \in {"leaf", "AND", "OR", "NOT"}
       /\ t.children \in Seq(Trees)
       /\ \A i \in DOMAIN t.children : Height[t.children[i]] < Height[t]
       /\ t.kind = "leaf" <=> t.children = <<>>
       /\ t.kind = "NOT" => Len(t.children) = 1

\* predicateColumns
PredicateColumns[t \in Trees] ==
  IF t.kind = "leaf" THEN t.columns
  ELSE FlattenSeq([i \in DOMAIN t.children |-> PredicateColumns[t.children[i]]])

Sign(symbol) == [token |-> symbol, op |-> "", columns |-> <<>>, numbers |-> <<>>]
Comparison(t, nextArg) ==
  [token |-> "compare", op |-> t.op, columns |-> t.columns,
   numbers |-> [i \in DOMAIN t.values |-> nextArg + i - 1]]

\* Fault: a disjunction is written without parentheses.
GroupedUnlessOr(op, parts) ==
  LET joined == FlattenSeq([i \in DOMAIN parts |->
                              IF i = 1 THEN parts[i] ELSE <<Sign(op)>> \o parts[i]])
  IN IF op = "OR" THEN joined ELSE <<Sign("(")>> \o joined \o <<Sign(")")>>

Grouped(op, parts) ==
  <<Sign("(")>>
    \o FlattenSeq([i \in DOMAIN parts |-> IF i = 1 THEN parts[i] ELSE <<Sign(op)>> \o parts[i]])
    \o <<Sign(")")>>

Negated(text) == <<Sign("NOT"), Sign("(")>> \o text \o <<Sign(")")>>

\* The children of a node are rendered in turn with the same counter: what
\* there is once all of them are, if children[k][n] is what the k-th one renders
\* to when n is the next argument.
RenderInTurn(children, nextArg) ==
  LET done[k \in 0 .. Len(children)] ==
        IF k = 0 THEN [parts |-> <<>>, args |-> <<>>, next |-> nextArg]
        ELSE LET before == done[k - 1]
                 one    == children[k][before.next]
             IN [parts |-> Append(before.parts, one.text),
                 args  |-> before.args \o one.args, next |-> one.next]
  IN done[Len(children)]

\* renderPredicate, for each nextArg: the text, its arguments, and nextArg when
\* it returns.
RenderPredicate[t \in Trees] ==
  [nextArg \in Nat |->
     IF t.kind = "leaf"
     THEN [text |-> <<Comparison(t, nextArg)>>, args |-> t.values,
           next |-> nextArg + Len(t.values)]
     ELSE LET children ==
                RenderInTurn([i \in DOMAIN t.children |-> RenderPredicate[t.children[i]]], nextArg)
          IN [text |-> IF t.kind = "NOT" THEN Negated(children.parts[1])
                       ELSE Grouped(t.kind, children.parts),
              args |-> children.args, next |-> children.next]]

\* The placeholders of a text, in order of appearance.
Numbers(text) == FlattenSeq([i \in DOMAIN text |-> text[i].numbers])
-----------------------------------------------------------------------------
(***************************************************************************)
(* What a condition means.  Truth is 0, 1 (unknown) or 2; a row gives each *)
(* comparison, that is its operator, columns and values, a truth value.    *)
(***************************************************************************)

Truths == 0 .. 2
Unknown == 1
Unreadable == -1
Least(S) == CHOOSE x \in S : \A y \in S : x <= y
Greatest(S) == CHOOSE x \in S : \A y \in S : x >= y

Atom(op, columns, values) == <<op, columns, values>>

\* Of a comparison the row says nothing about, nothing is known.
Truth(row, atom) == IF atom \in DOMAIN row THEN row[atom] ELSE Unknown

\* The caller's tree.
Meaning(t, row) ==
  LET meaning[p \in Trees] ==
        LET below == {meaning[p.children[i]] : i \in DOMAIN p.children}
        IN CASE p.kind = "leaf" -> Truth(row, Atom(p.op, p.columns, p.values))
             [] p.kind = "AND"  -> Least(below)
             [] p.kind = "OR"   -> Greatest(below)
             [] p.kind = "NOT"  -> 2 - meaning[p.children[1]]
  IN meaning[t]

\* The values of a tree, in reading order, and its comparisons.
ValuesOf[t \in Trees] ==
  IF t.kind = "leaf" THEN t.values
  ELSE FlattenSeq([i \in DOMAIN t.children |-> ValuesOf[t.children[i]]])
AtomsOf[t \in Trees] ==
  IF t.kind = "leaf" THEN {Atom(t.op, t.columns, t.values)}
  ELSE UNION {AtomsOf[t.children[i]] : i \in DOMAIN t.children}

\* The database's reading of a text, in which bound[k] is what placeholder k is
\* bound to: NOT binds tighter than AND, AND than OR.
AtomAt(text, bound, i) ==
  LET before == Len(Numbers(SubSeq(text, 1, i - 1)))
  IN Atom(text[i].op, text[i].columns,
          [k \in DOMAIN text[i].numbers |-> bound[before + k]])

\* Opened(text)[k] parentheses are open after the first k tokens.
Opened(text) ==
  LET open[k \in 0 .. Len(text)] ==
        IF k = 0 THEN 0
        ELSE open[k - 1] + (CASE text[k].token = "(" -> 1
                              [] text[k].token = ")" -> -1
                              [] OTHER -> 0)
  IN open

\* Tokens i to j, when read has the reading of every shorter span.
ReadSpan(text, open, bound, row, read, i, j) ==
  LET Splits(symbol) == {k \in i .. j : text[k].token = symbol /\ open[k] = open[i - 1]}
      Sides(k) == {read[<<i, k - 1>>], read[<<k + 1, j>>]}
      ors  == Splits("OR")
      ands == Splits("AND")
      bare == ors = {} /\ ands = {}
  IN CASE ors # {} -> Greatest(Sides(Greatest(ors)))
       [] ors = {} /\ ands # {} -> Least(Sides(Greatest(ands)))
       [] bare /\ i < j /\ text[i].token = "NOT" -> 2 - read[<<i + 1, j>>]
       [] bare /\ i < j /\ text[i].token = "(" /\ text[j].token = ")" -> read[<<i + 1, j - 1>>]
       [] bare /\ i = j /\ text[i].token = "compare" -> Truth(row, AtomAt(text, bound, i))
       [] OTHER -> Unreadable

Readings(text, bound, row) ==
  LET open == Opened(text)
      read[span \in (1 .. Len(text) + 1) \X (0 .. Len(text))] ==
        ReadSpan(text, open, bound, row, read, span[1], span[2])
  IN read

Reading(text, bound, row) == Readings(text, bound, row)[<<1, Len(text)>>]
=============================================================================
