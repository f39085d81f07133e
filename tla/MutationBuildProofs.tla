------------------------- MODULE MutationBuildProofs -------------------------
(***************************************************************************)
(* Theorems about the UPDATE and DELETE builders and the predicate trees   *)
(* they render, for every set of trees of any depth.                       *)
(***************************************************************************)
EXTENDS MutationBuild, SequenceLemmas

(***************************************************************************)
(* Texts.                                                                  *)
(***************************************************************************)
\* Tokens that carry lists of numbers.
Numbered(Tokens) == \A token \in Tokens : token.numbers \in Seq(Nat)

LEMMA NumbersConcat ==
  ASSUME NEW Tokens, Numbered(Tokens), NEW a \in Seq(Tokens), NEW b \in Seq(Tokens)
  PROVE  /\ Numbers(a) \in Seq(Nat)
         /\ Numbers(a \o b) = Numbers(a) \o Numbers(b)
<1> DEFINE Lists(written) == [i \in DOMAIN written |-> written[i].numbers]
<1>1. ASSUME NEW written \in Seq(Tokens)
      PROVE  /\ Lists(written) \in Seq(Seq(Nat)) /\ Len(Lists(written)) = Len(written) /\ Len(written) \in Nat
             /\ \A i \in 1 .. Len(written) : Lists(written)[i] = written[i].numbers
  <2>1. DOMAIN written = 1 .. Len(written) /\ Len(written) \in Nat
    OBVIOUS
  <2>2. \A i \in 1 .. Len(written) : written[i].numbers \in Seq(Nat)
    BY DEF Numbered
  <2> DEFINE S == Seq(Nat)
             f == Lists(written)
  <2> HIDE DEF S
  <2>3. f \in [1 .. Len(written) -> S]
    BY <2>1, <2>2 DEF S
  <2>4. \A i \in 1 .. Len(written) : f[i] = written[i].numbers
    BY <2>1
  <2> HIDE DEF f
  <2>5. f \in Seq(S) /\ Len(f) = Len(written)
    BY <2>1, <2>3, Listed
  <2> QED BY <2>1, <2>4, <2>5 DEF f, S
<1>2. /\ a \o b \in Seq(Tokens) /\ Len(a \o b) = Len(a) + Len(b)
      /\ \A i \in 1 .. Len(a) + Len(b) :
           (a \o b)[i] = IF i <= Len(a) THEN a[i] ELSE b[i - Len(a)]
  BY Concatenation
<1>3. Lists(a \o b) = Lists(a) \o Lists(b)
  <2> DEFINE whole == Lists(a \o b)
             left  == Lists(a)
             right == Lists(b)
             S     == Seq(Nat)
  <2>1. /\ whole \in Seq(S) /\ Len(whole) = Len(a) + Len(b)
        /\ \A i \in 1 .. Len(a) + Len(b) : whole[i] = (a \o b)[i].numbers
    BY <1>1, <1>2
  <2>2. /\ left \in Seq(S) /\ Len(left) = Len(a) /\ Len(a) \in Nat
        /\ \A i \in 1 .. Len(a) : left[i] = a[i].numbers
    BY <1>1
  <2>3. /\ right \in Seq(S) /\ Len(right) = Len(b) /\ Len(b) \in Nat
        /\ \A i \in 1 .. Len(b) : right[i] = b[i].numbers
    BY <1>1
  <2> HIDE DEF whole, left, right, S
  <2>4. /\ left \o right \in Seq(S) /\ Len(left \o right) = Len(a) + Len(b)
        /\ \A i \in 1 .. Len(a) + Len(b) :
             (left \o right)[i] = IF i <= Len(a) THEN left[i] ELSE right[i - Len(a)]
    <3>1. /\ left \o right \in Seq(S) /\ Len(left \o right) = Len(left) + Len(right)
          /\ \A i \in 1 .. Len(left) + Len(right) :
               (left \o right)[i] = IF i <= Len(left) THEN left[i] ELSE right[i - Len(left)]
      <4>1. left \in Seq(S) /\ right \in Seq(S)
        BY <2>2, <2>3
      <4> QED BY ONLY <4>1, Concatenation
    <3> QED BY <2>2, <2>3, <3>1
  <2>5. ASSUME NEW i \in 1 .. Len(a) + Len(b) PROVE whole[i] = (left \o right)[i]
    <3>1. CASE i <= Len(a)
      <4>1. i \in 1 .. Len(a)
        BY <2>2, <3>1
      <4> QED BY <1>2, <2>1, <2>2, <2>4, <3>1, <4>1
    <3>2. CASE ~(i <= Len(a))
      <4>1. i - Len(a) \in 1 .. Len(b)
        BY <2>2, <2>3, <3>2
      <4> QED BY <1>2, <2>1, <2>3, <2>4, <3>2, <4>1
    <3> QED BY <3>1, <3>2
  <2>6. whole = left \o right
    BY <2>1, <2>4, <2>5, SeqEqual
  <2> QED BY <2>6 DEF whole, left, right
<1>4. Lists(a) \in Seq(Seq(Nat)) /\ Lists(b) \in Seq(Seq(Nat))
  BY <1>1
<1>5. /\ Numbers(a) = FlattenSeq(Lists(a)) /\ Numbers(b) = FlattenSeq(Lists(b))
      /\ Numbers(a \o b) = FlattenSeq(Lists(a \o b))
  BY DEF Numbers
<1> HIDE DEF Lists
<1>6. FlattenSeq(Lists(a)) \in Seq(Nat)
  <2>1. <<>> \in Seq(Nat)
    OBVIOUS
  <2> QED BY <1>4, <2>1, FlattenAppend
<1>7. FlattenSeq(Lists(a) \o Lists(b)) = FlattenSeq(Lists(a)) \o FlattenSeq(Lists(b))
  BY <1>4, FlattenConcat
<1> QED BY <1>3, <1>5, <1>6, <1>7

\* The numbers of a single token.
LEMMA NumbersOne ==
  ASSUME NEW token, token.numbers \in Seq(Nat)
  PROVE  Numbers(<<token>>) = token.numbers
<1>1. [i \in DOMAIN <<token>> |-> <<token>>[i].numbers] = <<token.numbers>>
  OBVIOUS
<1>2. <<token.numbers>> = Append(<<>>, token.numbers) /\ <<>> \in Seq(Seq(Nat))
  OBVIOUS
<1>3. FlattenSeq(<<>>) = <<>>
  BY DEF FlattenSeq
<1>4. FlattenSeq(Append(<<>>, token.numbers)) = FlattenSeq(<<>>) \o token.numbers
  BY <1>2, FlattenAppend
<1>5. <<>> \o token.numbers = token.numbers
  OBVIOUS
<1> QED BY <1>1, <1>2, <1>3, <1>4, <1>5 DEF Numbers
-----------------------------------------------------------------------------
(***************************************************************************)
(* ValuesOf and RenderPredicate are defined for every tree, since every    *)
(* child is lower than its parent.                                         *)
(***************************************************************************)
LEMMA TreeFacts ==
  /\ Height \in [Trees -> Nat]
  /\ \A t \in Trees :
       /\ t.kind \in {"leaf", "AND", "OR", "NOT"}
       /\ t.children \in Seq(Trees) /\ t.values \in Seq(Values) /\ t.columns \in Seq(ColumnType)
       /\ Len(t.children) \in Nat /\ DOMAIN t.children = 1 .. Len(t.children)
       /\ \A i \in 1 .. Len(t.children) :
            t.children[i] \in Trees /\ Height[t.children[i]] < Height[t]
       /\ t.kind = "NOT" => Len(t.children) = 1
BY MutationAssumption DEF TreesOK

\* What a node's children have in f, in order.
Below(f, t) == [i \in DOMAIN t.children |-> f[t.children[i]]]

LEMMA BelowType ==
  ASSUME NEW V, NEW f \in [Trees -> V], NEW t \in Trees
  PROVE  /\ Below(f, t) \in Seq(V) /\ Len(Below(f, t)) = Len(t.children)
         /\ \A i \in 1 .. Len(t.children) : Below(f, t)[i] = f[t.children[i]]
<1> DEFINE b == Below(f, t)
<1>1. Len(t.children) \in Nat /\ DOMAIN t.children = 1 .. Len(t.children)
      /\ \A i \in 1 .. Len(t.children) : t.children[i] \in Trees
  BY TreeFacts
<1>2. b = [i \in 1 .. Len(t.children) |-> f[t.children[i]]]
  BY <1>1 DEF Below
<1> HIDE DEF b
<1>3. b \in [1 .. Len(t.children) -> V]
  BY <1>1, <1>2
<1>4. b \in Seq(V) /\ Len(b) = Len(t.children)
  BY <1>1, <1>3, Listed
<1>5. \A i \in 1 .. Len(t.children) : b[i] = f[t.children[i]]
  BY <1>2
<1> QED BY <1>4, <1>5 DEF b

LEMMA BelowAgrees ==
  ASSUME NEW f, NEW g, NEW t \in Trees,
         \A s \in Trees : Height[s] < Height[t] => f[s] = g[s]
  PROVE  Below(f, t) = Below(g, t)
<1>1. \A i \in DOMAIN t.children : f[t.children[i]] = g[t.children[i]]
  BY TreeFacts
<1> QED BY <1>1, Zenon DEF Below

LEMMA ValuesOfDefined ==
  /\ ValuesOf \in [Trees -> Seq(Values)]
  /\ \A t \in Trees :
       ValuesOf[t] = IF t.kind = "leaf" THEN t.values ELSE FlattenSeq(Below(ValuesOf, t))
<1> DEFINE V == Seq(Values)
           Body(f, t) == IF t.kind = "leaf" THEN t.values ELSE FlattenSeq(Below(f, t))
           G == [f \in [Trees -> V] |-> [t \in Trees |-> Body(f, t)]]
<1>1. V # {} /\ Height \in [Trees -> Nat]
  <2>1. <<>> \in V
    OBVIOUS
  <2> HIDE DEF V
  <2> QED BY <2>1, TreeFacts
<1>2. ASSUME NEW f \in [Trees -> V], NEW t \in Trees PROVE Body(f, t) \in V
  <2>1. Below(f, t) \in Seq(Seq(Values)) /\ <<>> \in Seq(Values)
    BY BelowType
  <2>2. FlattenSeq(Below(f, t)) \in Seq(Values)
    BY <2>1, FlattenAppend
  <2> QED BY <2>2, TreeFacts
<1>3. ASSUME NEW f, NEW g, NEW t \in Trees,
             \A s \in Trees : Height[s] < Height[t] => f[s] = g[s]
      PROVE  Body(f, t) = Body(g, t)
  BY <1>3, BelowAgrees
<1>4. PICK values \in [Trees -> V] : values = [t \in Trees |-> Body(values, t)]
  <2> HIDE DEF V, Body
  <2>1. G \in [[Trees -> V] -> [Trees -> V]]
    BY <1>2
  <2>2. \A f \in [Trees -> V] : G[f] = [t \in Trees |-> Body(f, t)]
    OBVIOUS
  <2>3. \A f \in [Trees -> V] : \A t \in Trees : G[f][t] = Body(f, t)
    BY <2>2
  <2> HIDE DEF G
  <2>4. Recursion(G, Trees, V, Height)
    BY <1>1, <1>3, <2>1, <2>3 DEF Recursion
  <2>5. Defines(G, Trees, V)
    BY <2>4, RecursionExists
  <2> QED BY <2>2, <2>5 DEF Defines
<1>5. ValuesOf = [t \in Trees |-> Body(ValuesOf, t)]
  BY <1>4, Zenon DEF ValuesOf, Below
<1>6. \A t \in Trees : ValuesOf[t] = values[t]
  <2> DEFINE P == {t \in Trees : ValuesOf[t] = values[t]}
  <2>1. ASSUME NEW t \in Trees, \A s \in Trees : Height[s] < Height[t] => s \in P
        PROVE  t \in P
    <3>1. Body(ValuesOf, t) = Body(values, t)
      BY <1>3, <2>1
    <3> HIDE DEF Body
    <3> QED BY <1>4, <1>5, <3>1
  <2> HIDE DEF P
  <2>2. Trees \subseteq P
    BY <1>1, <2>1, RankInduction
  <2> QED BY <2>2 DEF P
<1> HIDE DEF V, Body
<1>7. ValuesOf = values
  BY <1>4, <1>5, <1>6
<1>8. \A t \in Trees : ValuesOf[t] = Body(ValuesOf, t)
  BY <1>5
<1> QED BY <1>4, <1>7, <1>8 DEF V, Body
-----------------------------------------------------------------------------
\* What trees render to.
Tokens ==
  [token : {"(", ")", "AND", "OR", "NOT", "compare"},
   op : {t.op : t \in Trees} \union {""}, columns : {t.columns : t \in Trees} \union {<<>>},
   numbers : Seq(Nat)]
RenderedType == [text : Seq(Tokens), args : Seq(Values), next : Nat]
RendererType == [Nat -> RenderedType]

\* What RenderInTurn has after some of the children.
DoneType == [parts : Seq(Seq(Tokens)), args : Seq(Values), next : Nat]
NoneDone(n) == [parts |-> <<>>, args |-> <<>>, next |-> n]
Continue(before, one) ==
  [parts |-> Append(before.parts, one.text), args |-> before.args \o one.args,
   next |-> one.next]
DoneBy(children, n, done, k) ==
  IF k = 0 THEN NoneDone(n) ELSE Continue(done[k - 1], children[k][done[k - 1].next])

LEMMA ContinueType ==
  ASSUME NEW before \in DoneType, NEW one \in RenderedType
  PROVE  Continue(before, one) \in DoneType
<1>1. /\ before.parts \in Seq(Seq(Tokens)) /\ one.text \in Seq(Tokens)
      /\ before.args \in Seq(Values) /\ one.args \in Seq(Values) /\ one.next \in Nat
  BY DEF DoneType, RenderedType
<1>2. Append(before.parts, one.text) \in Seq(Seq(Tokens))
  <2> DEFINE T == Seq(Tokens)
  <2>1. before.parts \in Seq(T) /\ one.text \in T
    BY <1>1
  <2> HIDE DEF T
  <2>2. Append(before.parts, one.text) \in Seq(T)
    BY <2>1
  <2> QED BY <2>2 DEF T
<1>3. before.args \o one.args \in Seq(Values)
  BY <1>1
<1> QED BY <1>1, <1>2, <1>3 DEF Continue, DoneType

LEMMA InTurn ==
  ASSUME NEW children \in Seq(RendererType), NEW n \in Nat
  PROVE  \E done \in [0 .. Len(children) -> DoneType] :
           /\ \A k \in 0 .. Len(children) : done[k] = DoneBy(children, n, done, k)
           /\ RenderInTurn(children, n) = done[Len(children)]
<1> DEFINE S == 0 .. Len(children)
           rank == [k \in S |-> k]
           Body(d, k) == DoneBy(children, n, d, k)
           G == [d \in [S -> DoneType] |-> [k \in S |-> Body(d, k)]]
           chosen == CHOOSE d : d = [k \in S |-> Body(d, k)]
<1>1. /\ Len(children) \in Nat
      /\ \A k \in S : rank[k] \in Nat /\ (k # 0 => k - 1 \in S /\ rank[k - 1] < rank[k])
      /\ \A k \in S : k # 0 => children[k] \in RendererType
  OBVIOUS
<1>2. DoneType # {} /\ rank \in [S -> Nat]
  <2>1. NoneDone(n) \in DoneType
    BY DEF NoneDone, DoneType
  <2> QED BY <2>1
<1>3. ASSUME NEW d \in [S -> DoneType], NEW k \in S PROVE Body(d, k) \in DoneType
  <2>1. CASE k = 0
    BY <2>1 DEF DoneBy, NoneDone, DoneType
  <2>2. CASE k # 0
    <3>1. d[k - 1] \in DoneType /\ children[k] \in RendererType
      BY <1>1, <2>2
    <3>2. d[k - 1].next \in Nat
      BY <3>1 DEF DoneType
    <3>3. children[k][d[k - 1].next] \in RenderedType
      BY <3>1, <3>2 DEF RendererType
    <3>4. Continue(d[k - 1], children[k][d[k - 1].next]) \in DoneType
      BY <3>1, <3>3, ContinueType
    <3> QED BY <2>2, <3>4 DEF DoneBy
  <2> QED BY <2>1, <2>2
<1>4. ASSUME NEW d, NEW e, NEW k \in S, \A j \in S : rank[j] < rank[k] => d[j] = e[j]
      PROVE  Body(d, k) = Body(e, k)
  <2>1. k # 0 => d[k - 1] = e[k - 1]
    BY <1>1, <1>4
  <2> HIDE DEF S, rank
  <2> QED BY <2>1 DEF DoneBy
<1> HIDE DEF S, rank, Body
<1>5. PICK done \in [S -> DoneType] : done = [k \in S |-> Body(done, k)]
  <2>1. G \in [[S -> DoneType] -> [S -> DoneType]]
    BY <1>3
  <2>2. \A d \in [S -> DoneType] : G[d] = [k \in S |-> Body(d, k)]
    OBVIOUS
  <2>3. \A d \in [S -> DoneType] : \A k \in S : G[d][k] = Body(d, k)
    BY <2>2
  <2> HIDE DEF G
  <2>4. Recursion(G, S, DoneType, rank)
    <3>1. ASSUME NEW d \in [S -> DoneType], NEW e \in [S -> DoneType], NEW k \in S,
                 \A j \in S : rank[j] < rank[k] => d[j] = e[j]
          PROVE  G[d][k] = G[e][k]
      <4>1. Body(d, k) = Body(e, k)
        BY <1>4, <3>1
      <4> QED BY <2>3, <4>1
    <3> QED BY <1>2, <2>1, <3>1 DEF Recursion
  <2>5. Defines(G, S, DoneType)
    BY <2>4, RecursionExists
  <2> QED BY <2>2, <2>5 DEF Defines
<1>6. chosen = [k \in S |-> Body(chosen, k)]
  BY <1>5, Zenon
<1>7. RenderInTurn(children, n) = chosen[Len(children)]
  BY DEF RenderInTurn, Body, S, DoneBy, NoneDone, Continue
<1> HIDE DEF chosen
<1>8. \A k \in S : chosen[k] = done[k]
  <2> DEFINE P == {k \in S : chosen[k] = done[k]}
  <2>1. ASSUME NEW k \in S, \A j \in S : rank[j] < rank[k] => j \in P
        PROVE  k \in P
    <3>1. Body(chosen, k) = Body(done, k)
      BY <1>4, <2>1
    <3> QED BY <1>5, <1>6, <3>1
  <2> HIDE DEF P
  <2>2. S \subseteq P
    BY <1>2, <2>1, RankInduction
  <2> QED BY <2>2 DEF P
<1>9. Len(children) \in S
  BY <1>1 DEF S
<1>10. \A k \in S : done[k] = DoneBy(children, n, done, k)
  BY <1>5 DEF Body
<1> QED BY <1>5, <1>7, <1>8, <1>9, <1>10 DEF S
-----------------------------------------------------------------------------
(***************************************************************************)
(* The numbers in a text.                                                  *)
(***************************************************************************)
Consecutive(n, length) == [k \in 1 .. length |-> n + k - 1]

LEMMA ConsecutiveConcat ==
  ASSUME NEW n \in Nat, NEW a \in Nat, NEW b \in Nat
  PROVE  /\ Consecutive(n, a) \in Seq(Nat) /\ Len(Consecutive(n, a)) = a
         /\ \A i \in 1 .. a : Consecutive(n, a)[i] = n + i - 1
         /\ Consecutive(n, a) \o Consecutive(n + a, b) = Consecutive(n, a + b)
<1>1. ASSUME NEW m \in Nat, NEW c \in Nat
      PROVE  /\ Consecutive(m, c) \in Seq(Nat) /\ Len(Consecutive(m, c)) = c
             /\ \A i \in 1 .. c : Consecutive(m, c)[i] = m + i - 1
  <2> DEFINE f == Consecutive(m, c)
  <2>1. f = [k \in 1 .. c |-> m + k - 1]
    BY DEF Consecutive
  <2> HIDE DEF f
  <2>2. f \in [1 .. c -> Nat] /\ \A i \in 1 .. c : f[i] = m + i - 1
    BY <2>1
  <2>3. f \in Seq(Nat) /\ Len(f) = c
    BY <2>2, Listed
  <2> QED BY <2>2, <2>3 DEF f
<1> DEFINE u == Consecutive(n, a)
           v == Consecutive(n + a, b)
           w == Consecutive(n, a + b)
<1>2. /\ u \in Seq(Nat) /\ Len(u) = a /\ \A i \in 1 .. a : u[i] = n + i - 1
  BY <1>1
<1>3. /\ v \in Seq(Nat) /\ Len(v) = b /\ \A i \in 1 .. b : v[i] = n + a + i - 1
  <2>1. n + a \in Nat
    OBVIOUS
  <2> QED BY <1>1, <2>1
<1>4. /\ w \in Seq(Nat) /\ Len(w) = a + b /\ \A i \in 1 .. a + b : w[i] = n + i - 1
  <2>1. a + b \in Nat
    OBVIOUS
  <2> QED BY <1>1, <2>1
<1> HIDE DEF u, v, w
<1>5. /\ u \o v \in Seq(Nat) /\ Len(u \o v) = a + b
      /\ \A i \in 1 .. a + b : (u \o v)[i] = IF i <= a THEN u[i] ELSE v[i - a]
  BY <1>2, <1>3, Concatenation
<1>6. ASSUME NEW i \in 1 .. a + b PROVE (u \o v)[i] = w[i]
  <2>1. CASE i <= a
    <3>1. i \in 1 .. a
      BY <2>1
    <3> QED BY <1>2, <1>4, <1>5, <2>1, <3>1
  <2>2. CASE ~(i <= a)
    <3>1. i - a \in 1 .. b /\ n + a + (i - a) - 1 = n + i - 1
      BY <2>2
    <3>2. v[i - a] = n + i - 1
      BY <1>3, <3>1
    <3> QED BY <1>4, <1>5, <2>2, <3>2
  <2> QED BY <2>1, <2>2
<1>7. u \o v = w
  BY <1>4, <1>5, <1>6, SeqEqual
<1> QED BY <1>2, <1>7 DEF u, v, w

LEMMA TokenTypes ==
  /\ Numbered(Tokens)
  /\ \A symbol \in {"(", ")", "AND", "OR", "NOT"} :
       Sign(symbol) \in Tokens /\ Sign(symbol).numbers = <<>>
  /\ \A t \in Trees : \A n \in Nat :
       /\ Comparison(t, n) \in Tokens
       /\ Comparison(t, n).numbers = Consecutive(n, Len(t.values))
<1>1. Numbered(Tokens)
  BY DEF Numbered, Tokens
<1>2. ASSUME NEW symbol \in {"(", ")", "AND", "OR", "NOT"}
      PROVE  Sign(symbol) \in Tokens /\ Sign(symbol).numbers = <<>>
  <2>1. <<>> \in Seq(Nat)
    OBVIOUS
  <2> QED BY <2>1 DEF Sign, Tokens
<1>3. ASSUME NEW t \in Trees, NEW n \in Nat
      PROVE  /\ Comparison(t, n) \in Tokens
             /\ Comparison(t, n).numbers = Consecutive(n, Len(t.values))
  <2>1. t.values \in Seq(Values)
    BY TreeFacts
  <2>2. DOMAIN t.values = 1 .. Len(t.values) /\ Len(t.values) \in Nat
    BY <2>1
  <2>3. Comparison(t, n).numbers = Consecutive(n, Len(t.values))
    BY <2>2, Zenon DEF Comparison, Consecutive
  <2>4. Consecutive(n, Len(t.values)) \in Seq(Nat)
    BY <2>2, ConsecutiveConcat
  <2>5. Comparison(t, n) \in Tokens
    <3> DEFINE numbers == [i \in DOMAIN t.values |-> n + i - 1]
    <3>1. numbers \in Seq(Nat)
      BY <2>3, <2>4 DEF Comparison
    <3> HIDE DEF numbers
    <3>2. Comparison(t, n) =
            [token |-> "compare", op |-> t.op, columns |-> t.columns, numbers |-> numbers]
      BY DEF Comparison, numbers
    <3> DEFINE op == t.op
               columns == t.columns
    <3>3. op \in {s.op : s \in Trees} /\ columns \in {s.columns : s \in Trees}
      OBVIOUS
    <3> HIDE DEF op, columns
    <3>4. [token |-> "compare", op |-> op, columns |-> columns, numbers |-> numbers] \in Tokens
      BY <3>1, <3>3 DEF Tokens
    <3> QED BY <3>2, <3>4 DEF op, columns
  <2> QED BY <2>3, <2>5
<1> QED BY <1>1, <1>2, <1>3

\* The parts of a group, joined by its operator.
Joined(op, parts) ==
  FlattenSeq([i \in DOMAIN parts |-> IF i = 1 THEN parts[i] ELSE <<Sign(op)>> \o parts[i]])
Glued(op, parts, part) == IF parts = <<>> THEN part ELSE <<Sign(op)>> \o part

LEMMA JoinedAppend ==
  ASSUME NEW op \in {"AND", "OR"}, NEW parts \in Seq(Seq(Tokens)), NEW part \in Seq(Tokens)
  PROVE  /\ Joined(op, parts) \in Seq(Tokens)
         /\ Joined(op, Append(parts, part)) = Joined(op, parts) \o Glued(op, parts, part)
<1> DEFINE T == Seq(Tokens)
           List(p) == [i \in DOMAIN p |-> IF i = 1 THEN p[i] ELSE <<Sign(op)>> \o p[i]]
           more == Append(parts, part)
<1>1. \A written \in T : <<Sign(op)>> \o written \in T
  BY TokenTypes
<1>2. <<>> \in T /\ Glued(op, parts, part) \in T
  BY <1>1 DEF Glued
<1> HIDE DEF T
<1>3. /\ parts \in Seq(T) /\ part \in T
  BY DEF T
<1>4. /\ more \in Seq(T) /\ Len(more) = Len(parts) + 1 /\ Len(parts) \in Nat
      /\ \A i \in 1 .. Len(parts) : more[i] = parts[i]
      /\ more[Len(parts) + 1] = part
  BY <1>3
<1>5. ASSUME NEW p \in Seq(T)
      PROVE  /\ List(p) \in Seq(T) /\ Len(List(p)) = Len(p)
             /\ \A i \in 1 .. Len(p) :
                  List(p)[i] = IF i = 1 THEN p[i] ELSE <<Sign(op)>> \o p[i]
  <2>1. DOMAIN p = 1 .. Len(p) /\ Len(p) \in Nat /\ \A i \in 1 .. Len(p) : p[i] \in T
    OBVIOUS
  <2> DEFINE f == List(p)
  <2>2. f = [i \in 1 .. Len(p) |-> IF i = 1 THEN p[i] ELSE <<Sign(op)>> \o p[i]]
    BY <2>1
  <2> HIDE DEF f
  <2>3. f \in [1 .. Len(p) -> T]
    BY <1>1, <2>1, <2>2
  <2>4. f \in Seq(T) /\ Len(f) = Len(p)
    BY <2>1, <2>3, Listed
  <2>5. \A i \in 1 .. Len(p) : f[i] = IF i = 1 THEN p[i] ELSE <<Sign(op)>> \o p[i]
    BY <2>2
  <2> QED BY <2>4, <2>5 DEF f
<1>6. List(more) = Append(List(parts), Glued(op, parts, part))
  <2> DEFINE left == List(more)
             old == List(parts)
             last == Glued(op, parts, part)
  <2>1. /\ left \in Seq(T) /\ Len(left) = Len(parts) + 1
        /\ \A i \in 1 .. Len(parts) + 1 :
             left[i] = IF i = 1 THEN more[i] ELSE <<Sign(op)>> \o more[i]
    BY <1>4, <1>5
  <2>2. /\ old \in Seq(T) /\ Len(old) = Len(parts)
        /\ \A i \in 1 .. Len(parts) :
             old[i] = IF i = 1 THEN parts[i] ELSE <<Sign(op)>> \o parts[i]
    BY <1>3, <1>5
  <2>3. last \in T
    BY <1>2
  <2>4. last = IF Len(parts) + 1 = 1 THEN part ELSE <<Sign(op)>> \o part
    BY <1>3 DEF Glued
  <2> HIDE DEF left, old, last, more
  <2>5. /\ Append(old, last) \in Seq(T) /\ Len(Append(old, last)) = Len(parts) + 1
        /\ \A i \in 1 .. Len(parts) : Append(old, last)[i] = old[i]
        /\ Append(old, last)[Len(parts) + 1] = last
    BY <2>2, <2>3
  <2>6. ASSUME NEW i \in 1 .. Len(parts) + 1 PROVE left[i] = Append(old, last)[i]
    <3>1. CASE i \in 1 .. Len(parts)
      <4>1. more[i] = parts[i]
        BY <1>4, <3>1
      <4>2. left[i] = IF i = 1 THEN parts[i] ELSE <<Sign(op)>> \o parts[i]
        BY <2>1, <4>1, Zenon
      <4>3. old[i] = IF i = 1 THEN parts[i] ELSE <<Sign(op)>> \o parts[i]
        BY <2>2, <3>1, Zenon
      <4>4. Append(old, last)[i] = old[i]
        BY <2>5, <3>1
      <4> QED BY <4>2, <4>3, <4>4, Zenon
    <3>2. CASE i = Len(parts) + 1
      <4>1. left[i] = IF i = 1 THEN part ELSE <<Sign(op)>> \o part
        BY <1>4, <2>1, <3>2
      <4> QED BY <2>4, <2>5, <3>2, <4>1
    <3>3. i \in 1 .. Len(parts) \/ i = Len(parts) + 1
      BY <1>4
    <3> QED BY <3>1, <3>2, <3>3
  <2>7. left = Append(old, last)
    BY <2>1, <2>5, <2>6, SeqEqual
  <2> QED BY <2>7 DEF left, old, last
<1>7. List(parts) \in Seq(Seq(Tokens)) /\ Glued(op, parts, part) \in Seq(Tokens)
  BY <1>2, <1>3, <1>5 DEF T
<1>8. Joined(op, parts) = FlattenSeq(List(parts)) /\ Joined(op, more) = FlattenSeq(List(more))
  BY DEF Joined
<1> HIDE DEF List, more
<1>9. /\ FlattenSeq(List(parts)) \in Seq(Tokens)
      /\ FlattenSeq(Append(List(parts), Glued(op, parts, part)))
           = FlattenSeq(List(parts)) \o Glued(op, parts, part)
  BY <1>7, FlattenAppend
<1> QED BY <1>6, <1>8, <1>9 DEF more

\* A sign adds no number.
LEMMA SignNumbers ==
  ASSUME NEW symbol \in {"(", ")", "AND", "OR", "NOT"}, NEW written \in Seq(Tokens)
  PROVE  /\ <<Sign(symbol)>> \in Seq(Tokens) /\ Numbers(<<Sign(symbol)>>) = <<>>
         /\ <<Sign(symbol)>> \o written \in Seq(Tokens)
         /\ Numbers(<<Sign(symbol)>> \o written) = Numbers(written)
         /\ written \o <<Sign(symbol)>> \in Seq(Tokens)
         /\ Numbers(written \o <<Sign(symbol)>>) = Numbers(written)
<1> DEFINE sign == Sign(symbol)
<1>1. sign \in Tokens /\ sign.numbers = <<>> /\ Numbered(Tokens)
  BY TokenTypes
<1>2. <<>> \in Seq(Nat)
  OBVIOUS
<1> HIDE DEF sign
<1>3. <<sign>> \in Seq(Tokens) /\ Numbers(<<sign>>) = <<>>
  <2>1. <<sign>> \in Seq(Tokens)
    BY <1>1
  <2>2. Numbers(<<sign>>) = sign.numbers
    BY <1>1, <1>2, NumbersOne
  <2> QED BY <1>1, <2>1, <2>2
<1>4. /\ Numbers(written) \in Seq(Nat)
      /\ Numbers(<<sign>> \o written) = Numbers(<<sign>>) \o Numbers(written)
      /\ Numbers(written \o <<sign>>) = Numbers(written) \o Numbers(<<sign>>)
  BY <1>1, <1>3, NumbersConcat
<1>5. <<sign>> \o written \in Seq(Tokens) /\ written \o <<sign>> \in Seq(Tokens)
  BY <1>3
<1>6. <<>> \o Numbers(written) = Numbers(written) /\ Numbers(written) \o <<>> = Numbers(written)
  BY <1>4
<1> QED BY <1>3, <1>4, <1>5, <1>6 DEF sign

LEMMA JoinedNumbers ==
  ASSUME NEW op \in {"AND", "OR"}, NEW parts \in Seq(Seq(Tokens)), NEW part \in Seq(Tokens)
  PROVE  Numbers(Joined(op, Append(parts, part))) = Numbers(Joined(op, parts)) \o Numbers(part)
<1>1. Numbered(Tokens)
  BY TokenTypes
<1>2. /\ Glued(op, parts, part) \in Seq(Tokens)
      /\ Numbers(Glued(op, parts, part)) = Numbers(part)
  BY SignNumbers DEF Glued
<1>3. /\ Joined(op, parts) \in Seq(Tokens)
      /\ Joined(op, Append(parts, part)) = Joined(op, parts) \o Glued(op, parts, part)
  BY JoinedAppend
<1>4. Numbers(Joined(op, parts) \o Glued(op, parts, part))
        = Numbers(Joined(op, parts)) \o Numbers(Glued(op, parts, part))
  BY <1>1, <1>2, <1>3, NumbersConcat
<1> QED BY <1>2, <1>3, <1>4

LEMMA GroupedText ==
  ASSUME NEW op \in {"AND", "OR"}, NEW parts \in Seq(Seq(Tokens))
  PROVE  /\ Grouped(op, parts) \in Seq(Tokens) /\ Grouped(op, parts) # <<>>
         /\ Numbers(Grouped(op, parts)) = Numbers(Joined(op, parts))
<1> DEFINE inner == Joined(op, parts)
           left == <<Sign("(")>> \o inner
<1>1. <<>> \in Seq(Tokens)
  OBVIOUS
<1>2. inner \in Seq(Tokens)
  BY <1>1, JoinedAppend
<1>3. Grouped(op, parts) = left \o <<Sign(")")>>
  BY DEF Grouped, Joined
<1> HIDE DEF inner
<1>4. left \in Seq(Tokens) /\ Numbers(left) = Numbers(inner) /\ Len(left) = 1 + Len(inner)
  BY <1>2, SignNumbers
<1> HIDE DEF left
<1>5. /\ left \o <<Sign(")")>> \in Seq(Tokens)
      /\ Numbers(left \o <<Sign(")")>>) = Numbers(left)
  BY <1>4, SignNumbers
<1>6. left \o <<Sign(")")>> # <<>>
  BY <1>2, <1>4
<1> QED BY <1>3, <1>4, <1>5, <1>6 DEF inner

LEMMA NegatedText ==
  ASSUME NEW written \in Seq(Tokens)
  PROVE  /\ Negated(written) \in Seq(Tokens) /\ Negated(written) # <<>>
         /\ Numbers(Negated(written)) = Numbers(written)
<1> DEFINE opened == <<Sign("(")>> \o written
           negated == <<Sign("NOT")>> \o opened
<1>1. opened \in Seq(Tokens) /\ Numbers(opened) = Numbers(written)
  BY SignNumbers
<1>2. Negated(written) = negated \o <<Sign(")")>>
  <2>1. <<Sign("NOT"), Sign("(")>> \o written = <<Sign("NOT")>> \o (<<Sign("(")>> \o written)
    <3> DEFINE a == Sign("NOT")
               b == Sign("(")
    <3>1. a \in Tokens /\ b \in Tokens
      BY TokenTypes
    <3> HIDE DEF a, b
    <3>2. <<a>> \in Seq(Tokens) /\ <<b>> \in Seq(Tokens)
      BY <3>1
    <3>4. <<a, b>> = <<a>> \o <<b>>
      <4> DEFINE u == <<a, b>>
                 v == <<a>> \o <<b>>
      <4>1. u \in Seq(Tokens) /\ Len(u) = 2 /\ u[1] = a /\ u[2] = b
        BY <3>1
      <4>2. v \in Seq(Tokens) /\ Len(v) = 2 /\ v[1] = a /\ v[2] = b
        BY <3>2
      <4> HIDE DEF u, v
      <4>3. \A i \in 1 .. 2 : u[i] = v[i]
        BY <4>1, <4>2
      <4>4. u = v
        BY <4>1, <4>2, <4>3, SeqEqual
      <4> QED BY <4>4 DEF u, v
    <3>3. (<<a>> \o <<b>>) \o written = <<a>> \o (<<b>> \o written)
      BY <3>2, ConcatAssociative
    <3> QED BY <3>3, <3>4 DEF a, b
  <2> QED BY <2>1 DEF Negated
<1> HIDE DEF opened
<1>3. negated \in Seq(Tokens) /\ Numbers(negated) = Numbers(opened) /\ Len(negated) = 1 + Len(opened)
  BY <1>1, SignNumbers
<1> HIDE DEF negated
<1>4. /\ negated \o <<Sign(")")>> \in Seq(Tokens)
      /\ Numbers(negated \o <<Sign(")")>>) = Numbers(negated)
  BY <1>3, SignNumbers
<1>5. negated \o <<Sign(")")>> # <<>>
  BY <1>1, <1>3
<1> QED BY <1>1, <1>2, <1>3, <1>4, <1>5
-----------------------------------------------------------------------------
\* The body of RenderPredicate, when f is what trees render to.
Rendering(f, t, n) ==
  IF t.kind = "leaf"
  THEN [text |-> <<Comparison(t, n)>>, args |-> t.values, next |-> n + Len(t.values)]
  ELSE LET children == RenderInTurn(Below(f, t), n)
       IN [text |-> IF t.kind = "NOT" THEN Negated(children.parts[1])
                    ELSE Grouped(t.kind, children.parts),
           args |-> children.args, next |-> children.next]

LEMMA RenderingType ==
  ASSUME NEW f \in [Trees -> RendererType], NEW t \in Trees, NEW n \in Nat
  PROVE  Rendering(f, t, n) \in RenderedType
<1>1. /\ t.values \in Seq(Values) /\ Len(t.values) \in Nat
      /\ t.kind \in {"leaf", "AND", "OR", "NOT"}
      /\ t.kind = "NOT" => Len(t.children) = 1
      /\ Len(t.children) \in Nat
  BY TreeFacts
<1>2. CASE t.kind = "leaf"
  <2>1. <<Comparison(t, n)>> \in Seq(Tokens)
    BY TokenTypes
  <2>2. n + Len(t.values) \in Nat
    BY <1>1
  <2> QED BY <1>1, <1>2, <2>1, <2>2 DEF Rendering, RenderedType
<1>3. CASE t.kind # "leaf"
  <2> DEFINE children == Below(f, t)
             result == RenderInTurn(children, n)
  <2>1. children \in Seq(RendererType) /\ Len(children) = Len(t.children)
    BY BelowType
  <2>2. PICK done \in [0 .. Len(children) -> DoneType] :
          /\ \A k \in 0 .. Len(children) : done[k] = DoneBy(children, n, done, k)
          /\ RenderInTurn(children, n) = done[Len(children)]
    BY <2>1, InTurn
  <2> HIDE DEF children
  <2>3. result \in DoneType
    BY <1>1, <2>1, <2>2
  <2>4. ASSUME t.kind = "NOT" PROVE result.parts[1] \in Seq(Tokens)
    <3>1. Len(children) = 1
      BY <1>1, <2>1, <2>4
    <3>2. result = Continue(done[0], children[1][done[0].next]) /\ done[0] = NoneDone(n)
      BY <2>2, <3>1 DEF DoneBy
    <3>3. children[1] \in RendererType /\ done[0].next = n
      <4>1. 1 \in 1 .. Len(children)
        BY <3>1
      <4> QED BY <2>1, <3>2, <4>1 DEF NoneDone
    <3>4. children[1][n].text \in Seq(Tokens)
      BY <3>3 DEF RendererType, RenderedType
    <3>5. result.parts = Append(<<>>, children[1][n].text)
      BY <3>2, <3>3 DEF Continue, NoneDone
    <3> QED BY <3>4, <3>5
  <2> HIDE DEF result
  <2> DEFINE written == IF t.kind = "NOT" THEN Negated(result.parts[1])
                     ELSE Grouped(t.kind, result.parts)
  <2>5. written \in Seq(Tokens)
    <3>1. CASE t.kind = "NOT"
      BY <2>4, <3>1, NegatedText
    <3>2. CASE t.kind \in {"AND", "OR"}
      <4>1. result.parts \in Seq(Seq(Tokens))
        BY <2>3 DEF DoneType
      <4>2. Grouped(t.kind, result.parts) \in Seq(Tokens)
        BY <3>2, <4>1, GroupedText
      <4> QED BY <3>2, <4>2
    <3>3. t.kind = "NOT" \/ t.kind \in {"AND", "OR"}
      BY <1>1, <1>3
    <3> HIDE DEF written
    <3> QED BY <3>1, <3>2, <3>3
  <2>6. Rendering(f, t, n) = [text |-> written, args |-> result.args, next |-> result.next]
    BY <1>3 DEF Rendering, result, children
  <2> HIDE DEF written
  <2> QED BY <2>3, <2>5, <2>6 DEF RenderedType, DoneType
<1> QED BY <1>2, <1>3

LEMMA RenderDefined ==
  /\ RenderPredicate \in [Trees -> RendererType]
  /\ \A t \in Trees : \A n \in Nat :
       RenderPredicate[t][n] = Rendering(RenderPredicate, t, n)
<1> DEFINE V == RendererType
           Body(f, t) == [n \in Nat |-> Rendering(f, t, n)]
           G == [f \in [Trees -> V] |-> [t \in Trees |-> Body(f, t)]]
<1>1. V # {} /\ Height \in [Trees -> Nat]
  <2>1. <<>> \in Seq(Tokens) /\ <<>> \in Seq(Values) /\ 0 \in Nat
    OBVIOUS
  <2>2. [text |-> <<>>, args |-> <<>>, next |-> 0] \in RenderedType
    BY <2>1 DEF RenderedType
  <2>3. [n \in Nat |-> [text |-> <<>>, args |-> <<>>, next |-> 0]] \in V
    BY <2>2 DEF RendererType
  <2> HIDE DEF V
  <2> QED BY <2>3, TreeFacts
<1>2. ASSUME NEW f \in [Trees -> V], NEW t \in Trees PROVE Body(f, t) \in V
  <2>1. \A n \in Nat : Rendering(f, t, n) \in RenderedType
    BY RenderingType
  <2> QED BY <2>1 DEF RendererType
<1>3. ASSUME NEW f, NEW g, NEW t \in Trees,
             \A s \in Trees : Height[s] < Height[t] => f[s] = g[s]
      PROVE  Body(f, t) = Body(g, t)
  <2>1. Below(f, t) = Below(g, t)
    BY <1>3, BelowAgrees
  <2> QED BY <2>1, Zenon DEF Rendering
<1>4. PICK rendered \in [Trees -> V] : rendered = [t \in Trees |-> Body(rendered, t)]
  <2> HIDE DEF V, Body
  <2>1. G \in [[Trees -> V] -> [Trees -> V]]
    BY <1>2
  <2>2. \A f \in [Trees -> V] : G[f] = [t \in Trees |-> Body(f, t)]
    OBVIOUS
  <2>3. \A f \in [Trees -> V] : \A t \in Trees : G[f][t] = Body(f, t)
    BY <2>2
  <2> HIDE DEF G
  <2>4. Recursion(G, Trees, V, Height)
    <3>1. ASSUME NEW f \in [Trees -> V], NEW g \in [Trees -> V], NEW t \in Trees,
                 \A s \in Trees : Height[s] < Height[t] => f[s] = g[s]
          PROVE  G[f][t] = G[g][t]
      <4>1. Body(f, t) = Body(g, t)
        BY <1>3, <3>1
      <4> QED BY <2>3, <4>1
    <3> QED BY <1>1, <2>1, <3>1 DEF Recursion
  <2>5. Defines(G, Trees, V)
    BY <2>4, RecursionExists
  <2> QED BY <2>2, <2>5 DEF Defines
<1>5. RenderPredicate = [t \in Trees |-> Body(RenderPredicate, t)]
  BY <1>4, Zenon DEF RenderPredicate, Rendering, Below
<1>6. \A t \in Trees : RenderPredicate[t] = rendered[t]
  <2> DEFINE P == {t \in Trees : RenderPredicate[t] = rendered[t]}
  <2>1. ASSUME NEW t \in Trees, \A s \in Trees : Height[s] < Height[t] => s \in P
        PROVE  t \in P
    <3>1. Body(RenderPredicate, t) = Body(rendered, t)
      BY <1>3, <2>1
    <3> HIDE DEF Body
    <3> QED BY <1>4, <1>5, <3>1
  <2> HIDE DEF P
  <2>2. Trees \subseteq P
    BY <1>1, <2>1, RankInduction
  <2> QED BY <2>2 DEF P
<1>7. RenderPredicate = rendered
  <2> HIDE DEF V, Body
  <2> QED BY <1>4, <1>5, <1>6
<1>8. \A t \in Trees : RenderPredicate[t] = Body(RenderPredicate, t)
  <2> HIDE DEF Body
  <2> QED BY <1>5
<1>9. \A t \in Trees : \A n \in Nat : RenderPredicate[t][n] = Rendering(RenderPredicate, t, n)
  BY <1>8
<1> QED BY <1>4, <1>7, <1>9 DEF V
-----------------------------------------------------------------------------
\* What renderPredicate does with a tree when n is the next argument: it adds
\* the tree's values, in reading order, and numbers their placeholders on from
\* n without a gap.
Faithful(rendered, values, n) ==
  /\ rendered.args = values
  /\ rendered.next = n + Len(values)
  /\ Numbers(rendered.text) = Consecutive(n, Len(values))
  /\ rendered.text # <<>>

LEMMA LeafFaithful ==
  ASSUME NEW t \in Trees, NEW n \in Nat, t.kind = "leaf"
  PROVE  Faithful(RenderPredicate[t][n], ValuesOf[t], n)
<1>1. RenderPredicate[t][n] = Rendering(RenderPredicate, t, n) /\ ValuesOf[t] = t.values
  BY RenderDefined, ValuesOfDefined
<1>2. Rendering(RenderPredicate, t, n) =
        [text |-> <<Comparison(t, n)>>, args |-> t.values, next |-> n + Len(t.values)]
  BY DEF Rendering
<1>3. Comparison(t, n) \in Tokens /\ Numbered(Tokens)
      /\ Comparison(t, n).numbers = Consecutive(n, Len(t.values))
  BY TokenTypes
<1> DEFINE token == Comparison(t, n)
<1>4. token.numbers \in Seq(Nat)
  BY <1>3 DEF Numbered
<1> HIDE DEF token
<1>5. Numbers(<<token>>) = token.numbers /\ <<token>> # <<>>
  BY <1>4, NumbersOne
<1> QED BY <1>1, <1>2, <1>3, <1>5 DEF Faithful, token

\* The values of the first children of a node.
LEMMA FlattenPrefix ==
  ASSUME NEW list \in Seq(Seq(Values))
  PROVE  /\ FlattenSeq(SubSeq(list, 1, 0)) = <<>>
         /\ FlattenSeq(SubSeq(list, 1, Len(list))) = FlattenSeq(list)
         /\ \A k \in Nat : k < Len(list) =>
              /\ list[k + 1] \in Seq(Values)
              /\ FlattenSeq(SubSeq(list, 1, k)) \in Seq(Values)
              /\ FlattenSeq(SubSeq(list, 1, k + 1)) = FlattenSeq(SubSeq(list, 1, k)) \o list[k + 1]
<1> DEFINE T == Seq(Values)
<1>0. list \in Seq(T) /\ Len(list) \in Nat
  OBVIOUS
<1> HIDE DEF T
<1>1. SubSeq(list, 1, 0) = <<>> /\ SubSeq(list, 1, Len(list)) = list
  BY <1>0
<1>2. FlattenSeq(<<>>) = <<>>
  BY DEF FlattenSeq
<1>3. ASSUME NEW k \in Nat, k < Len(list)
      PROVE  /\ list[k + 1] \in Seq(Values)
             /\ FlattenSeq(SubSeq(list, 1, k)) \in Seq(Values)
             /\ FlattenSeq(SubSeq(list, 1, k + 1)) = FlattenSeq(SubSeq(list, 1, k)) \o list[k + 1]
  <2> DEFINE first == SubSeq(list, 1, k)
             more == SubSeq(list, 1, k + 1)
  <2>1. /\ first \in Seq(T) /\ Len(first) = k /\ \A i \in 1 .. k : first[i] = list[i]
        /\ more \in Seq(T) /\ Len(more) = k + 1 /\ \A i \in 1 .. k + 1 : more[i] = list[i]
        /\ list[k + 1] \in T
    BY <1>0, <1>3
  <2> HIDE DEF first, more
  <2>2. /\ Append(first, list[k + 1]) \in Seq(T) /\ Len(Append(first, list[k + 1])) = k + 1
        /\ \A i \in 1 .. k + 1 : Append(first, list[k + 1])[i] = list[i]
    BY <2>1
  <2>3. \A i \in 1 .. k + 1 : more[i] = Append(first, list[k + 1])[i]
    BY <2>1, <2>2
  <2>4. more = Append(first, list[k + 1])
    BY <2>1, <2>2, <2>3, SeqEqual
  <2>5. first \in Seq(Seq(Values)) /\ list[k + 1] \in Seq(Values)
    BY <2>1 DEF T
  <2>6. /\ FlattenSeq(first) \in Seq(Values)
        /\ FlattenSeq(Append(first, list[k + 1])) = FlattenSeq(first) \o list[k + 1]
    BY <2>5, FlattenAppend
  <2> QED BY <2>4, <2>5, <2>6 DEF first, more
<1> QED BY <1>1, <1>2, <1>3

\* RenderInTurn after k children with these values.
Reached(op, list, n, d, k) ==
  /\ d.args = FlattenSeq(SubSeq(list, 1, k))
  /\ d.next = n + Len(d.args)
  /\ Numbers(Joined(op, d.parts)) = Consecutive(n, Len(d.args))

LEMMA NoneReached ==
  ASSUME NEW op, NEW list \in Seq(Seq(Values)), NEW n \in Nat
  PROVE  Reached(op, list, n, NoneDone(n), 0)
<1>1. FlattenSeq(SubSeq(list, 1, 0)) = <<>>
  BY FlattenPrefix
<1>2. Joined(op, <<>>) = <<>>
  BY DEF Joined, FlattenSeq
<1>3. Numbers(<<>>) = <<>>
  BY DEF Numbers, FlattenSeq
<1>4. Consecutive(n, 0) = <<>>
  <2>1. Consecutive(n, 0) \in Seq(Nat) /\ Len(Consecutive(n, 0)) = 0
    BY ConsecutiveConcat
  <2> QED BY <2>1
<1>5. Len(<<>>) = 0
  OBVIOUS
<1> QED BY <1>1, <1>2, <1>3, <1>4, <1>5 DEF Reached, NoneDone

LEMMA OneMoreReached ==
  ASSUME NEW op \in {"AND", "OR"}, NEW list \in Seq(Seq(Values)), NEW n \in Nat,
         NEW d \in DoneType, NEW k \in Nat, k < Len(list), Reached(op, list, n, d, k),
         NEW one \in RenderedType, Faithful(one, list[k + 1], d.next)
  PROVE  Reached(op, list, n, Continue(d, one), k + 1)
<1> DEFINE next == Continue(d, one)
           values == list[k + 1]
<1>1. /\ d.args \in Seq(Values) /\ Len(d.args) \in Nat /\ d.parts \in Seq(Seq(Tokens))
      /\ one.text \in Seq(Tokens)
  BY DEF DoneType, RenderedType
<1>2. /\ values \in Seq(Values) /\ Len(values) \in Nat
      /\ FlattenSeq(SubSeq(list, 1, k + 1)) = FlattenSeq(SubSeq(list, 1, k)) \o values
  <2>1. /\ values \in Seq(Values)
        /\ FlattenSeq(SubSeq(list, 1, k + 1)) = FlattenSeq(SubSeq(list, 1, k)) \o values
    BY FlattenPrefix, Zenon
  <2> HIDE DEF values
  <2> QED BY <2>1
<1>3. /\ d.args = FlattenSeq(SubSeq(list, 1, k)) /\ d.next = n + Len(d.args)
      /\ Numbers(Joined(op, d.parts)) = Consecutive(n, Len(d.args))
  BY DEF Reached
<1>4. /\ one.args = values /\ one.next = d.next + Len(values)
      /\ Numbers(one.text) = Consecutive(d.next, Len(values))
  BY DEF Faithful
<1>5. /\ next.parts = Append(d.parts, one.text) /\ next.args = d.args \o one.args
      /\ next.next = one.next
  BY DEF Continue
<1> HIDE DEF next, values
<1>6. next.args = FlattenSeq(SubSeq(list, 1, k + 1))
  BY <1>2, <1>3, <1>4, <1>5
<1>7. Len(next.args) = Len(d.args) + Len(values)
  BY <1>1, <1>2, <1>4, <1>5
<1>8. next.next = n + Len(next.args)
  BY <1>1, <1>2, <1>3, <1>4, <1>5, <1>7
<1>9. Numbers(Joined(op, next.parts)) = Consecutive(n, Len(next.args))
  <2>1. Numbers(Joined(op, next.parts)) = Numbers(Joined(op, d.parts)) \o Numbers(one.text)
    BY <1>1, <1>5, JoinedNumbers
  <2>2. Numbers(one.text) = Consecutive(n + Len(d.args), Len(values))
    BY <1>3, <1>4
  <2>3. Consecutive(n, Len(d.args)) \o Consecutive(n + Len(d.args), Len(values))
          = Consecutive(n, Len(d.args) + Len(values))
    BY ZenonT(40), <1>1, <1>2, ConsecutiveConcat
  <2> QED BY <1>3, <1>7, <2>1, <2>2, <2>3
<1> QED BY <1>6, <1>8, <1>9 DEF Reached, next

LEMMA NodeFaithful ==
  ASSUME NEW t \in Trees, NEW n \in Nat, t.kind # "leaf",
         \A s \in Trees : Height[s] < Height[t] =>
           \A m \in Nat : Faithful(RenderPredicate[s][m], ValuesOf[s], m)
  PROVE  Faithful(RenderPredicate[t][n], ValuesOf[t], n)
<1> DEFINE children == Below(RenderPredicate, t)
           list == Below(ValuesOf, t)
           L == Len(t.children)
           result == RenderInTurn(children, n)
<1>1. /\ L \in Nat /\ t.kind \in {"AND", "OR", "NOT"}
      /\ t.kind = "NOT" => L = 1
      /\ \A i \in 1 .. L : t.children[i] \in Trees /\ Height[t.children[i]] < Height[t]
  BY TreeFacts
<1>2. /\ children \in Seq(RendererType) /\ Len(children) = L
      /\ \A i \in 1 .. L : children[i] = RenderPredicate[t.children[i]]
  BY BelowType, RenderDefined
<1>3. /\ list \in Seq(Seq(Values)) /\ Len(list) = L
      /\ \A i \in 1 .. L : list[i] = ValuesOf[t.children[i]]
  BY BelowType, ValuesOfDefined
<1>4. ValuesOf[t] = FlattenSeq(list)
  BY ValuesOfDefined
<1>5. RenderPredicate[t][n] =
        [text |-> IF t.kind = "NOT" THEN Negated(result.parts[1])
                  ELSE Grouped(t.kind, result.parts),
         args |-> result.args, next |-> result.next]
  BY RenderDefined DEF Rendering
<1> HIDE DEF children, list, L
<1>6. \A i \in 1 .. L : \A m \in Nat :
        children[i][m] \in RenderedType /\ Faithful(children[i][m], list[i], m)
  <2>1. ASSUME NEW i \in 1 .. L, NEW m \in Nat
        PROVE  children[i][m] \in RenderedType /\ Faithful(children[i][m], list[i], m)
    <3>1. t.children[i] \in Trees /\ Height[t.children[i]] < Height[t]
      BY <1>1
    <3>2. Faithful(RenderPredicate[t.children[i]][m], ValuesOf[t.children[i]], m)
      BY <3>1
    <3>3. RenderPredicate[t.children[i]][m] \in RenderedType
      BY <3>1, RenderDefined DEF RendererType
    <3> QED BY <1>2, <1>3, <3>2, <3>3
  <2> QED BY <2>1
<1>7. PICK done \in [0 .. L -> DoneType] :
        /\ \A k \in 0 .. L : done[k] = DoneBy(children, n, done, k)
        /\ result = done[L]
  BY <1>2, InTurn
<1>8. ASSUME NEW op \in {"AND", "OR"} PROVE Reached(op, list, n, done[L], L)
  <2> DEFINE N == {k \in Nat : k \in 0 .. L => Reached(op, list, n, done[k], k)}
  <2>1. 0 \in N
    <3>1. done[0] = NoneDone(n)
      BY SMTT(30), <1>1, <1>7 DEF DoneBy
    <3> QED BY <1>3, <3>1, NoneReached
  <2>2. ASSUME NEW k \in Nat, k \in N PROVE k + 1 \in N
    <3>1. ASSUME k + 1 \in 0 .. L PROVE Reached(op, list, n, done[k + 1], k + 1)
      <4>1. k \in 0 .. L /\ k < Len(list) /\ (k + 1) - 1 = k /\ k + 1 # 0 /\ k + 1 \in 1 .. L
        BY <1>1, <1>3, <3>1
      <4>2. done[k] \in DoneType /\ Reached(op, list, n, done[k], k)
        BY <2>2, <4>1
      <4>3. done[k].next \in Nat
        BY <4>2 DEF DoneType
      <4> DEFINE one == children[k + 1][done[k].next]
      <4>4. one \in RenderedType /\ Faithful(one, list[k + 1], done[k].next)
        BY <1>6, <4>1, <4>3
      <4>5. done[k + 1] = Continue(done[k], one)
        BY <1>7, <3>1, <4>1 DEF DoneBy
      <4> HIDE DEF one
      <4>6. Reached(op, list, n, Continue(done[k], one), k + 1)
        BY <1>3, <4>1, <4>2, <4>4, OneMoreReached
      <4> QED BY <4>5, <4>6
    <3> QED BY <3>1
  <2> HIDE DEF N
  <2>3. Nat \subseteq N
    BY <2>1, <2>2, NatSetInduction
  <2> QED BY <1>1, <2>3 DEF N
<1>9. result \in DoneType
  BY <1>1, <1>7
<1> HIDE DEF result
<1>10. result.args = ValuesOf[t] /\ result.next = n + Len(ValuesOf[t])
  <2>1. Reached("AND", list, n, result, L)
    BY <1>7, <1>8
  <2>2. FlattenSeq(SubSeq(list, 1, L)) = FlattenSeq(list)
    BY <1>3, FlattenPrefix
  <2> QED BY <1>4, <2>1, <2>2 DEF Reached
<1> DEFINE written == IF t.kind = "NOT" THEN Negated(result.parts[1])
                      ELSE Grouped(t.kind, result.parts)
<1>11. Numbers(written) = Consecutive(n, Len(ValuesOf[t])) /\ written # <<>>
  <2>1. CASE t.kind = "NOT"
    <3>1. L = 1 /\ 0 \in 0 .. L /\ 1 \in 0 .. L
      BY <1>1, <2>1
    <3> DEFINE one == children[1][n]
    <3>2. one \in RenderedType /\ Faithful(one, list[1], n)
      BY <1>6, <3>1
    <3>3. done[0] = NoneDone(n) /\ done[1] = Continue(done[0], children[1][done[0].next])
      BY <1>7, <3>1 DEF DoneBy
    <3>4. done[0].next = n /\ done[0].parts = <<>> /\ done[0].args = <<>>
      BY <3>3 DEF NoneDone
    <3> HIDE DEF one
    <3>5. result = Continue(done[0], one)
      BY <1>7, <3>1, <3>3, <3>4 DEF one
    <3>6. result.parts = Append(<<>>, one.text) /\ result.args = <<>> \o one.args
      BY <3>4, <3>5 DEF Continue
    <3>7. one.text \in Seq(Tokens) /\ one.args \in Seq(Values)
      BY <3>2 DEF RenderedType
    <3>8. result.parts[1] = one.text /\ result.args = one.args
      BY <3>6, <3>7
    <3>9. Numbers(one.text) = Consecutive(n, Len(ValuesOf[t]))
      BY <1>10, <3>2, <3>8 DEF Faithful
    <3>10. Numbers(Negated(one.text)) = Numbers(one.text) /\ Negated(one.text) # <<>>
      BY <3>7, NegatedText
    <3> QED BY <2>1, <3>8, <3>9, <3>10
  <2>2. CASE t.kind \in {"AND", "OR"}
    <3>1. Reached(t.kind, list, n, result, L)
      BY <1>7, <1>8, <2>2
    <3>2. Numbers(Joined(t.kind, result.parts)) = Consecutive(n, Len(ValuesOf[t]))
      BY <1>10, <3>1 DEF Reached
    <3>3. result.parts \in Seq(Seq(Tokens))
      BY <1>9 DEF DoneType
    <3>4. /\ Numbers(Grouped(t.kind, result.parts)) = Numbers(Joined(t.kind, result.parts))
          /\ Grouped(t.kind, result.parts) # <<>>
      BY <2>2, <3>3, GroupedText
    <3>5. t.kind # "NOT"
      BY <2>2
    <3> QED BY <3>2, <3>4, <3>5
  <2> QED BY <1>1, <2>1, <2>2
<1> HIDE DEF written
<1>12. RenderPredicate[t][n] = [text |-> written, args |-> result.args, next |-> result.next]
  BY <1>5 DEF written
<1> QED BY <1>10, <1>11, <1>12 DEF Faithful

\* However predicates are nested, and whatever the next argument is, rendering
\* one binds exactly the values compared in it, in reading order, to
\* placeholders numbered on without a gap, and tells the caller the number that
\* follows them (renderPredicate).
THEOREM RenderingIsFaithful ==
  \A t \in Trees : \A n \in Nat : Faithful(RenderPredicate[t][n], ValuesOf[t], n)
<1> DEFINE P == {t \in Trees : \A n \in Nat : Faithful(RenderPredicate[t][n], ValuesOf[t], n)}
<1>1. ASSUME NEW t \in Trees, \A s \in Trees : Height[s] < Height[t] => s \in P
      PROVE  t \in P
  <2>1. ASSUME NEW n \in Nat PROVE Faithful(RenderPredicate[t][n], ValuesOf[t], n)
    <3>1. CASE t.kind = "leaf"
      BY <3>1, LeafFaithful
    <3>2. CASE t.kind # "leaf"
      BY <1>1, <3>2, NodeFaithful
    <3> QED BY <3>1, <3>2
  <2> QED BY <2>1
<1> HIDE DEF P
<1>2. Trees \subseteq P
  BY <1>1, TreeFacts, RankInduction
<1> QED BY <1>2 DEF P
-----------------------------------------------------------------------------
(***************************************************************************)
(* The builders.                                                           *)
(***************************************************************************)

\* What placeholders and arguments are.
Placed == PlaceholderType(Clauses)
Bindable == Values \union {Nil}

\* Build's locals are empty outside a Build.
AtRest ==
  pc \in {"query", "rejected"} =>
    index = 1 /\ where = <<>> /\ nextArg = 1 /\ args = <<>> /\ text = <<>>

\* Each placeholder has the number of its place, and its argument is the value
\* that is meant there.
Agreed(q) == {<<p.number, p, Meant(q, p.slot)>> : p \in Placed}
InPlace == Aligned(text, args, Agreed(query))

\* The slots of the first n assignments, or predicates.
SetSlots(n) == {<<"SET", 1, i, 1>> : i \in 1 .. n}
WhereSlots(q, n) ==
  UNION {{<<"WHERE", 1, i, p>> : p \in DOMAIN ValuesOf[q.predicates[i]]} : i \in 1 .. n}

Covers(q, slots, a, p) == slots = SetSlots(a) \union WhereSlots(q, p)

\* What is written is all that Build has passed, and a WHERE is written as soon
\* as there is a condition.
Progress ==
  LET assignments == Len(query.assignments)
      predicates  == Len(query.predicates)
  IN /\ pc \in {"set", "where", "built"} => RowsPermitted
     /\ pc = "set" =>
          /\ index - 1 <= assignments /\ where = <<>>
          /\ Covers(query, SlotsIn(text), index - 1, 0)
     /\ pc = "where" =>
          /\ index - 1 <= predicates /\ (where = <<>> => index = 1)
          /\ Covers(query, SlotsIn(text), assignments, index - 1)
     /\ pc = "built" =>
          /\ where = <<>> => query.predicates = <<>>
          /\ Covers(query, SlotsIn(text), assignments, predicates)

BindInv == TypeOK /\ where \in Seq(Tokens) /\ AtRest /\ InPlace /\ Progress
-----------------------------------------------------------------------------
LEMMA NothingWritten ==
  /\ SlotsIn(<<>>) = {} /\ Numbers(<<>>) = <<>>
  /\ \A q : Aligned(<<>>, <<>>, Agreed(q)) /\ Covers(q, SlotsIn(<<>>), 0, 0)
<1>1. SlotsIn(<<>>) = {}
  BY DEF SlotsIn
<1>2. Numbers(<<>>) = <<>>
  BY DEF Numbers, FlattenSeq
<1>3. ASSUME NEW q PROVE Aligned(<<>>, <<>>, Agreed(q)) /\ Covers(q, SlotsIn(<<>>), 0, 0)
  <2>1. Aligned(<<>>, <<>>, Agreed(q))
    BY DEF Aligned
  <2>2. 1 .. 0 = {}
    OBVIOUS
  <2>3. SetSlots(0) = {}
    BY <2>2 DEF SetSlots
  <2>4. WhereSlots(q, 0) = {}
    BY <2>2 DEF WhereSlots
  <2> QED BY <1>1, <2>1, <2>3, <2>4 DEF Covers
<1> QED BY <1>1, <1>2, <1>3

\* A well formed query, and nothing written yet.
Idle ==
  /\ query \in QueryType /\ (query.kind = "DELETE" => query.assignments = <<>>)
  /\ index = 1 /\ where = <<>> /\ nextArg = 1 /\ args = <<>> /\ text = <<>>

LEMMA IdleInv == Idle /\ pc \in {"query", "rejected"} => BindInv
<1> SUFFICES ASSUME Idle, pc \in {"query", "rejected"} PROVE BindInv
  OBVIOUS
<1>1. TypeOK
  <2>1. <<>> \in Seq(Nat) /\ <<>> \in Seq(Values \union {Nil})
        /\ <<>> \in Seq(PlaceholderType(Clauses)) /\ Len(<<>>) = 0
    OBVIOUS
  <2>2. Numbers(where) \in Seq(Nat)
    BY <2>1, NothingWritten DEF Idle
  <2>3. index \in Nat \ {0} /\ nextArg = Len(args) + 1
    BY <2>1 DEF Idle
  <2> QED BY <2>1, <2>2, <2>3 DEF Idle, TypeOK
<1>2. where \in Seq(Tokens) /\ InPlace /\ AtRest
  BY NothingWritten DEF Idle, InPlace, AtRest
<1>3. Progress
  BY DEF Progress
<1> QED BY <1>1, <1>2, <1>3 DEF BindInv

\* The same one step later.
LEMMA IdleAfter == (Idle /\ pc \in {"query", "rejected"} => BindInv)'
BY IdleInv, PTL

LEMMA InitInv == Init => BindInv
<1> SUFFICES ASSUME Init PROVE BindInv
  OBVIOUS
<1>1. PICK kind \in Kinds, table \in Tables : query = NewMutation(kind, table)
  BY DEF Init
<1>2. query \in QueryType /\ query.assignments = <<>>
  <2>1. table \in TableType
    BY MutationAssumption
  <2> QED BY <1>1, <2>1 DEF NewMutation, QueryType
<1>3. Idle /\ pc = "query"
  BY <1>2 DEF Init, Idle
<1> QED BY <1>3, IdleInv

\* What the caller's calls do to the query.
LEMMA AssembleQuery ==
  ASSUME query \in QueryType, query.kind = "DELETE" => query.assignments = <<>>, Assemble
  PROVE  /\ query' \in QueryType /\ (query'.kind = "DELETE" => query'.assignments = <<>>)
         /\ pc = "query" /\ UNCHANGED <<pc, index, where, nextArg, args, text>>
<1>1. pc = "query" /\ UNCHANGED <<pc, index, where, nextArg, args, text>>
  BY DEF Assemble, Set, Where, AllRows, Returning, Refined, locals, buffers
<1>2. ASSUME NEW list \in Assignments, Set(list)
      PROVE  query' \in QueryType /\ query'.kind = "UPDATE"
  <2>1. query' = [query EXCEPT !.assignments = @ \o list] /\ query.kind = "UPDATE"
    BY <1>2 DEF Set, Refined
  <2>2. query.assignments \in Seq(AssignmentType) /\ list \in Seq(AssignmentType)
    BY MutationAssumption DEF QueryType
  <2> DEFINE T == AssignmentType
  <2> HIDE DEF T
  <2>3. query.assignments \o list \in Seq(T)
    BY <2>2 DEF T
  <2> QED BY <2>1, <2>3 DEF QueryType, T
<1>3. ASSUME NEW list \in Conditions, Where(list)
      PROVE  query' \in QueryType /\ query'.assignments = query.assignments
             /\ query'.kind = query.kind
  <2>1. query' = [query EXCEPT !.predicates = @ \o list]
    BY <1>3 DEF Where, Refined
  <2>2. query.predicates \in Seq(Trees) /\ list \in Seq(Trees)
    BY MutationAssumption DEF QueryType
  <2>3. query.predicates \o list \in Seq(Trees)
    BY <2>2
  <2> QED BY <2>1, <2>3 DEF QueryType
<1>4. ASSUME AllRows
      PROVE  query' \in QueryType /\ query'.assignments = query.assignments
             /\ query'.kind = query.kind
  BY <1>4 DEF AllRows, Refined, QueryType
<1>5. ASSUME NEW columns \in Returned, Returning(columns)
      PROVE  query' \in QueryType /\ query'.assignments = query.assignments
             /\ query'.kind = query.kind
  <2>1. columns \in Seq(ColumnType)
    BY MutationAssumption
  <2> QED BY <1>5, <2>1 DEF Returning, Refined, QueryType
<1>6. query' \in QueryType /\ (query'.kind = "DELETE" => query'.assignments = <<>>)
  BY <1>2, <1>3, <1>4, <1>5 DEF Assemble
<1> QED BY <1>1, <1>6

LEMMA AssembleInv == BindInv /\ Assemble => BindInv'
<1> SUFFICES ASSUME BindInv, Assemble PROVE BindInv'
  OBVIOUS
<1>1. /\ query' \in QueryType /\ (query'.kind = "DELETE" => query'.assignments = <<>>)
      /\ pc = "query" /\ UNCHANGED <<pc, index, where, nextArg, args, text>>
  BY AssembleQuery DEF BindInv, TypeOK
<1>2. Idle' /\ pc' = "query"
  BY <1>1 DEF BindInv, AtRest, Idle
<1> QED BY <1>2, IdleAfter

LEMMA RefineInv == BindInv /\ Refine => BindInv'
<1> SUFFICES ASSUME BindInv, Refine PROVE BindInv'
  OBVIOUS
<1>1. Idle' /\ pc' = "query"
  BY DEF Refine, BindInv, TypeOK, Idle
<1> QED BY <1>1, IdleAfter
-----------------------------------------------------------------------------
LEMMA BuildInv == BindInv /\ Build => BindInv'
<1> SUFFICES ASSUME BindInv, Build PROVE BindInv'
  OBVIOUS
<1>1. /\ pc = "query" /\ UNCHANGED <<query, index, where, nextArg, args, text>>
      /\ pc' = IF ~QueryOK THEN "rejected" ELSE IF query.kind = "UPDATE" THEN "set" ELSE "where"
      /\ query \in QueryType /\ (query.kind = "DELETE" => query.assignments = <<>>)
      /\ index = 1 /\ where = <<>> /\ nextArg = 1 /\ args = <<>> /\ text = <<>>
  BY DEF Build, locals, buffers, BindInv, TypeOK, AtRest
<1>2. CASE pc' = "rejected"
  <2>1. Idle'
    BY <1>1 DEF Idle
  <2> QED BY <1>2, <2>1, IdleAfter
<1>3. CASE pc' \in {"set", "where"}
  <2>1. RowsPermitted /\ (pc' = "where" => query.kind # "UPDATE")
    BY <1>1, <1>3 DEF QueryOK
  <2>2. pc' = "where" => query.assignments = <<>>
    BY <1>1, <2>1 DEF QueryType, Kinds
  <2>3. /\ Len(query.assignments) \in Nat /\ Len(query.predicates) \in Nat
        /\ pc' = "where" => Len(query.assignments) = 0
    BY <1>1, <2>2 DEF QueryType
  <2>4. TypeOK' /\ where' \in Seq(Tokens) /\ InPlace' /\ AtRest'
    BY <1>1, <1>3 DEF BindInv, TypeOK, InPlace, AtRest
  <2>5. Covers(query, SlotsIn(text), 0, 0) /\ index - 1 = 0
    BY <1>1, NothingWritten
  <2>6. RowsPermitted'
    BY <1>1, <2>1 DEF RowsPermitted
  <2>7. Covers(query, SlotsIn(text), index - 1, 0)
    BY <2>5
  <2>8. pc' = "where" => Covers(query, SlotsIn(text), Len(query.assignments), index - 1)
    BY <2>3, <2>5
  <2>9. Progress'
    BY <1>1, <1>3, <2>3, <2>5, <2>6, <2>7, <2>8 DEF Progress
  <2> QED BY <2>4, <2>9 DEF BindInv
<1> QED BY <1>1, <1>2, <1>3

\* The numbers and values of one assignment or predicate.
LEMMA SlottedShape ==
  ASSUME NEW clause \in Clauses, index \in Nat,
         NEW values \in Seq(Bindable), NEW n \in Nat \ {0}
  PROVE  /\ Slotted(clause, Consecutive(n, Len(values))) \in Seq(Placed)
         /\ Len(Slotted(clause, Consecutive(n, Len(values)))) = Len(values)
         /\ SlotsIn(Slotted(clause, Consecutive(n, Len(values))))
              = {<<clause, 1, index, p>> : p \in DOMAIN values}
         /\ \A p \in 1 .. Len(values) :
              /\ Slotted(clause, Consecutive(n, Len(values)))[p].slot = <<clause, 1, index, p>>
              /\ Slotted(clause, Consecutive(n, Len(values)))[p].number = n + p - 1
<1>0. Len(values) \in Nat /\ DOMAIN values = 1 .. Len(values)
  OBVIOUS
<1> DEFINE L == Len(values)
<1> HIDE DEF L
<1>1. Slotted(clause, Consecutive(n, L)) = Slotting(clause, 1, index, L, n)
  <2>1. Consecutive(n, L) = [k \in 1 .. L |-> n + k - 1]
    BY DEF Consecutive
  <2>2. /\ DOMAIN Consecutive(n, L) = 1 .. L
        /\ \A p \in 1 .. L : Consecutive(n, L)[p] = n + p - 1
    BY <2>1
  <2> QED BY <2>2 DEF Slotted, Slotting
<1>2. L \in Nat /\ DOMAIN values = 1 .. L
  BY <1>0 DEF L
<1> DEFINE new == Slotting(clause, 1, index, L, n)
<1> HIDE DEF new
<1>3. /\ new \in Seq(SlotPlaceholder(Clauses)) /\ Len(new) = L
      /\ SlotsIn(new) = ItemSlots(clause, 1, index, L)
  <2>1. PICK k \in Nat : k = L
    BY <1>2
  <2>2. Slotting(clause, 1, index, k, n) \in Seq(SlotPlaceholder(Clauses))
    BY SlottingShape
  <2>3. Len(Slotting(clause, 1, index, k, n)) = k
    BY SlottingShape
  <2>4. SlotsIn(Slotting(clause, 1, index, k, n)) = ItemSlots(clause, 1, index, k)
    BY SlottingShape
  <2> QED BY <2>1, <2>2, <2>3, <2>4, Zenon DEF new
<1>6. \A p \in 1 .. L : new[p].slot = <<clause, 1, index, p>> /\ new[p].number = n + p - 1
  BY DEF new, Slotting
<1>4. Slotted(clause, Consecutive(n, L)) = new
  BY <1>1 DEF new
<1>5. Placed = SlotPlaceholder(Clauses)
  BY DEF Placed, PlaceholderType, SlotType, SlotPlaceholder
<1> HIDE DEF new
<1> QED BY <1>2, <1>3, <1>4, <1>5, <1>6, Zenon DEF L, ItemSlots

\* Writing values that are meant at their slots keeps the text in place.
LEMMA WriteInPlace ==
  ASSUME BindInv, NEW clause \in Clauses, NEW values \in Seq(Bindable), NEW next,
         Write(clause, Consecutive(nextArg, Len(values)), values, next),
         next = nextArg + Len(values), query' = query,
         \A p \in 1 .. Len(values) : values[p] = Meant(query, <<clause, 1, index, p>>)
  PROVE  /\ text' \in Seq(PlaceholderType(Clauses)) /\ args' \in Seq(Values \union {Nil})
         /\ nextArg' = Len(args') + 1 /\ InPlace'
         /\ SlotsIn(text') = SlotsIn(text) \union {<<clause, 1, index, p>> : p \in DOMAIN values}
<1> DEFINE added == Slotted(clause, Consecutive(nextArg, Len(values)))
           A == Agreed(query)
<1>1. /\ text \in Seq(Placed) /\ args \in Seq(Bindable) /\ Len(args) \in Nat
      /\ nextArg = Len(args) + 1 /\ nextArg \in Nat \ {0} /\ index \in Nat \ {0}
      /\ Aligned(text, args, A)
  BY DEF BindInv, TypeOK, Placed, Bindable, InPlace
<1>2. text' = text \o added /\ args' = args \o values /\ nextArg' = nextArg + Len(values)
  BY DEF Write
<1>3. /\ added \in Seq(Placed) /\ Len(added) = Len(values) /\ Len(values) \in Nat
      /\ SlotsIn(added) = {<<clause, 1, index, p>> : p \in DOMAIN values}
      /\ \A p \in 1 .. Len(values) :
           added[p].slot = <<clause, 1, index, p>> /\ added[p].number = nextArg + p - 1
  <2>1. index \in Nat /\ nextArg \in Nat \ {0} /\ Len(values) \in Nat
    BY <1>1
  <2> QED BY <2>1, SlottedShape, Zenon
<1> HIDE DEF added
<1>4. ASSUME NEW k \in 1 .. Len(values) PROVE <<Len(args) + k, added[k], values[k]>> \in A
  <2>1. added[k] \in Placed
    BY <1>3
  <2>2. added[k].number = Len(args) + k
    BY <1>1, <1>3
  <2>3. values[k] = Meant(query, added[k].slot)
    BY <1>3
  <2> QED BY <2>1, <2>2, <2>3, Zenon DEF Agreed
<1> HIDE DEF A
<1>5. /\ text \o added \in Seq(Placed) /\ args \o values \in Seq(Bindable)
      /\ Len(args \o values) = Len(args) + Len(values)
      /\ Aligned(text \o added, args \o values, A)
  BY <1>1, <1>3, <1>4, AppendAligned
<1>6. SlotsIn(text \o added) = SlotsIn(text) \union SlotsIn(added)
  BY <1>1, <1>3, AppendSlots
<1>7. InPlace'
  <2>1. Aligned(text', args', A)
    BY <1>2, <1>5
  <2>2. A = Agreed(query')
    BY DEF A
  <2>3. Aligned(text', args', Agreed(query'))
    BY <2>1, <2>2
  <2> QED BY <2>3 DEF InPlace
<1>8. nextArg' = Len(args') + 1
  BY <1>1, <1>2, <1>3, <1>5
<1> QED BY <1>2, <1>3, <1>5, <1>6, <1>7, <1>8 DEF Placed, Bindable

LEMMA OneMoreSet ==
  ASSUME NEW n \in Nat
  PROVE  SetSlots(n + 1) = SetSlots(n) \union {<<"SET", 1, n + 1, p>> : p \in {1}}
<1>1. 1 .. n + 1 = (1 .. n) \union {n + 1}
  OBVIOUS
<1>2. {<<"SET", 1, n + 1, p>> : p \in {1}} = {<<"SET", 1, n + 1, 1>>}
  OBVIOUS
<1> QED BY <1>1, <1>2 DEF SetSlots

LEMMA OneMoreWhere ==
  ASSUME NEW q, NEW n \in Nat
  PROVE  WhereSlots(q, n + 1) =
           WhereSlots(q, n)
             \union {<<"WHERE", 1, n + 1, p>> : p \in DOMAIN ValuesOf[q.predicates[n + 1]]}
<1> DEFINE Part(i) == {<<"WHERE", 1, i, p>> : p \in DOMAIN ValuesOf[q.predicates[i]]}
<1>1. 1 .. n + 1 = (1 .. n) \union {n + 1}
  OBVIOUS
<1>2. \A m : WhereSlots(q, m) = UNION {Part(i) : i \in 1 .. m}
  BY DEF WhereSlots
<1> HIDE DEF Part
<1>3. WhereSlots(q, n + 1) = WhereSlots(q, n) \union Part(n + 1)
  BY <1>1, <1>2
<1> QED BY <1>3 DEF Part
-----------------------------------------------------------------------------
\* The SET part of an UPDATE.
LEMMA SetInv == BindInv /\ RenderSet => BindInv'
<1> SUFFICES ASSUME BindInv, RenderSet PROVE BindInv'
  OBVIOUS
<1> DEFINE list == query.assignments
<1>1. /\ pc = "set" /\ UNCHANGED <<query, where>>
      /\ list \in Seq(AssignmentType) /\ Len(list) \in Nat /\ Len(query.predicates) \in Nat
      /\ index \in Nat \ {0} /\ index - 1 <= Len(list) /\ where = <<>>
      /\ Covers(query, SlotsIn(text), index - 1, 0)
      /\ RowsPermitted /\ TypeOK /\ where \in Seq(Tokens)
  BY DEF RenderSet, BindInv, TypeOK, QueryType, Progress
<1>2. RowsPermitted'
  BY <1>1 DEF RowsPermitted
<1>3. CASE index <= Len(list)
  <2> DEFINE value == list[index].value
             values == <<value>>
  <2>1. /\ Write("SET", <<nextArg>>, values, nextArg + 1)
        /\ index' = index + 1 /\ pc' = "set"
    BY <1>1, <1>3 DEF RenderSet
  <2>2. value \in Bindable
    <3>1. list[index] \in AssignmentType
      BY <1>1, <1>3
    <3> QED BY <3>1 DEF AssignmentType, Bindable
  <2>3. Meant(query, <<"SET", 1, index, 1>>) = value
    BY DEF Meant
  <2>4. nextArg \in Nat /\ index \in Nat
    BY <1>1 DEF TypeOK
  <2> HIDE DEF value
  <2>5. /\ values \in Seq(Bindable) /\ Len(values) = 1 /\ values[1] = value /\ DOMAIN values = {1}
    BY <2>2
  <2>6. <<nextArg>> = Consecutive(nextArg, Len(values))
    <3>1. /\ Consecutive(nextArg, 1) \in Seq(Nat) /\ Len(Consecutive(nextArg, 1)) = 1
          /\ \A i \in 1 .. 1 : Consecutive(nextArg, 1)[i] = nextArg + i - 1
      BY <2>4, ConsecutiveConcat
    <3> DEFINE c == Consecutive(nextArg, 1)
    <3> HIDE DEF c
    <3>2. c \in Seq(Nat) /\ Len(c) = 1 /\ c[1] = nextArg
      <4>1. 1 \in 1 .. 1 /\ nextArg + 1 - 1 = nextArg
        BY <2>4
      <4> QED BY <3>1, <4>1 DEF c
    <3>3. c = <<nextArg>>
      BY <3>2
    <3> QED BY <2>5, <3>3 DEF c
  <2> HIDE DEF values
  <2>7. Write("SET", Consecutive(nextArg, Len(values)), values, nextArg + 1)
    BY <2>1, <2>6
  <2>8. \A p \in 1 .. Len(values) : values[p] = Meant(query, <<"SET", 1, index, p>>)
    <3>1. \A p \in 1 .. Len(values) : p = 1
      BY <2>5
    <3> QED BY <2>3, <2>5, <3>1
  <2>9. /\ text' \in Seq(PlaceholderType(Clauses)) /\ args' \in Seq(Values \union {Nil})
        /\ nextArg' = Len(args') + 1 /\ InPlace'
        /\ SlotsIn(text') = SlotsIn(text) \union {<<"SET", 1, index, p>> : p \in DOMAIN values}
    <3>1. nextArg + 1 = nextArg + Len(values) /\ "SET" \in Clauses /\ query' = query
      BY <1>1, <2>5 DEF Clauses
    <3> QED BY <2>5, <2>7, <2>8, <3>1, WriteInPlace
  <2>10. TypeOK' /\ AtRest' /\ where' \in Seq(Tokens)
    BY <1>1, <2>1, <2>4, <2>9 DEF TypeOK, AtRest
  <2>11. index - 1 \in Nat /\ (index - 1) + 1 = index /\ index' - 1 = index
    BY <1>1, <2>1
  <2>12. SetSlots(index) = SetSlots(index - 1) \union {<<"SET", 1, index, p>> : p \in DOMAIN values}
    BY <2>5, <2>11, OneMoreSet
  <2>13. Covers(query, SlotsIn(text'), index, 0)
    BY <1>1, <2>9, <2>12, Zenon DEF Covers
  <2>14. Covers(query, SlotsIn(text'), index' - 1, 0)
    BY <2>11, <2>13, Zenon
  <2>15. Progress'
    BY <1>1, <1>2, <1>3, <2>1, <2>11, <2>14 DEF Progress
  <2> QED BY <2>9, <2>10, <2>15 DEF BindInv
<1>4. CASE ~(index <= Len(list))
  <2>1. pc' = "where" /\ index' = 1 /\ UNCHANGED <<nextArg, args, text>>
    BY <1>1, <1>4 DEF RenderSet, buffers
  <2>2. TypeOK' /\ AtRest' /\ where' \in Seq(Tokens) /\ InPlace'
    BY <1>1, <2>1 DEF BindInv, TypeOK, AtRest, InPlace
  <2>3. index - 1 = Len(list) /\ index' - 1 = 0
    BY <1>1, <1>4, <2>1
  <2>4. Covers(query, SlotsIn(text), Len(list), index' - 1)
    BY <1>1, <2>3, Zenon
  <2>5. Progress'
    BY <1>1, <1>2, <2>1, <2>3, <2>4 DEF Progress
  <2> QED BY <2>2, <2>5 DEF BindInv
<1> QED BY <1>3, <1>4

\* The WHERE, predicate by predicate.
LEMMA WhereInv == BindInv /\ RenderWhere => BindInv'
<1> SUFFICES ASSUME BindInv, RenderWhere PROVE BindInv'
  OBVIOUS
<1> DEFINE list == query.predicates
           set == Len(query.assignments)
<1>1. /\ pc = "where" /\ UNCHANGED query
      /\ list \in Seq(Trees) /\ Len(list) \in Nat /\ set \in Nat
      /\ index \in Nat \ {0} /\ index - 1 <= Len(list) /\ (where = <<>> => index = 1)
      /\ Covers(query, SlotsIn(text), set, index - 1)
      /\ RowsPermitted /\ TypeOK /\ where \in Seq(Tokens)
  BY DEF RenderWhere, BindInv, TypeOK, QueryType, Progress
<1>2. RowsPermitted'
  BY <1>1 DEF RowsPermitted
<1>3. CASE index <= Len(list)
  <2> DEFINE tree == list[index]
             values == ValuesOf[tree]
             condition == RenderPredicate[tree][nextArg]
             glue == IF index = 1 THEN <<>> ELSE <<Sign("AND")>>
  <2>1. tree \in Trees /\ nextArg \in Nat \ {0}
    BY <1>1, <1>3 DEF TypeOK
  <2>2. /\ where' = where \o glue \o condition.text
        /\ Write("WHERE", Numbers(condition.text), condition.args, condition.next)
        /\ index' = index + 1 /\ pc' = "where"
    BY <1>1, <1>3 DEF RenderWhere, RenderCondition
  <2>3. \A p \in 1 .. Len(values) : values[p] = Meant(query, <<"WHERE", 1, index, p>>)
    BY DEF Meant
  <2>5. DOMAIN ValuesOf[query.predicates[index]] = DOMAIN values
    OBVIOUS
  <2> HIDE DEF tree
  <2>6. Faithful(condition, values, nextArg) /\ condition \in RenderedType
    BY <2>1, RenderingIsFaithful, RenderDefined DEF RendererType
  <2>7. values \in Seq(Values)
    BY <2>1, ValuesOfDefined
  <2> HIDE DEF values, condition
  <2>8. values \in Seq(Bindable) /\ Len(values) \in Nat
    BY <2>7 DEF Bindable
  <2>9. /\ Numbers(condition.text) = Consecutive(nextArg, Len(values))
        /\ condition.args = values /\ condition.next = nextArg + Len(values)
        /\ condition.text # <<>> /\ condition.text \in Seq(Tokens)
    BY <2>6 DEF Faithful, RenderedType
  <2>10. Write("WHERE", Consecutive(nextArg, Len(values)), values, condition.next)
    BY <2>2, <2>9
  <2>11. /\ text' \in Seq(PlaceholderType(Clauses)) /\ args' \in Seq(Values \union {Nil})
         /\ nextArg' = Len(args') + 1 /\ InPlace'
         /\ SlotsIn(text') = SlotsIn(text) \union {<<"WHERE", 1, index, p>> : p \in DOMAIN values}
    <3>1. "WHERE" \in Clauses /\ query' = query
      BY <1>1 DEF Clauses
    <3> QED BY <2>3, <2>8, <2>9, <2>10, <3>1, WriteInPlace
  <2>12. where' \in Seq(Tokens) /\ where' # <<>>
    <3>1. glue \in Seq(Tokens)
      <4>1. Sign("AND") \in Tokens
        BY TokenTypes
      <4> DEFINE and == Sign("AND")
      <4> HIDE DEF and
      <4>2. <<and>> \in Seq(Tokens) /\ <<>> \in Seq(Tokens)
        BY <4>1 DEF and
      <4> QED BY <4>2 DEF and
    <3> HIDE DEF glue
    <3> DEFINE before == where \o glue
               added == condition.text
    <3>2. before \in Seq(Tokens)
      BY <1>1, <3>1
    <3> HIDE DEF before
    <3>3. added \in Seq(Tokens) /\ added # <<>>
      BY <2>9
    <3> HIDE DEF added
    <3>4. before \o added \in Seq(Tokens) /\ before \o added # <<>>
      BY <3>2, <3>3
    <3> QED BY <2>2, <3>4 DEF before, added
  <2>13. TypeOK' /\ AtRest'
    <3>1. Numbers(where') \in Seq(Nat)
      <4>1. Numbered(Tokens)
        BY TokenTypes
      <4> QED BY <2>12, <4>1, NumbersConcat
    <3> QED BY <1>1, <2>2, <2>11, <3>1 DEF TypeOK, AtRest
  <2>14. index - 1 \in Nat /\ (index - 1) + 1 = index /\ index' - 1 = index
    BY <1>1, <2>2
  <2>15. WhereSlots(query, index) =
           WhereSlots(query, index - 1) \union {<<"WHERE", 1, index, p>> : p \in DOMAIN values}
    <3>1. WhereSlots(query, (index - 1) + 1) =
            WhereSlots(query, index - 1)
              \union {<<"WHERE", 1, (index - 1) + 1, p>> :
                        p \in DOMAIN ValuesOf[query.predicates[(index - 1) + 1]]}
      BY <2>14, OneMoreWhere
    <3> QED BY <2>5, <2>14, <3>1
  <2>16. Covers(query, SlotsIn(text'), set, index)
    BY <1>1, <2>11, <2>15, Zenon DEF Covers
  <2>17. Covers(query, SlotsIn(text'), set, index' - 1)
    BY <2>14, <2>16, Zenon
  <2>18. Progress'
    BY <1>1, <1>2, <1>3, <2>2, <2>12, <2>14, <2>17 DEF Progress
  <2> QED BY <2>11, <2>12, <2>13, <2>18 DEF BindInv
<1>4. CASE ~(index <= Len(list))
  <2>1. pc' = "built" /\ index' = 1 /\ UNCHANGED <<where, nextArg, args, text>>
    BY <1>1, <1>4 DEF RenderWhere, buffers
  <2>2. TypeOK' /\ AtRest' /\ where' \in Seq(Tokens) /\ InPlace'
    BY <1>1, <2>1 DEF BindInv, TypeOK, AtRest, InPlace
  <2>3. index - 1 = Len(list)
    BY <1>1, <1>4
  <2>4. Covers(query, SlotsIn(text), set, Len(list))
    BY <1>1, <2>3, Zenon
  <2>5. where = <<>> => list = <<>>
    BY <1>1, <2>3
  <2>6. Progress'
    BY <1>1, <1>2, <2>1, <2>4, <2>5 DEF Progress
  <2> QED BY <2>2, <2>6 DEF BindInv
<1> QED BY <1>3, <1>4

LEMMA StepInv == BindInv /\ [Next]_vars => BindInv'
<1> SUFFICES ASSUME BindInv, [Next]_vars PROVE BindInv'
  OBVIOUS
<1>1. CASE Next
  BY <1>1, AssembleInv, BuildInv, SetInv, WhereInv, RefineInv DEF Next
<1>2. CASE UNCHANGED vars
  <2>1. UNCHANGED <<query, pc, index, where, nextArg, args, text>>
    BY <1>2 DEF vars, locals, buffers
  <2>2. TypeOK' /\ where' \in Seq(Tokens) /\ AtRest' /\ InPlace'
    BY <2>1 DEF BindInv, TypeOK, AtRest, InPlace
  <2>3. Progress'
    BY <2>1 DEF BindInv, Progress, RowsPermitted
  <2> QED BY <2>2, <2>3 DEF BindInv
<1> QED BY <1>1, <1>2

THEOREM Invariance == Spec => []BindInv
BY InitInv, StepInv, PTL DEF Spec

\* The query stays well formed, a DELETE has no assignments, and the counter
\* stays one ahead of the arguments through SET and WHERE.
THEOREM TypeCorrect == Spec => []TypeOK
<1>1. BindInv => TypeOK
  BY DEF BindInv
<1> QED BY <1>1, Invariance, PTL

\* A built UPDATE or DELETE without a WHERE is one whose caller called AllRows:
\* a condition, however deep its tree, is never rendered to nothing.
THEOREM NeverUnrestricted == Spec => []RestrictedAsAsked
<1>1. BindInv => RestrictedAsAsked
  BY DEF BindInv, Progress, RowsPermitted, RestrictedAsAsked
<1> QED BY <1>1, Invariance, PTL
-----------------------------------------------------------------------------
\* No call of the caller's, and no step of Build, takes a condition away.
THEOREM ConditionsAlwaysStay == Spec => ConditionsStay
<1> DEFINE Kept == \A i \in DOMAIN query.predicates :
                     /\ i \in DOMAIN query'.predicates
                     /\ query'.predicates[i] = query.predicates[i]
<1>1. BindInv /\ Next => Kept
  <2> SUFFICES ASSUME BindInv, Next PROVE Kept
    OBVIOUS
  <2>1. query \in QueryType /\ query.predicates \in Seq(Trees)
    BY DEF BindInv, TypeOK, QueryType
  <2>2. ASSUME NEW list \in Assignments, Set(list)
        PROVE  query'.predicates = query.predicates
    BY <2>1, <2>2 DEF Set, Refined, QueryType
  <2>3. ASSUME NEW list \in Conditions, Where(list)
        PROVE  Kept
    <3>1. query'.predicates = query.predicates \o list
      BY <2>1, <2>3 DEF Where, Refined, QueryType
    <3>2. list \in Seq(Trees)
      BY MutationAssumption
    <3>3. /\ DOMAIN (query.predicates \o list) = 1 .. Len(query.predicates) + Len(list)
          /\ \A i \in 1 .. Len(query.predicates) : (query.predicates \o list)[i] = query.predicates[i]
          /\ Len(query.predicates) \in Nat /\ Len(list) \in Nat
          /\ DOMAIN query.predicates = 1 .. Len(query.predicates)
      BY <2>1, <3>2
    <3> QED BY <3>1, <3>3
  <2>4. AllRows => query'.predicates = query.predicates
    BY <2>1 DEF AllRows, Refined, QueryType
  <2>5. ASSUME NEW columns \in Returned, Returning(columns)
        PROVE  query'.predicates = query.predicates
    BY <2>1, <2>5 DEF Returning, Refined, QueryType
  <2>6. CASE Assemble
    BY <2>2, <2>3, <2>4, <2>5, <2>6 DEF Assemble
  <2>7. CASE Build \/ RenderSet \/ RenderWhere \/ Refine
    BY <2>7 DEF Build, RenderSet, RenderWhere, Refine
  <2> QED BY <2>6, <2>7 DEF Next
<1>2. BindInv /\ [Next]_vars => [Kept]_vars
  BY <1>1
<1> QED BY <1>2, Invariance, PTL DEF Spec, ConditionsStay
-----------------------------------------------------------------------------
(***************************************************************************)
(* Refinement of BoundStatement.                                           *)
(***************************************************************************)

\* What is covered once both lists are passed is every slot.
LEMMA AllCovered ==
  ASSUME TypeOK, NEW slots,
         Covers(query, slots, Len(query.assignments), Len(query.predicates))
  PROVE  slots = Slots(query)
<1>1. /\ DOMAIN query.assignments = 1 .. Len(query.assignments)
      /\ DOMAIN query.predicates = 1 .. Len(query.predicates)
  BY DEF TypeOK, QueryType
<1>2. SetSlots(Len(query.assignments)) = {<<"SET", 1, i, 1>> : i \in DOMAIN query.assignments}
  BY <1>1, Zenon DEF SetSlots
<1>3. WhereSlots(query, Len(query.predicates))
        = UNION {{<<"WHERE", 1, i, p>> : p \in DOMAIN ValuesOf[query.predicates[i]]} :
                   i \in DOMAIN query.predicates}
  BY <1>1, Zenon DEF WhereSlots
<1> QED BY <1>2, <1>3, Zenon DEF Covers, Slots

\* A text in its place binds what is wanted, in every dialect.
LEMMA BindsWanted ==
  ASSUME NEW q, NEW d, NEW t, NEW a, SlotsIn(t) = Slots(q),
         \A i \in DOMAIN t : t[i].number = i /\ a[i] = Meant(q, t[i].slot)
  PROVE  BoundSlots(d, t, a) = Wanted(q)
<1>1. \A i \in DOMAIN t : BoundAt(d, t, a, i) = Meant(q, t[i].slot)
  BY DEF BoundAt
<1>2. BoundSlots(d, t, a) = {<<t[i].slot, Meant(q, t[i].slot)>> : i \in DOMAIN t}
  BY <1>1 DEF BoundSlots
<1>3. Wanted(q) = {<<slot, Meant(q, slot)>> : slot \in SlotsIn(t)}
  BY DEF Wanted
<1> QED BY <1>2, <1>3 DEF SlotsIn

\* The steps of BoundStatement, in terms of pc.
LEMMA PendingSteps ==
  ASSUME pc \notin {"built", "rejected"}
  PROVE  /\ pc' \notin {"built", "rejected"} /\ query' = query => UNCHANGED Promise!vars
         /\ pc' = "rejected" /\ query' = query /\ text' = <<>> => Promise!Next
         /\ pc' = "built" /\ query' = query
              /\ BoundSlots(dialect', text', args') = Wanted(query) => Promise!Next
<1>1. text' = <<>> => BoundSlots(dialect', text', args') = {}
  BY DEF BoundSlots
<1> QED
  BY <1>1
     DEF Promise!vars, Promise!Next, Promise!Refuse, Promise!Refused, Promise!Pending,
         Promise!Bind, Promise!Bound, dialect

LEMMA ChangeStep ==
  ASSUME pc' = "query", query' \in QueryType
  PROVE  Promise!Next
BY DEF Promise!Next, Promise!Change, Promise!Pending

LEMMA InitRefines == Init => Promise!Init
BY InitInv DEF Init, BindInv, TypeOK, Promise!Init, Promise!Pending

LEMMA StepRefines ==
  BindInv /\ BindInv' /\ [Next]_vars => [Promise!Next]_(Promise!vars)
<1> SUFFICES ASSUME BindInv, BindInv', [Next]_vars
             PROVE  [Promise!Next]_(Promise!vars)
  OBVIOUS
<1>a. pc' = "rejected" => text' = <<>>
  BY DEF BindInv, AtRest
<1>1. CASE Assemble \/ Refine
  <2>1. pc' = "query"
    BY <1>1 DEF Assemble, Set, Where, AllRows, Returning, Refined, Refine
  <2>2. query' \in QueryType
    BY DEF BindInv, TypeOK
  <2> QED BY <2>1, <2>2, ChangeStep
<1>2. CASE Build
  BY <1>2, <1>a, PendingSteps DEF Build
<1>3. CASE RenderSet
  BY <1>3, <1>a, PendingSteps DEF RenderSet
<1>4. CASE RenderWhere
  <2>1. pc = "where" /\ query' = query /\ pc' \in {"where", "built"}
    BY <1>4 DEF RenderWhere
  <2>2. CASE pc' = "where"
    BY <2>1, <2>2, PendingSteps
  <2>3. CASE pc' = "built"
    <3>1. TypeOK /\ Covers(query, SlotsIn(text'), Len(query.assignments), Len(query.predicates))
      BY <2>1, <2>3 DEF BindInv, Progress
    <3>2. SlotsIn(text') = Slots(query)
      BY <3>1, AllCovered
    <3>3. \A i \in DOMAIN text' : text'[i].number = i /\ args'[i] = Meant(query, text'[i].slot)
      BY <2>1 DEF BindInv, InPlace, Aligned, Agreed
    <3>4. BoundSlots(dialect', text', args') = Wanted(query)
      BY <3>2, <3>3, BindsWanted
    <3> QED BY <2>1, <2>3, <3>4, PendingSteps
  <2> QED BY <2>1, <2>2, <2>3
<1>5. CASE UNCHANGED vars
  BY <1>5 DEF vars, locals, buffers, Promise!vars, dialect
<1> QED BY <1>1, <1>2, <1>3, <1>4, <1>5 DEF Next

\* Build keeps the promise of BoundStatement for every UPDATE and DELETE: it
\* refuses the statement, or every assigned value is bound in SET and every
\* value of every condition in WHERE, once, and nothing else is.
THEOREM Refinement == Spec => KeepsPromise
BY InitRefines, StepRefines, Invariance, PTL DEF Spec, KeepsPromise, Promise!Spec
-----------------------------------------------------------------------------
(***************************************************************************)
(* Reading a text: Opened and Readings are defined for every one.          *)
(***************************************************************************)

\* What a token does to the number of open parentheses.
Turned(token) ==
  CASE token.token = "(" -> 1 [] token.token = ")" -> -1 [] OTHER -> 0

LEMMA OpenedDefined ==
  ASSUME NEW W \in Seq(Tokens)
  PROVE  /\ Opened(W)[0] = 0
         /\ \A k \in 0 .. Len(W) : Opened(W)[k] \in Int
         /\ \A k \in 1 .. Len(W) : Opened(W)[k] = Opened(W)[k - 1] + Turned(W[k])
<1> DEFINE n == Len(W)
           Body(f, k) == IF k = 0 THEN 0 ELSE f[k - 1] + Turned(W[k])
           step == [k \in 1 .. n |-> [v \in Int |-> v + Turned(W[k])]]
           chosen == CHOOSE f : f = [k \in 0 .. n |-> Body(f, k)]
<1>1. n \in Nat
  OBVIOUS
<1>2. \A k \in 1 .. n : Turned(W[k]) \in Int
  BY DEF Turned
<1>3. Opened(W) = chosen
  BY DEF Opened, Turned
<1> HIDE DEF n
<1>4. step \in [1 .. n -> [Int -> Int]] /\ 0 \in Int
  BY <1>2
<1>5. PICK f \in [0 .. n -> Int] : Walks(f, n, 0, step)
  BY <1>1, <1>4, WalkExists
<1>6. f = [k \in 0 .. n |-> Body(f, k)]
  <2>1. f = [k \in 0 .. n |-> IF k = 0 THEN 0 ELSE step[k][f[k - 1]]]
    BY <1>5 DEF Walks
  <2>2. ASSUME NEW k \in 0 .. n PROVE (IF k = 0 THEN 0 ELSE step[k][f[k - 1]]) = Body(f, k)
    <3>1. k # 0 => k \in 1 .. n /\ f[k - 1] \in Int
      BY <1>1
    <3> QED BY <3>1
  <2> QED BY <2>1, <2>2
<1>7. chosen = [k \in 0 .. n |-> Body(chosen, k)]
  BY <1>6, Zenon
<1> HIDE DEF chosen, step
<1>8. \A k \in 0 .. n : chosen[k] = Body(chosen, k)
  BY <1>7
<1>9. \A k \in 0 .. n : chosen[k] \in Int
  <2> DEFINE N == {k \in Nat : k \in 0 .. n => chosen[k] \in Int}
  <2>1. 0 \in N
    BY <1>1, <1>8
  <2>2. ASSUME NEW k \in Nat, k \in N PROVE k + 1 \in N
    <3>1. ASSUME k + 1 \in 0 .. n PROVE chosen[k + 1] \in Int
      <4>1. k \in 0 .. n /\ k + 1 \in 1 .. n /\ k + 1 # 0 /\ (k + 1) - 1 = k
        BY <1>1, <3>1
      <4>2. chosen[k] \in Int
        BY <2>2, <4>1
      <4>3. chosen[k + 1] = chosen[k] + Turned(W[k + 1])
        BY <1>8, <3>1, <4>1
      <4> QED BY <1>2, <4>1, <4>2, <4>3
    <3> QED BY <3>1
  <2> HIDE DEF N
  <2>3. Nat \subseteq N
    BY <2>1, <2>2, NatSetInduction
  <2> QED BY <2>3 DEF N
<1>10. chosen[0] = 0
  BY <1>1, <1>8
<1>11. \A k \in 1 .. n : chosen[k] = chosen[k - 1] + Turned(W[k])
  BY <1>1, <1>8
<1> QED BY <1>3, <1>9, <1>10, <1>11 DEF n

LEMMA GreatestExists ==
  ASSUME NEW n \in Nat, NEW S, S # {}, S \subseteq 0 .. n
  PROVE  Greatest(S) \in S /\ \A y \in S : Greatest(S) >= y
<1> DEFINE M == {n - k : k \in S}
<1>0. S # {} /\ \A k \in S : k \in Nat /\ n - k \in Nat
  BY SMT
<1>1. M # {} /\ M \subseteq Nat
  BY <1>0
<1>2. PICK m \in M : \A l \in M : m <= l
  BY <1>1, SmallestExists, Zenon
<1>3. PICK k \in S : m = n - k
  OBVIOUS
<1>4. \A y \in S : k >= y
  <2>1. \A y \in S : n - k <= n - y
    BY <1>2, <1>3
  <2> QED BY <1>0, <2>1
<1> QED BY <1>4, Zenon DEF Greatest

\* The greatest and the least of two numbers.
LEMMA OfTwo ==
  ASSUME NEW a \in Int, NEW b \in Int
  PROVE  /\ Greatest({a, b}) = IF a >= b THEN a ELSE b
         /\ Least({a, b}) = IF a <= b THEN a ELSE b
<1>1. Greatest({a, b}) \in {a, b} /\ \A y \in {a, b} : Greatest({a, b}) >= y
  <2>1. \E x \in {a, b} : \A y \in {a, b} : x >= y
    OBVIOUS
  <2> QED BY <2>1, Zenon DEF Greatest
<1>2. Least({a, b}) \in {a, b} /\ \A y \in {a, b} : Least({a, b}) <= y
  <2>1. \E x \in {a, b} : \A y \in {a, b} : x <= y
    OBVIOUS
  <2> QED BY <2>1, Zenon DEF Least
<1> QED BY <1>1, <1>2

\* The operators in tokens i to j that are not inside parentheses of theirs.
Exposed(W, symbol, i, j) ==
  {k \in i .. j : W[k].token = symbol /\ Opened(W)[k] = Opened(W)[i - 1]}
Bare(W, i, j) == Exposed(W, "OR", i, j) = {} /\ Exposed(W, "AND", i, j) = {}
Sides(read, i, j, k) == {read[<<i, k - 1>>], read[<<k + 1, j>>]}

IsNot(W, i, j) == Bare(W, i, j) /\ i < j /\ W[i].token = "NOT"
IsGroup(W, i, j) == Bare(W, i, j) /\ i < j /\ W[i].token = "(" /\ W[j].token = ")"
IsComparison(W, i, j) == Bare(W, i, j) /\ i = j /\ W[i].token = "compare"

\* The cases of ReadSpan, when span is what it yields.
Spanned(W, bound, row, read, i, j, span) ==
  /\ Exposed(W, "OR", i, j) # {} =>
       span = Greatest(Sides(read, i, j, Greatest(Exposed(W, "OR", i, j))))
  /\ Exposed(W, "OR", i, j) = {} /\ Exposed(W, "AND", i, j) # {} =>
       span = Least(Sides(read, i, j, Greatest(Exposed(W, "AND", i, j))))
  /\ IsNot(W, i, j) => span = 2 - read[<<i + 1, j>>]
  /\ IsGroup(W, i, j) => span = read[<<i + 1, j - 1>>]
  /\ IsComparison(W, i, j) => span = Truth(row, AtomAt(W, bound, i))
  /\ Bare(W, i, j) /\ ~IsNot(W, i, j) /\ ~IsGroup(W, i, j) /\ ~IsComparison(W, i, j) =>
       span = Unreadable

LEMMA SpanCases ==
  ASSUME NEW W, NEW bound, NEW row, NEW read, NEW i, NEW j
  PROVE  Spanned(W, bound, row, read, i, j, ReadSpan(W, Opened(W), bound, row, read, i, j))
<1> DEFINE span == ReadSpan(W, Opened(W), bound, row, read, i, j)
           ors  == Exposed(W, "OR", i, j)
           ands == Exposed(W, "AND", i, j)
           or == Greatest(Sides(read, i, j, Greatest(ors)))
           and == Least(Sides(read, i, j, Greatest(ands)))
           not == 2 - read[<<i + 1, j>>]
           group == read[<<i + 1, j - 1>>]
           atom == Truth(row, AtomAt(W, bound, i))
           bare == ors = {} /\ ands = {}
           negated == i < j /\ W[i].token = "NOT"
           grouped == i < j /\ W[i].token = "(" /\ W[j].token = ")"
           compared == i = j /\ W[i].token = "compare"
<1>1. span = CASE ors # {} -> or
               [] ors = {} /\ ands # {} -> and
               [] bare /\ negated -> not
               [] bare /\ grouped -> group
               [] bare /\ compared -> atom
               [] OTHER -> Unreadable
  BY DEF ReadSpan, Exposed, Sides
<1>2. Bare(W, i, j) <=> bare
  BY DEF Bare
<1>3. ~(negated /\ grouped) /\ ~(negated /\ compared) /\ ~(grouped /\ compared)
  OBVIOUS
<1> DEFINE some == ors # {}
           any == ands # {}
<1> HIDE DEF span, ors, ands, or, and, not, group, atom, negated, grouped, compared
<1>4. bare <=> ~some /\ ~any
  BY DEF bare
<1>5. span = CASE some -> or
               [] ~some /\ any -> and
               [] bare /\ negated -> not
               [] bare /\ grouped -> group
               [] bare /\ compared -> atom
               [] OTHER -> Unreadable
  BY <1>1
<1> HIDE DEF some, any, bare
<1>6. /\ some => span = or
      /\ ~some /\ any => span = and
      /\ bare /\ negated => span = not
      /\ bare /\ grouped => span = group
      /\ bare /\ compared => span = atom
      /\ bare /\ ~negated /\ ~grouped /\ ~compared => span = Unreadable
  <2>1. some => span = or
    BY <1>4, <1>5
  <2>2. ~some /\ any => span = and
    BY <1>4, <1>5
  <2>3. bare /\ negated => span = not
    BY <1>3, <1>4, <1>5
  <2>4. bare /\ grouped => span = group
    BY <1>3, <1>4, <1>5
  <2>5. bare /\ compared => span = atom
    BY <1>3, <1>4, <1>5
  <2>6. bare /\ ~negated /\ ~grouped /\ ~compared => span = Unreadable
    BY <1>4, <1>5
  <2> QED BY <2>1, <2>2, <2>3, <2>4, <2>5, <2>6
<1>7. /\ IsNot(W, i, j) <=> bare /\ negated
      /\ IsGroup(W, i, j) <=> bare /\ grouped
      /\ IsComparison(W, i, j) <=> bare /\ compared
  BY <1>2 DEF IsNot, IsGroup, IsComparison, negated, grouped, compared
<1> QED BY <1>2, <1>6, <1>7, Zenon
        DEF Spanned, span, ors, ands, or, and, not, group, atom, some, any, bare

\* A row gives comparisons a truth value.
GoodRow(row) == \A atom \in DOMAIN row : row[atom] \in Truths

LEMMA TruthType ==
  ASSUME NEW row, GoodRow(row)
  PROVE  \A atom : Truth(row, atom) \in Truths /\ Truth(row, atom) \in Int
BY DEF GoodRow, Truth, Truths, Unknown

Spans(n) == (1 .. n + 1) \X (0 .. n)

\* The shorter spans a span is read from.
LEMMA ShorterSpans ==
  ASSUME NEW n \in Nat, NEW i \in 1 .. n + 1, NEW j \in 0 .. n
  PROVE  /\ \A k \in i .. j :
              /\ k \in 1 .. n
              /\ <<i, k - 1>> \in Spans(n) /\ (k - 1) - i < j - i
              /\ <<k + 1, j>> \in Spans(n) /\ j - (k + 1) < j - i
         /\ i < j => /\ <<i + 1, j>> \in Spans(n) /\ j - (i + 1) < j - i
                     /\ <<i + 1, j - 1>> \in Spans(n) /\ (j - 1) - (i + 1) < j - i
BY DEF Spans

LEMMA SplitInSpan ==
  ASSUME NEW n \in Nat, NEW i \in 1 .. n + 1, NEW j \in 0 .. n, NEW W, NEW symbol,
         Exposed(W, symbol, i, j) # {}
  PROVE  Greatest(Exposed(W, symbol, i, j)) \in i .. j
<1> DEFINE S == Exposed(W, symbol, i, j)
<1>1. S \subseteq i .. j
  BY DEF Exposed
<1> HIDE DEF S
<1>2. S \subseteq 0 .. n /\ S # {}
  BY <1>1 DEF S
<1>3. Greatest(S) \in S
  BY <1>2, GreatestExists
<1> QED BY <1>1, <1>3 DEF S

LEMMA SpanType ==
  ASSUME NEW n \in Nat, NEW i \in 1 .. n + 1, NEW j \in 0 .. n,
         NEW W, NEW bound, NEW row, GoodRow(row), NEW read \in [Spans(n) -> Int]
  PROVE  ReadSpan(W, Opened(W), bound, row, read, i, j) \in Int
<1> DEFINE span == ReadSpan(W, Opened(W), bound, row, read, i, j)
           ors  == Exposed(W, "OR", i, j)
           ands == Exposed(W, "AND", i, j)
<1>1. ASSUME NEW k \in i .. j PROVE read[<<i, k - 1>>] \in Int /\ read[<<k + 1, j>>] \in Int
  BY ShorterSpans
<1>2. ASSUME NEW k \in i .. j
      PROVE  Greatest(Sides(read, i, j, k)) \in Int /\ Least(Sides(read, i, j, k)) \in Int
  BY <1>1, OfTwo DEF Sides
<1>3. Spanned(W, bound, row, read, i, j, span)
  BY SpanCases
<1> SUFFICES span \in Int
  OBVIOUS
<1> HIDE DEF span
<1>4. CASE ors # {}
  <2>1. span = Greatest(Sides(read, i, j, Greatest(ors)))
    BY <1>3, <1>4 DEF Spanned
  <2>2. Greatest(ors) \in i .. j
    BY <1>4, SplitInSpan
  <2> QED BY <1>2, <2>1, <2>2
<1>5. CASE ors = {} /\ ands # {}
  <2>1. span = Least(Sides(read, i, j, Greatest(ands)))
    BY <1>3, <1>5 DEF Spanned
  <2>2. Greatest(ands) \in i .. j
    BY <1>5, SplitInSpan
  <2> QED BY <1>2, <2>1, <2>2
<1>6. CASE IsNot(W, i, j)
  <2>1. i < j
    BY <1>6 DEF IsNot
  <2>2. read[<<i + 1, j>>] \in Int
    BY <2>1, ShorterSpans
  <2>3. span = 2 - read[<<i + 1, j>>]
    BY <1>3, <1>6 DEF Spanned
  <2> QED BY <2>2, <2>3
<1>7. CASE IsGroup(W, i, j)
  <2>1. i < j
    BY <1>7 DEF IsGroup
  <2>2. read[<<i + 1, j - 1>>] \in Int
    BY <2>1, ShorterSpans
  <2>3. span = read[<<i + 1, j - 1>>]
    BY <1>3, <1>7 DEF Spanned
  <2> QED BY <2>2, <2>3
<1>8. CASE IsComparison(W, i, j)
  BY <1>3, <1>8, TruthType DEF Spanned
<1>9. CASE Bare(W, i, j) /\ ~IsNot(W, i, j) /\ ~IsGroup(W, i, j) /\ ~IsComparison(W, i, j)
  <2>1. span = Unreadable
    BY <1>3, <1>9 DEF Spanned
  <2> QED BY <2>1 DEF Unreadable
<1>10. ors # {} \/ (ors = {} /\ ands # {}) \/ Bare(W, i, j)
  BY DEF Bare
<1> QED BY <1>4, <1>5, <1>6, <1>7, <1>8, <1>9, <1>10

\* Two readings agree on the spans of n tokens that are shorter than i to j.
AgreeBelow(f, g, n, i, j) ==
  \A k \in 1 .. n + 1 : \A l \in 0 .. n : l - k < j - i => f[<<k, l>>] = g[<<k, l>>]

LEMMA SpanAgrees ==
  ASSUME NEW n \in Nat, NEW i \in 1 .. n + 1, NEW j \in 0 .. n,
         NEW W, NEW bound, NEW row, NEW f, NEW g,
         AgreeBelow(f, g, n, i, j)
  PROVE  ReadSpan(W, Opened(W), bound, row, f, i, j) = ReadSpan(W, Opened(W), bound, row, g, i, j)
<1> DEFINE left == ReadSpan(W, Opened(W), bound, row, f, i, j)
           right == ReadSpan(W, Opened(W), bound, row, g, i, j)
           ors  == Exposed(W, "OR", i, j)
           ands == Exposed(W, "AND", i, j)
<1>a. \A k \in 1 .. n + 1 : \A l \in 0 .. n : l - k < j - i => f[<<k, l>>] = g[<<k, l>>]
  BY DEF AgreeBelow
<1>1. ASSUME NEW k \in i .. j PROVE Sides(f, i, j, k) = Sides(g, i, j, k)
  <2>1. f[<<i, k - 1>>] = g[<<i, k - 1>>]
    <3>1. k - 1 \in 0 .. n /\ (k - 1) - i < j - i
      OBVIOUS
    <3> QED BY <1>a, <3>1
  <2>2. f[<<k + 1, j>>] = g[<<k + 1, j>>]
    <3>1. k + 1 \in 1 .. n + 1 /\ j - (k + 1) < j - i
      OBVIOUS
    <3> QED BY <1>a, <3>1
  <2> QED BY <2>1, <2>2 DEF Sides
<1>2. Spanned(W, bound, row, f, i, j, left) /\ Spanned(W, bound, row, g, i, j, right)
  BY SpanCases
<1> SUFFICES left = right
  OBVIOUS
<1> HIDE DEF left, right
<1>3. CASE ors # {}
  <2>1. Greatest(ors) \in i .. j
    BY <1>3, SplitInSpan
  <2> QED BY <1>1, <1>2, <1>3, <2>1 DEF Spanned
<1>4. CASE ors = {} /\ ands # {}
  <2>1. Greatest(ands) \in i .. j
    BY <1>4, SplitInSpan
  <2> QED BY <1>1, <1>2, <1>4, <2>1 DEF Spanned
<1>5. CASE IsNot(W, i, j)
  <2>1. i + 1 \in 1 .. n + 1 /\ j - (i + 1) < j - i
    BY <1>5 DEF IsNot
  <2>2. f[<<i + 1, j>>] = g[<<i + 1, j>>]
    BY <1>a, <2>1
  <2> QED BY <1>2, <1>5, <2>2 DEF Spanned
<1>6. CASE IsGroup(W, i, j)
  <2>1. i + 1 \in 1 .. n + 1 /\ j - 1 \in 0 .. n /\ (j - 1) - (i + 1) < j - i
    BY <1>6 DEF IsGroup
  <2>2. f[<<i + 1, j - 1>>] = g[<<i + 1, j - 1>>]
    BY <1>a, <2>1
  <2> QED BY <1>2, <1>6, <2>2 DEF Spanned
<1>7. CASE IsComparison(W, i, j)
  BY <1>2, <1>7 DEF Spanned
<1>8. CASE Bare(W, i, j) /\ ~IsNot(W, i, j) /\ ~IsGroup(W, i, j) /\ ~IsComparison(W, i, j)
  BY <1>2, <1>8 DEF Spanned
<1>9. ors # {} \/ (ors = {} /\ ands # {}) \/ Bare(W, i, j)
  BY DEF Bare
<1> QED BY <1>3, <1>4, <1>5, <1>6, <1>7, <1>8, <1>9

LEMMA ReadingsDefined ==
  ASSUME NEW W \in Seq(Tokens), NEW bound, NEW row, GoodRow(row)
  PROVE  \A i \in 1 .. Len(W) + 1 : \A j \in 0 .. Len(W) :
           /\ Readings(W, bound, row)[<<i, j>>] \in Int
           /\ Readings(W, bound, row)[<<i, j>>]
                = ReadSpan(W, Opened(W), bound, row, Readings(W, bound, row), i, j)
<1> DEFINE n == Len(W)
           S == Spans(n)
           Body(read, span) == ReadSpan(W, Opened(W), bound, row, read, span[1], span[2])
           rank == [span \in S |-> n + 1 + span[2] - span[1]]
           G == [read \in [S -> Int] |-> [span \in S |-> Body(read, span)]]
           chosen == CHOOSE read : read = [span \in S |-> Body(read, span)]
<1>1. n \in Nat
  OBVIOUS
<1>2. Readings(W, bound, row) = chosen
  BY DEF Readings, Spans
<1> HIDE DEF n
<1>3. ASSUME NEW span \in S
      PROVE  /\ span[1] \in 1 .. n + 1 /\ span[2] \in 0 .. n /\ span = <<span[1], span[2]>>
             /\ rank[span] = n + 1 + span[2] - span[1] /\ rank[span] \in Nat
  <2>1. span[1] \in 1 .. n + 1 /\ span[2] \in 0 .. n /\ span = <<span[1], span[2]>>
    BY DEF Spans
  <2>2. rank[span] = n + 1 + span[2] - span[1]
    OBVIOUS
  <2> QED BY <1>1, <2>1, <2>2
<1>4. ASSUME NEW read \in [S -> Int], NEW span \in S PROVE Body(read, span) \in Int
  BY <1>1, <1>3, SpanType
<1>5. ASSUME NEW f, NEW g, NEW span \in S, \A s \in S : rank[s] < rank[span] => f[s] = g[s]
      PROVE  Body(f, span) = Body(g, span)
  <2> DEFINE i == span[1]
             j == span[2]
  <2>1. i \in 1 .. n + 1 /\ j \in 0 .. n /\ rank[span] = n + 1 + j - i
    BY <1>3
  <2> HIDE DEF i, j
  <2>2. ASSUME NEW k \in 1 .. n + 1, NEW l \in 0 .. n, l - k < j - i
        PROVE  f[<<k, l>>] = g[<<k, l>>]
    <3>1. <<k, l>> \in S
      BY DEF Spans
    <3>2. rank[<<k, l>>] = n + 1 + l - k
      BY <3>1
    <3>3. rank[<<k, l>>] < rank[span]
      BY <1>1, <2>1, <2>2, <3>2
    <3> QED BY <1>5, <3>1, <3>3
  <2>4. AgreeBelow(f, g, n, i, j)
    BY <2>2 DEF AgreeBelow
  <2>3. ReadSpan(W, Opened(W), bound, row, f, i, j) = ReadSpan(W, Opened(W), bound, row, g, i, j)
    BY ONLY <1>1, <2>1, <2>4, SpanAgrees
  <2> QED BY <2>3 DEF i, j
<1>6. rank \in [S -> Nat] /\ Int # {}
  <2>1. \A span \in S : n + 1 + span[2] - span[1] \in Nat
    BY <1>3
  <2> QED BY <2>1
<1> HIDE DEF S, rank, Body
<1>7. PICK read \in [S -> Int] : read = [span \in S |-> Body(read, span)]
  <2>1. G \in [[S -> Int] -> [S -> Int]]
    BY <1>4
  <2>2. \A f \in [S -> Int] : G[f] = [span \in S |-> Body(f, span)]
    OBVIOUS
  <2>3. \A f \in [S -> Int] : \A span \in S : G[f][span] = Body(f, span)
    BY <2>2
  <2> HIDE DEF G
  <2>4. Recursion(G, S, Int, rank)
    <3>1. ASSUME NEW f \in [S -> Int], NEW g \in [S -> Int], NEW span \in S,
                 \A s \in S : rank[s] < rank[span] => f[s] = g[s]
          PROVE  G[f][span] = G[g][span]
      <4>1. Body(f, span) = Body(g, span)
        BY <1>5, <3>1
      <4> QED BY <2>3, <4>1
    <3> QED BY <1>6, <2>1, <3>1 DEF Recursion
  <2>5. Defines(G, S, Int)
    BY <2>4, RecursionExists
  <2> QED BY <2>2, <2>5 DEF Defines
<1>8. chosen = [span \in S |-> Body(chosen, span)]
  BY <1>7, Zenon
<1> HIDE DEF chosen
<1>9. \A span \in S : chosen[span] = read[span]
  <2> DEFINE P == {span \in S : chosen[span] = read[span]}
  <2>1. ASSUME NEW span \in S, \A s \in S : rank[s] < rank[span] => s \in P
        PROVE  span \in P
    <3>1. Body(chosen, span) = Body(read, span)
      BY <1>5, <2>1
    <3> QED BY <1>7, <1>8, <3>1
  <2> HIDE DEF P
  <2>2. S \subseteq P
    BY <1>6, <2>1, RankInduction
  <2> QED BY <2>2 DEF P
<1>10. ASSUME NEW i \in 1 .. n + 1, NEW j \in 0 .. n
       PROVE  /\ chosen[<<i, j>>] \in Int
              /\ chosen[<<i, j>>] = ReadSpan(W, Opened(W), bound, row, chosen, i, j)
  <2>1. <<i, j>> \in S
    BY DEF S, Spans
  <2>2. chosen[<<i, j>>] = Body(chosen, <<i, j>>)
    BY <1>8, <2>1
  <2> QED BY <1>7, <1>9, <2>1, <2>2 DEF Body
<1> QED BY <1>2, <1>10 DEF n

(***************************************************************************)
(* Reading what is put together from texts that have a reading.            *)
(***************************************************************************)
\* Tokens i + 1 to j close what they open, have no AND or OR outside
\* parentheses of their own other than op, and read as m.
Chained(W, bound, row, i, j, op, m) ==
  /\ i \in 0 .. Len(W) /\ j \in 0 .. Len(W) /\ i < j
  /\ Opened(W)[j] = Opened(W)[i]
  /\ \A k \in i + 1 .. j :
       /\ Opened(W)[k] >= Opened(W)[i]
       /\ W[k].token \in {"AND", "OR"} /\ Opened(W)[k] = Opened(W)[i] => W[k].token = op
  /\ Readings(W, bound, row)[<<i + 1, j>>] = m
Reads(W, bound, row, i, j, m) == Chained(W, bound, row, i, j, "", m)

Combined(op, S) == IF op = "AND" THEN Least(S) ELSE Greatest(S)

LEMMA ReadsChained ==
  ASSUME NEW W, NEW bound, NEW row, NEW i, NEW j, NEW m, NEW op, Reads(W, bound, row, i, j, m)
  PROVE  Chained(W, bound, row, i, j, op, m)
BY DEF Reads, Chained

\* The parentheses and readings of a text.
LEMMA TextFacts ==
  ASSUME NEW W \in Seq(Tokens), NEW bound, NEW row, GoodRow(row)
  PROVE  /\ Len(W) \in Nat
         /\ \A k \in 0 .. Len(W) : Opened(W)[k] \in Int
         /\ \A k \in 1 .. Len(W) : Opened(W)[k] = Opened(W)[k - 1] + Turned(W[k])
         /\ \A i \in 1 .. Len(W) + 1 : \A j \in 0 .. Len(W) :
              /\ Readings(W, bound, row)[<<i, j>>] \in Int
              /\ Spanned(W, bound, row, Readings(W, bound, row), i, j, Readings(W, bound, row)[<<i, j>>])
<1>1. ASSUME NEW i \in 1 .. Len(W) + 1, NEW j \in 0 .. Len(W)
      PROVE  /\ Readings(W, bound, row)[<<i, j>>] \in Int
             /\ Spanned(W, bound, row, Readings(W, bound, row), i, j, Readings(W, bound, row)[<<i, j>>])
  <2> DEFINE read == Readings(W, bound, row)
  <2>1. read[<<i, j>>] \in Int /\ read[<<i, j>>] = ReadSpan(W, Opened(W), bound, row, read, i, j)
    BY ReadingsDefined
  <2> HIDE DEF read
  <2>2. Spanned(W, bound, row, read, i, j, ReadSpan(W, Opened(W), bound, row, read, i, j))
    BY SpanCases
  <2>3. Spanned(W, bound, row, read, i, j, read[<<i, j>>])
    BY <2>1, <2>2
  <2> QED BY <2>1, <2>3 DEF read
<1>2. Len(W) \in Nat
  OBVIOUS
<1> QED BY <1>1, <1>2, OpenedDefined

\* The shape of a span: where it begins and ends and what is between.
Shape(W, i, j) ==
  /\ i \in Nat /\ j \in Nat /\ i < j /\ j <= Len(W) /\ Len(W) \in Nat
  /\ Opened(W)[i] \in Int /\ Opened(W)[j] = Opened(W)[i]
  /\ \A k \in i + 1 .. j : k \in 1 .. Len(W) /\ Opened(W)[k] \in Int

LEMMA ChainShape ==
  ASSUME NEW W \in Seq(Tokens), NEW bound, NEW row, GoodRow(row), NEW i, NEW j, NEW op, NEW m,
         Chained(W, bound, row, i, j, op, m)
  PROVE  Shape(W, i, j)
<1>1. i \in 0 .. Len(W) /\ j \in 0 .. Len(W) /\ i < j /\ Opened(W)[j] = Opened(W)[i]
  BY DEF Chained
<1>2. Len(W) \in Nat /\ \A k \in 0 .. Len(W) : Opened(W)[k] \in Int
  BY TextFacts
<1>3. \A k \in i + 1 .. j : k \in 1 .. Len(W) /\ k \in 0 .. Len(W)
  BY <1>1, <1>2
<1> QED BY <1>1, <1>2, <1>3 DEF Shape

LEMMA ComparisonReads ==
  ASSUME NEW W \in Seq(Tokens), NEW bound, NEW row, GoodRow(row),
         NEW i \in 1 .. Len(W), W[i].token = "compare"
  PROVE  Reads(W, bound, row, i - 1, i, Truth(row, AtomAt(W, bound, i)))
<1> DEFINE O == Opened(W)
           value == Readings(W, bound, row)[<<i, i>>]
           n == Len(W)
<1>1. /\ n \in Nat /\ i - 1 \in 0 .. n /\ i \in 0 .. n /\ i - 1 < i /\ (i - 1) + 1 = i
      /\ i \in 1 .. n + 1
  OBVIOUS
<1>2. O[i] = O[i - 1] /\ O[i - 1] \in Int
  <2>1. Turned(W[i]) = 0
    BY DEF Turned
  <2>2. O[i] = O[i - 1] + Turned(W[i]) /\ O[i - 1] \in Int
    BY <1>1, TextFacts
  <2> HIDE DEF O
  <2> QED BY <2>1, <2>2
<1>3. Bare(W, i, i)
  <2>1. \A k \in i .. i : k = i
    OBVIOUS
  <2> QED BY <2>1 DEF Bare, Exposed
<1>4. value = Truth(row, AtomAt(W, bound, i))
  <2>1. IsComparison(W, i, i)
    BY <1>3 DEF IsComparison
  <2>2. Spanned(W, bound, row, Readings(W, bound, row), i, i, value)
    BY <1>1, TextFacts
  <2> QED BY <2>1, <2>2 DEF Spanned
<1>5. \A k \in i .. i : O[k] >= O[i - 1] /\ ~(W[k].token \in {"AND", "OR"})
  <2>1. \A k \in i .. i : k = i
    OBVIOUS
  <2> HIDE DEF O
  <2> QED BY <1>2, <2>1
<1> QED BY <1>1, <1>2, <1>4, <1>5 DEF Reads, Chained

LEMMA GroupReads ==
  ASSUME NEW W \in Seq(Tokens), NEW bound, NEW row, GoodRow(row),
         NEW i, NEW j, NEW op, NEW m, Chained(W, bound, row, i, j, op, m),
         i >= 1, j + 1 <= Len(W), W[i].token = "(", W[j + 1].token = ")"
  PROVE  Reads(W, bound, row, i - 1, j + 1, m)
<1> DEFINE O == Opened(W)
           n == Len(W)
           value == Readings(W, bound, row)[<<i, j + 1>>]
<1>0. Shape(W, i, j)
  BY ChainShape, Zenon
<1>1. /\ i \in Nat /\ j \in Nat /\ i < j /\ n \in Nat
      /\ i - 1 \in 0 .. n /\ j + 1 \in 0 .. n /\ i - 1 < j + 1 /\ (i - 1) + 1 = i
      /\ i \in 1 .. n /\ j + 1 \in 1 .. n /\ i \in 1 .. n + 1 /\ i < j + 1 /\ (j + 1) - 1 = j
  BY SMTT(30), <1>0 DEF Shape
<1>2. O[i] = O[i - 1] + 1 /\ O[j] = O[i] /\ O[j + 1] = O[j] - 1 /\ O[i - 1] \in Int
  <2>1. Turned(W[i]) = 1 /\ Turned(W[j + 1]) = -1
    BY DEF Turned
  <2>2. O[i] = O[i - 1] + Turned(W[i]) /\ O[i - 1] \in Int
    BY <1>1, TextFacts
  <2>3. O[j + 1] = O[(j + 1) - 1] + Turned(W[j + 1])
    BY <1>1, TextFacts
  <2>4. O[j] = O[i]
    BY <1>0 DEF Shape
  <2> HIDE DEF O
  <2> QED BY <1>1, <2>1, <2>2, <2>3, <2>4
<1>3. \A k \in i + 1 .. j : O[k] >= O[i] /\ O[k] \in Int
  BY <1>0 DEF Chained, Shape
<1>4. ASSUME NEW k \in i .. j + 1
      PROVE  O[k] >= O[i - 1] /\ (W[k].token \in {"AND", "OR"} => O[k] > O[i - 1])
  <2>1. CASE k = i
    BY <1>2, <2>1
  <2>2. CASE k \in i + 1 .. j
    BY <1>2, <1>3, <2>2
  <2>3. CASE k = j + 1
    BY <1>2, <2>3
  <2>4. k = i \/ k \in i + 1 .. j \/ k = j + 1
    BY <1>1
  <2> HIDE DEF O
  <2> QED BY <2>1, <2>2, <2>3, <2>4
<1>5. Bare(W, i, j + 1)
  <2>1. \A k \in i .. j + 1 : W[k].token \in {"AND", "OR"} => O[k] # O[i - 1]
    BY <1>2, <1>4
  <2> QED BY <2>1 DEF Bare, Exposed
<1>6. value = m
  <2>1. IsGroup(W, i, j + 1)
    BY <1>1, <1>5 DEF IsGroup
  <2>2. Spanned(W, bound, row, Readings(W, bound, row), i, j + 1, value)
    BY <1>1, TextFacts
  <2>3. value = Readings(W, bound, row)[<<i + 1, (j + 1) - 1>>]
    BY <2>1, <2>2 DEF Spanned
  <2> QED BY <1>1, <2>3 DEF Chained
<1>7. O[j + 1] = O[i - 1]
  BY <1>2
<1>8. \A k \in i .. j + 1 :
        O[k] >= O[i - 1] /\ (W[k].token \in {"AND", "OR"} /\ O[k] = O[i - 1] => W[k].token = "")
  <2> HIDE DEF O
  <2>1. \A k \in i .. j + 1 : W[k].token \in {"AND", "OR"} => O[k] # O[i - 1]
    BY <1>2, <1>4
  <2> QED BY <1>4, <2>1
<1> QED BY <1>1, <1>6, <1>7, <1>8 DEF Reads, Chained

LEMMA NotReads ==
  ASSUME NEW W \in Seq(Tokens), NEW bound, NEW row, GoodRow(row),
         NEW i, NEW j, NEW m, Reads(W, bound, row, i, j, m),
         i >= 1, W[i].token = "NOT"
  PROVE  Reads(W, bound, row, i - 1, j, 2 - m)
<1> DEFINE O == Opened(W)
           n == Len(W)
           value == Readings(W, bound, row)[<<i, j>>]
<1>0. Chained(W, bound, row, i, j, "", m)
  BY DEF Reads
<1>a. Shape(W, i, j)
  BY <1>0, ChainShape, Zenon
<1>1. /\ i \in Nat /\ j \in Nat /\ i < j /\ n \in Nat
      /\ i - 1 \in 0 .. n /\ j \in 0 .. n /\ i - 1 < j /\ (i - 1) + 1 = i
      /\ i \in 1 .. n /\ i \in 1 .. n + 1
  BY <1>a DEF Shape
<1>2. O[i] = O[i - 1] /\ O[j] = O[i] /\ O[i - 1] \in Int
  <2>1. Turned(W[i]) = 0
    BY DEF Turned
  <2>2. O[i] = O[i - 1] + Turned(W[i]) /\ O[i - 1] \in Int
    BY <1>1, TextFacts
  <2>3. O[j] = O[i]
    BY <1>a DEF Shape
  <2> HIDE DEF O
  <2> QED BY <2>1, <2>2, <2>3
<1>3. \A k \in i + 1 .. j : O[k] >= O[i] /\ (W[k].token \in {"AND", "OR"} /\ O[k] = O[i] => W[k].token = "")
  BY <1>0 DEF Chained
<1>4. ASSUME NEW k \in i .. j
      PROVE  O[k] >= O[i - 1] /\ (W[k].token \in {"AND", "OR"} => O[k] # O[i - 1])
  <2>1. CASE k = i
    BY <1>2, <2>1
  <2>2. CASE k \in i + 1 .. j
    BY <1>2, <1>3, <2>2
  <2>3. k = i \/ k \in i + 1 .. j
    BY <1>1
  <2> HIDE DEF O
  <2> QED BY <2>1, <2>2, <2>3
<1>5. Bare(W, i, j)
  BY <1>4 DEF Bare, Exposed
<1>6. value = 2 - m
  <2>1. IsNot(W, i, j)
    BY <1>1, <1>5 DEF IsNot
  <2>2. Spanned(W, bound, row, Readings(W, bound, row), i, j, value)
    BY <1>1, TextFacts
  <2>3. value = 2 - Readings(W, bound, row)[<<i + 1, j>>]
    BY <2>1, <2>2 DEF Spanned
  <2> QED BY <1>0, <2>3 DEF Chained
<1>7. O[j] = O[i - 1]
  BY <1>2
<1>8. \A k \in i .. j :
        O[k] >= O[i - 1] /\ (W[k].token \in {"AND", "OR"} /\ O[k] = O[i - 1] => W[k].token = "")
  BY <1>4
<1> QED BY <1>1, <1>6, <1>7, <1>8 DEF Reads, Chained

\* One more part of an AND or OR: the last operator of it is where the
\* database splits it.
LEMMA ChainGrows ==
  ASSUME NEW W \in Seq(Tokens), NEW bound, NEW row, GoodRow(row), NEW op \in {"AND", "OR"},
         NEW i, NEW j, NEW a, Chained(W, bound, row, i, j, op, a),
         NEW l, NEW b, Reads(W, bound, row, j + 1, l, b), W[j + 1].token = op
  PROVE  Chained(W, bound, row, i, l, op, Combined(op, {a, b}))
<1> DEFINE O == Opened(W)
           n == Len(W)
           read == Readings(W, bound, row)
           value == read[<<i + 1, l>>]
<1>0. Chained(W, bound, row, j + 1, l, "", b) /\ Shape(W, i, j) /\ Shape(W, j + 1, l)
  BY ChainShape, Zenon DEF Reads
<1>1. /\ i \in Nat /\ j \in Nat /\ i < j /\ n \in Nat
      /\ l \in Nat /\ j + 1 < l /\ l <= n
  BY <1>0 DEF Shape
<1>2. /\ i \in 0 .. n /\ l \in 0 .. n /\ i < l /\ i + 1 \in 1 .. n + 1 /\ j + 1 \in 1 .. n
      /\ (i + 1) - 1 = i /\ (j + 1) - 1 = j /\ j + 1 \in i + 1 .. l
  BY <1>1
<1>3. O[j] = O[i] /\ O[j + 1] = O[i] /\ O[l] = O[i] /\ O[i] \in Int
  <2>1. Turned(W[j + 1]) = 0
    BY DEF Turned
  <2>2. O[j + 1] = O[(j + 1) - 1] + Turned(W[j + 1])
    BY <1>2, TextFacts
  <2>3. O[j] = O[i] /\ O[i] \in Int /\ O[l] = O[j + 1]
    BY <1>0 DEF Shape
  <2> HIDE DEF O
  <2> QED BY <1>2, <2>1, <2>2, <2>3
<1>4. \A k \in i + 1 .. j :
        O[k] >= O[i] /\ (W[k].token \in {"AND", "OR"} /\ O[k] = O[i] => W[k].token = op)
  BY DEF Chained
<1>5. \A k \in j + 2 .. l :
        O[k] >= O[i] /\ (W[k].token \in {"AND", "OR"} => O[k] # O[i])
  <2>1. \A k \in (j + 1) + 1 .. l :
          O[k] >= O[j + 1] /\ (W[k].token \in {"AND", "OR"} /\ O[k] = O[j + 1] => W[k].token = "")
    BY <1>0 DEF Chained
  <2>2. (j + 1) + 1 = j + 2
    BY <1>1
  <2> HIDE DEF O
  <2> QED BY <1>3, <2>1, <2>2
<1>6. \A k \in i + 1 .. l : k \in i + 1 .. j \/ k = j + 1 \/ k \in j + 2 .. l
  BY <1>1
<1> HIDE DEF O
<1>7. \A k \in i + 1 .. l :
        O[k] >= O[i] /\ (W[k].token \in {"AND", "OR"} /\ O[k] = O[i] => W[k].token = op)
  BY <1>3, <1>4, <1>5, <1>6
<1> DEFINE splits == Exposed(W, op, i + 1, l)
<1>8. splits = {k \in i + 1 .. l : W[k].token = op /\ O[k] = O[i]}
  BY <1>2 DEF Exposed, O
<1>9. j + 1 \in splits /\ \A k \in splits : j + 1 >= k
  <2>1. j + 1 \in splits
    BY <1>2, <1>3, <1>8
  <2>2. ASSUME NEW k \in splits PROVE j + 1 >= k
    <3>1. k \in i + 1 .. l /\ W[k].token \in {"AND", "OR"} /\ O[k] = O[i]
      BY <1>8
    <3>2. k \notin j + 2 .. l
      BY <1>5, <3>1
    <3> HIDE DEF splits
    <3> QED BY <1>1, <3>1, <3>2
  <2> HIDE DEF splits
  <2> QED BY <2>1, <2>2
<1>10. Greatest(splits) = j + 1
  <2>1. splits \subseteq 0 .. n /\ splits # {}
    BY <1>1, <1>8, <1>9
  <2> HIDE DEF splits
  <2>2. Greatest(splits) \in splits /\ Greatest(splits) >= j + 1
    BY <1>1, <1>9, <2>1, GreatestExists
  <2>3. j + 1 >= Greatest(splits)
    BY <1>9, <2>2
  <2>4. Greatest(splits) \in Nat
    <3>1. Greatest(splits) \in 0 .. n
      BY <2>1, <2>2, Zenon
    <3> QED BY <3>1
  <2> QED BY <1>1, <2>2, <2>3, <2>4
<1>11. op = "AND" => Exposed(W, "OR", i + 1, l) = {}
  BY <1>2, <1>7 DEF Exposed, O
<1>12. Spanned(W, bound, row, read, i + 1, l, value)
  BY <1>2, TextFacts
<1>13. Sides(read, i + 1, l, j + 1) = {a, b}
  <2>1. read[<<i + 1, j>>] = a
    BY DEF Chained
  <2>2. read[<<(j + 1) + 1, l>>] = b
    BY <1>0 DEF Chained
  <2> HIDE DEF read
  <2> QED BY <1>2, <2>1, <2>2 DEF Sides
<1>14. splits # {}
  BY <1>9
<1> HIDE DEF read, value, splits
<1>15. value = Combined(op, {a, b})
  <2>1. CASE op = "OR"
    <3>1. value = Greatest(Sides(read, i + 1, l, Greatest(splits)))
      BY <1>12, <1>14, <2>1 DEF Spanned, splits
    <3> QED BY <1>10, <1>13, <2>1, <3>1 DEF Combined
  <2>2. CASE op = "AND"
    <3>1. value = Least(Sides(read, i + 1, l, Greatest(splits)))
      BY <1>11, <1>12, <1>14, <2>2 DEF Spanned, splits
    <3> QED BY <1>10, <1>13, <2>2, <3>1 DEF Combined
  <2> QED BY <2>1, <2>2
<1> QED BY <1>2, <1>3, <1>7, <1>15 DEF Chained, value, read, O

(***************************************************************************)
(* What a tree means.                                                      *)
(***************************************************************************)
LEMMA ExtremeTruths ==
  ASSUME NEW S, S # {}, S \subseteq Truths
  PROVE  /\ Least(S) \in S /\ \A y \in S : Least(S) <= y
         /\ Greatest(S) \in S /\ \A y \in S : Greatest(S) >= y
<1>1. \A y \in S : y = 0 \/ y = 1 \/ y = 2
  BY DEF Truths
<1>2. \E x \in S : \A y \in S : x <= y
  <2>1. CASE 0 \in S
    BY <1>1, <2>1
  <2>2. CASE 0 \notin S /\ 1 \in S
    BY <1>1, <2>2
  <2>3. CASE 0 \notin S /\ 1 \notin S
    BY <1>1, <2>3
  <2> QED BY <2>1, <2>2, <2>3
<1>3. \E x \in S : \A y \in S : x >= y
  <2>1. CASE 2 \in S
    BY <1>1, <2>1
  <2>2. CASE 2 \notin S /\ 1 \in S
    BY <1>1, <2>2
  <2>3. CASE 2 \notin S /\ 1 \notin S
    BY <1>1, <2>3
  <2> QED BY <2>1, <2>2, <2>3
<1>4. Least(S) \in S /\ \A y \in S : Least(S) <= y
  BY <1>2, Zenon DEF Least
<1>5. Greatest(S) \in S /\ \A y \in S : Greatest(S) >= y
  BY <1>3, Zenon DEF Greatest
<1> QED BY <1>4, <1>5

Both(op, a, b) == Combined(op, {a, b})
More(S, b) == S \union {b}

SomeTruths(S) == S # {} /\ S \subseteq Truths

LEMMA CombinedTruths ==
  ASSUME NEW op, NEW S, SomeTruths(S), NEW b \in Truths
  PROVE  /\ Combined(op, S) \in Truths
         /\ Both(op, Combined(op, S), b) = Combined(op, More(S, b))
<1> DEFINE low == Least(S)
           high == Greatest(S)
           more == S \union {b}
<1>1. /\ low \in Truths /\ low \in S /\ \A y \in S : low <= y
      /\ high \in Truths /\ high \in S /\ \A y \in S : high >= y
  BY ExtremeTruths DEF SomeTruths
<1>2. more # {} /\ more \subseteq Truths
  BY DEF SomeTruths
<1>3. /\ Least(more) \in more /\ \A y \in more : Least(more) <= y
      /\ Greatest(more) \in more /\ \A y \in more : Greatest(more) >= y
  <2> HIDE DEF more
  <2> QED BY <1>2, ExtremeTruths
<1>4. \A y \in Truths : y \in Int
  BY DEF Truths
<1> HIDE DEF low, high, more
<1>6. /\ Least({low, b}) = IF low <= b THEN low ELSE b
      /\ Greatest({high, b}) = IF high >= b THEN high ELSE b
  BY <1>1, <1>4, OfTwo
<1>7. /\ Least(more) \in Int /\ Greatest(more) \in Int /\ low \in Int /\ high \in Int /\ b \in Int
      /\ low \in more /\ high \in more /\ b \in more
      /\ (Least(more) = b \/ Least(more) \in S)
      /\ (Greatest(more) = b \/ Greatest(more) \in S)
  BY <1>1, <1>2, <1>3, <1>4 DEF more
<1>8. Least(more) <= low /\ Least(more) <= b /\ (Least(more) = b \/ low <= Least(more))
  BY <1>1, <1>3, <1>7
<1>9. Greatest(more) >= high /\ Greatest(more) >= b /\ (Greatest(more) = b \/ high >= Greatest(more))
  BY <1>1, <1>3, <1>7
<1>10. Least({low, b}) = Least(more)
  BY <1>6, <1>7, <1>8
<1>11. Greatest({high, b}) = Greatest(more)
  BY <1>6, <1>7, <1>9
<1> QED BY <1>1, <1>10, <1>11 DEF Both, More, Combined, low, high, more

LEMMA CombinedOne ==
  ASSUME NEW op, NEW b \in Truths
  PROVE  Combined(op, {b}) = b
<1>1. Least({b}) = b /\ Greatest({b}) = b
  <2>1. {b} # {} /\ {b} \subseteq Truths
    OBVIOUS
  <2>2. Least({b}) \in {b} /\ Greatest({b}) \in {b}
    BY <2>1, ExtremeTruths
  <2> QED BY <2>2
<1> QED BY <1>1 DEF Combined

\* What a node's children mean, when f is what trees mean.
Underneath(f, t) == {f[t.children[i]] : i \in DOMAIN t.children}
MeaningBy(f, t, row) ==
  CASE t.kind = "leaf" -> Truth(row, Atom(t.op, t.columns, t.values))
    [] t.kind = "AND"  -> Least(Underneath(f, t))
    [] t.kind = "OR"   -> Greatest(Underneath(f, t))
    [] t.kind = "NOT"  -> 2 - f[t.children[1]]

LEMMA MeaningByCases ==
  ASSUME NEW f, NEW t, NEW row
  PROVE  /\ t.kind = "leaf" => MeaningBy(f, t, row) = Truth(row, Atom(t.op, t.columns, t.values))
         /\ t.kind \in {"AND", "OR"} => MeaningBy(f, t, row) = Combined(t.kind, Underneath(f, t))
         /\ t.kind = "NOT" => MeaningBy(f, t, row) = 2 - f[t.children[1]]
<1> DEFINE leaf == Truth(row, Atom(t.op, t.columns, t.values))
           least == Least(Underneath(f, t))
           greatest == Greatest(Underneath(f, t))
           not == 2 - f[t.children[1]]
<1>1. MeaningBy(f, t, row) = CASE t.kind = "leaf" -> leaf
                               [] t.kind = "AND"  -> least
                               [] t.kind = "OR"   -> greatest
                               [] t.kind = "NOT"  -> not
  BY DEF MeaningBy
<1> HIDE DEF leaf, least, greatest, not
<1>2. t.kind = "leaf" => MeaningBy(f, t, row) = leaf
  BY <1>1
<1>3. t.kind = "AND" => MeaningBy(f, t, row) = least
  BY <1>1
<1>4. t.kind = "OR" => MeaningBy(f, t, row) = greatest
  BY <1>1
<1>5. t.kind = "NOT" => MeaningBy(f, t, row) = not
  BY <1>1
<1>6. t.kind = "AND" => Combined(t.kind, Underneath(f, t)) = least
  BY DEF Combined, least
<1>7. t.kind = "OR" => Combined(t.kind, Underneath(f, t)) = greatest
  BY DEF Combined, greatest
<1> QED BY <1>2, <1>3, <1>4, <1>5, <1>6, <1>7 DEF leaf, not

\* Inner nodes have children.
LEMMA SomeChild ==
  ASSUME NEW t \in Trees, t.kind # "leaf"
  PROVE  /\ DOMAIN t.children = 1 .. Len(t.children) /\ Len(t.children) \in Nat
         /\ 1 \in DOMAIN t.children
         /\ \A i \in DOMAIN t.children :
              t.children[i] \in Trees /\ Height[t.children[i]] < Height[t]
<1>1. t.children \in Seq(Trees) /\ t.children # <<>>
  BY MutationAssumption DEF TreesOK
<1> DEFINE s == t.children
<1> HIDE DEF s
<1>2. s \in Seq(Trees) /\ s # <<>>
  BY <1>1 DEF s
<1>3. Len(s) \in Nat /\ Len(s) # 0 /\ DOMAIN s = 1 .. Len(s)
  BY <1>2
<1>4. 1 \in DOMAIN s
  BY <1>3
<1> QED BY <1>3, <1>4, TreeFacts DEF s

LEMMA MeaningDefined ==
  ASSUME NEW row, GoodRow(row)
  PROVE  LET means == [t \in Trees |-> Meaning(t, row)]
         IN /\ means \in [Trees -> Truths]
            /\ \A t \in Trees : Meaning(t, row) = MeaningBy(means, t, row)
<1> DEFINE V == Truths
           Body(f, t) == MeaningBy(f, t, row)
           G == [f \in [Trees -> V] |-> [t \in Trees |-> Body(f, t)]]
           chosen == CHOOSE f : f = [t \in Trees |-> Body(f, t)]
<1>1. V # {} /\ Height \in [Trees -> Nat]
  BY TreeFacts DEF Truths
<1>2. ASSUME NEW f \in [Trees -> V], NEW t \in Trees PROVE Body(f, t) \in V
  <2>1. CASE t.kind = "leaf"
    BY <2>1, MeaningByCases, TruthType
  <2>2. CASE t.kind # "leaf"
    <3> DEFINE S == Underneath(f, t)
    <3>1. f[t.children[1]] \in Truths /\ f[t.children[1]] \in S /\ S \subseteq Truths
      BY <2>2, SomeChild DEF Underneath
    <3> HIDE DEF S
    <3>2. Combined(t.kind, S) \in Truths
      BY <3>1, CombinedTruths DEF SomeTruths
    <3>3. 2 - f[t.children[1]] \in Truths
      BY <3>1 DEF Truths
    <3>4. t.kind \in {"AND", "OR"} \/ t.kind = "NOT"
      BY <2>2, TreeFacts
    <3> QED BY <3>2, <3>3, <3>4, MeaningByCases DEF S
  <2> QED BY <2>1, <2>2
<1>3. ASSUME NEW f, NEW g, NEW t \in Trees,
             \A s \in Trees : Height[s] < Height[t] => f[s] = g[s]
      PROVE  Body(f, t) = Body(g, t)
  <2>1. CASE t.kind = "leaf"
    BY <2>1, MeaningByCases
  <2>2. CASE t.kind # "leaf"
    <3>1. \A i \in DOMAIN t.children : f[t.children[i]] = g[t.children[i]]
      BY <1>3, <2>2, SomeChild
    <3>2. Underneath(f, t) = Underneath(g, t) /\ f[t.children[1]] = g[t.children[1]]
      BY <2>2, <3>1, SomeChild DEF Underneath
    <3>3. t.kind \in {"AND", "OR"} \/ t.kind = "NOT"
      BY <2>2, TreeFacts
    <3> QED BY <3>2, <3>3, MeaningByCases
  <2> QED BY <2>1, <2>2
<1>4. \A t : Meaning(t, row) = chosen[t]
  BY DEF Meaning, MeaningBy, Underneath
<1> HIDE DEF V, Body
<1>5. PICK means \in [Trees -> V] : means = [t \in Trees |-> Body(means, t)]
  <2>1. G \in [[Trees -> V] -> [Trees -> V]]
    BY <1>2
  <2>2. \A f \in [Trees -> V] : G[f] = [t \in Trees |-> Body(f, t)]
    OBVIOUS
  <2>3. \A f \in [Trees -> V] : \A t \in Trees : G[f][t] = Body(f, t)
    BY <2>2
  <2> HIDE DEF G
  <2>4. Recursion(G, Trees, V, Height)
    BY <1>1, <1>3, <2>1, <2>3 DEF Recursion
  <2>5. Defines(G, Trees, V)
    BY <2>4, RecursionExists
  <2> QED BY <2>2, <2>5 DEF Defines
<1>6. chosen = [t \in Trees |-> Body(chosen, t)]
  BY <1>5, Zenon
<1> HIDE DEF chosen
<1>7. \A t \in Trees : chosen[t] = means[t]
  <2> DEFINE P == {t \in Trees : chosen[t] = means[t]}
  <2>1. ASSUME NEW t \in Trees, \A s \in Trees : Height[s] < Height[t] => s \in P
        PROVE  t \in P
    <3>1. Body(chosen, t) = Body(means, t)
      BY <1>3, <2>1
    <3> QED BY <1>5, <1>6, <3>1
  <2> HIDE DEF P
  <2>2. Trees \subseteq P
    BY <1>1, <2>1, RankInduction
  <2> QED BY <2>2 DEF P
<1>8. [t \in Trees |-> Meaning(t, row)] = means
  BY <1>4, <1>5, <1>7
<1>9. \A t \in Trees : Meaning(t, row) = Body(means, t)
  BY <1>4, <1>5, <1>7
<1> QED BY <1>5, <1>8, <1>9 DEF V, Body

\* The meaning of a tree from those of its children.
LEMMA MeaningOf ==
  ASSUME NEW row, GoodRow(row), NEW t \in Trees
  PROVE  /\ Meaning(t, row) \in Truths
         /\ t.kind = "leaf" => Meaning(t, row) = Truth(row, Atom(t.op, t.columns, t.values))
         /\ t.kind \in {"AND", "OR"} =>
              Meaning(t, row)
                = Combined(t.kind, {Meaning(t.children[i], row) : i \in 1 .. Len(t.children)})
         /\ t.kind = "NOT" => Meaning(t, row) = 2 - Meaning(t.children[1], row)
<1> DEFINE means == [s \in Trees |-> Meaning(s, row)]
<1>1. /\ means \in [Trees -> Truths] /\ \A s \in Trees : means[s] = Meaning(s, row)
      /\ Meaning(t, row) = MeaningBy(means, t, row)
  BY MeaningDefined
<1> HIDE DEF means
<1>2. CASE t.kind = "leaf"
  BY <1>1, <1>2, MeaningByCases
<1>3. CASE t.kind # "leaf"
  <2>1. /\ DOMAIN t.children = 1 .. Len(t.children) /\ 1 \in DOMAIN t.children
        /\ \A i \in DOMAIN t.children : t.children[i] \in Trees
    BY <1>3, SomeChild
  <2>2. means[t.children[1]] = Meaning(t.children[1], row)
    BY <1>1, <2>1
  <2>3. Underneath(means, t) = {Meaning(t.children[i], row) : i \in 1 .. Len(t.children)}
    <3>1. Underneath(means, t) = {means[t.children[i]] : i \in 1 .. Len(t.children)}
      BY <2>1 DEF Underneath
    <3>2. \A i \in 1 .. Len(t.children) : means[t.children[i]] = Meaning(t.children[i], row)
      BY <1>1, <2>1
    <3> QED BY <3>1, <3>2
  <2>4. Meaning(t, row) \in Truths
    BY <1>1
  <2>5. t.kind \in {"AND", "OR"} => MeaningBy(means, t, row) = Combined(t.kind, Underneath(means, t))
    BY MeaningByCases
  <2>6. t.kind = "NOT" => MeaningBy(means, t, row) = 2 - means[t.children[1]]
    BY MeaningByCases
  <2> QED BY <1>1, <1>3, <2>2, <2>3, <2>4, <2>5, <2>6
<1> QED BY <1>2, <1>3

(***************************************************************************)
(* Where a text stands within another.                                     *)
(***************************************************************************)
Segment(W, p, x) ==
  p \in Nat /\ p + Len(x) <= Len(W) /\ \A k \in 1 .. Len(x) : W[p + k] = x[k]

\* The placeholders among the first p tokens.
Before(W, p) == Len(Numbers(SubSeq(W, 1, p)))

\* The text x comes after p tokens of W, and its placeholders are bound to
\* the values.
Stands(W, bound, p, x, values) ==
  /\ Segment(W, p, x)
  /\ \A k \in 1 .. Len(values) : bound[Before(W, p) + k] = values[k]

LEMMA BeforeGrows ==
  ASSUME NEW W \in Seq(Tokens), NEW x \in Seq(Tokens), NEW p, Segment(W, p, x)
  PROVE  /\ Before(W, p) \in Nat /\ Len(Numbers(x)) \in Nat
         /\ Before(W, p + Len(x)) = Before(W, p) + Len(Numbers(x))
<1> DEFINE n == Len(x)
           left == SubSeq(W, 1, p)
           whole == SubSeq(W, 1, p + n)
<1>1. p \in Nat /\ n \in Nat /\ p + n <= Len(W) /\ Len(W) \in Nat
      /\ \A k \in 1 .. n : W[p + k] = x[k]
  BY DEF Segment
<1>2. /\ left \in Seq(Tokens) /\ Len(left) = p /\ \A k \in 1 .. p : left[k] = W[k]
  BY <1>1
<1>3. /\ whole \in Seq(Tokens) /\ Len(whole) = p + n /\ \A k \in 1 .. p + n : whole[k] = W[k]
  BY <1>1
<1> HIDE DEF left, whole
<1>4. /\ left \o x \in Seq(Tokens) /\ Len(left \o x) = p + n
      /\ \A k \in 1 .. p + n : (left \o x)[k] = IF k <= p THEN left[k] ELSE x[k - p]
  <2>1. /\ left \o x \in Seq(Tokens) /\ Len(left \o x) = Len(left) + n
        /\ \A k \in 1 .. Len(left) + n : (left \o x)[k] = IF k <= Len(left) THEN left[k] ELSE x[k - Len(left)]
    BY <1>2, Concatenation
  <2> QED BY <1>2, <2>1
<1> HIDE DEF n
<1>5. ASSUME NEW k \in 1 .. p + n PROVE whole[k] = (left \o x)[k]
  <2>1. CASE k <= p
    <3>1. k \in 1 .. p
      BY <1>1, <2>1
    <3> QED BY <1>2, <1>3, <1>4, <2>1, <3>1
  <2>2. CASE ~(k <= p)
    <3>1. k - p \in 1 .. n /\ p + (k - p) = k
      BY <1>1, <2>2
    <3>2. x[k - p] = W[k]
      BY <1>1, <3>1
    <3> QED BY <1>3, <1>4, <2>2, <3>2
  <2> QED BY <2>1, <2>2
<1>6. whole = left \o x
  BY <1>1, <1>3, <1>4, <1>5, SeqEqual
<1>7. /\ Numbers(left) \in Seq(Nat) /\ Numbers(x) \in Seq(Nat)
      /\ Numbers(left \o x) = Numbers(left) \o Numbers(x)
  <2>1. Numbered(Tokens)
    BY TokenTypes
  <2> QED BY <1>2, <2>1, NumbersConcat
<1>8. Len(Numbers(whole)) = Len(Numbers(left)) + Len(Numbers(x))
  BY <1>6, <1>7
<1>9. Len(Numbers(left)) \in Nat /\ Len(Numbers(x)) \in Nat
  BY <1>7
<1> QED BY <1>8, <1>9 DEF Before, left, whole, n

LEMMA StandsApart ==
  ASSUME NEW W \in Seq(Tokens), NEW bound, NEW p,
         NEW a \in Seq(Tokens), NEW b \in Seq(Tokens), NEW u \in Seq(Values), NEW v \in Seq(Values),
         Len(Numbers(a)) = Len(u), Stands(W, bound, p, a \o b, u \o v)
  PROVE  /\ Stands(W, bound, p, a, u) /\ Stands(W, bound, p + Len(a), b, v)
         /\ Len(a \o b) = Len(a) + Len(b)
<1>1. /\ Len(a \o b) = Len(a) + Len(b) /\ Len(a) \in Nat /\ Len(b) \in Nat
      /\ \A i \in 1 .. Len(a) + Len(b) : (a \o b)[i] = IF i <= Len(a) THEN a[i] ELSE b[i - Len(a)]
  BY Concatenation
<1>2. /\ Len(u \o v) = Len(u) + Len(v) /\ Len(u) \in Nat /\ Len(v) \in Nat
      /\ \A i \in 1 .. Len(u) + Len(v) : (u \o v)[i] = IF i <= Len(u) THEN u[i] ELSE v[i - Len(u)]
  BY Concatenation
<1> DEFINE x == a \o b
           w == u \o v
           la == Len(a)
           lb == Len(b)
           lu == Len(u)
           lv == Len(v)
<1>3. /\ p \in Nat /\ p + Len(x) <= Len(W) /\ Len(W) \in Nat
      /\ \A k \in 1 .. Len(x) : W[p + k] = x[k]
      /\ \A k \in 1 .. Len(w) : bound[Before(W, p) + k] = w[k]
  BY DEF Stands, Segment
<1> HIDE DEF x, w, la, lb, lu, lv
<1>4. /\ Len(x) = la + lb /\ la \in Nat /\ lb \in Nat
      /\ \A i \in 1 .. la + lb : x[i] = IF i <= la THEN a[i] ELSE b[i - la]
  BY <1>1 DEF x, la, lb
<1>5. /\ Len(w) = lu + lv /\ lu \in Nat /\ lv \in Nat
      /\ \A i \in 1 .. lu + lv : w[i] = IF i <= lu THEN u[i] ELSE v[i - lu]
  BY <1>2 DEF w, lu, lv
<1>6. Segment(W, p, a)
  <2>1. \A k \in 1 .. la : W[p + k] = a[k]
    BY <1>3, <1>4
  <2>2. p \in Nat /\ p + la <= Len(W)
    BY <1>3, <1>4
  <2> QED BY <2>1, <2>2 DEF Segment, la
<1>7. Segment(W, p + la, b)
  <2>1. ASSUME NEW k \in 1 .. lb PROVE W[p + la + k] = b[k]
    <3>1. la + k \in 1 .. la + lb /\ ~(la + k <= la) /\ (la + k) - la = k /\ p + (la + k) = p + la + k
      BY <1>3, <1>4
    <3>2. x[la + k] = b[k]
      BY <1>4, <3>1
    <3>3. W[p + (la + k)] = x[la + k]
      BY <1>3, <1>4, <3>1
    <3> QED BY <3>1, <3>2, <3>3
  <2>2. p + la \in Nat /\ p + la + lb <= Len(W)
    BY <1>3, <1>4
  <2> QED BY <2>1, <2>2 DEF Segment, lb
<1>8. Before(W, p) \in Nat /\ Before(W, p + la) = Before(W, p) + lu
  BY <1>6, BeforeGrows DEF la, lu
<1>9. \A k \in 1 .. lu : bound[Before(W, p) + k] = u[k]
  BY <1>3, <1>5
<1>10. ASSUME NEW k \in 1 .. lv PROVE bound[Before(W, p + la) + k] = v[k]
  <2>1. lu + k \in 1 .. lu + lv /\ ~(lu + k <= lu) /\ (lu + k) - lu = k
        /\ Before(W, p) + (lu + k) = Before(W, p + la) + k
    BY <1>5, <1>8
  <2>2. w[lu + k] = v[k]
    BY <1>5, <2>1
  <2>3. bound[Before(W, p) + (lu + k)] = w[lu + k]
    BY <1>3, <1>5, <2>1
  <2> QED BY <2>1, <2>2, <2>3
<1>11. Stands(W, bound, p, a, u)
  BY <1>6, <1>9 DEF Stands, lu
<1>12. Stands(W, bound, p + la, b, v)
  BY <1>7, <1>10 DEF Stands, lv
<1> QED BY <1>1, <1>11, <1>12 DEF la

\* A sign before a text, and a parenthesis after it.
Symbols == {"(", ")", "AND", "OR", "NOT"}
Prefixed(symbol, x) == <<Sign(symbol)>> \o x

LEMMA SignBefore ==
  ASSUME NEW W \in Seq(Tokens), NEW bound, NEW p, NEW symbol \in Symbols,
         NEW x \in Seq(Tokens), NEW v \in Seq(Values),
         Stands(W, bound, p, Prefixed(symbol, x), v)
  PROVE  /\ p \in Nat /\ W[p + 1].token = symbol /\ Stands(W, bound, p + 1, x, v)
         /\ Len(Prefixed(symbol, x)) = 1 + Len(x)
<1> DEFINE sign == Sign(symbol)
           one == <<sign>>
           none == <<>>
<1>1. sign.token = symbol /\ one \in Seq(Tokens) /\ Numbers(one) = <<>>
  BY SignNumbers DEF Sign, Symbols
<1>2. none \in Seq(Values) /\ Len(none) = 0 /\ none \o v = v
  OBVIOUS
<1>3. Len(Numbers(one)) = Len(none)
  BY <1>1
<1>4. Len(one) = 1 /\ one[1] = sign
  OBVIOUS
<1>5. Stands(W, bound, p, one \o x, none \o v)
  BY <1>2 DEF Prefixed
<1> HIDE DEF sign, one, none
<1>6. ASSUME NEW a \in Seq(Tokens), NEW b \in Seq(Tokens), NEW u \in Seq(Values), NEW w \in Seq(Values),
             Len(Numbers(a)) = Len(u), Stands(W, bound, p, a \o b, u \o w)
      PROVE  /\ Stands(W, bound, p, a, u) /\ Stands(W, bound, p + Len(a), b, w)
             /\ Len(a \o b) = Len(a) + Len(b)
  BY <1>6, StandsApart
<1>7. /\ Stands(W, bound, p, one, none) /\ Stands(W, bound, p + Len(one), x, v)
      /\ Len(one \o x) = Len(one) + Len(x)
  BY <1>1, <1>2, <1>3, <1>5, <1>6
<1>8. p \in Nat /\ W[p + 1] = sign
  BY <1>4, <1>7 DEF Stands, Segment
<1> QED BY <1>1, <1>4, <1>7, <1>8 DEF one, sign, Prefixed

LEMMA CloseAfter ==
  ASSUME NEW W \in Seq(Tokens), NEW bound, NEW p, NEW x \in Seq(Tokens), NEW v \in Seq(Values), Len(Numbers(x)) = Len(v),
         Stands(W, bound, p, x \o <<Sign(")")>>, v)
  PROVE  /\ p \in Nat /\ Stands(W, bound, p, x, v)
         /\ p + Len(x) + 1 <= Len(W) /\ W[p + Len(x) + 1].token = ")"
         /\ Len(x \o <<Sign(")")>>) = Len(x) + 1
<1> DEFINE sign == Sign(")")
           one == <<sign>>
           none == <<>>
<1>1. sign.token = ")" /\ one \in Seq(Tokens)
  <2>1. one \in Seq(Tokens)
    BY SignNumbers
  <2> QED BY <2>1 DEF Sign
<1>2. none \in Seq(Values) /\ v \o none = v
  OBVIOUS
<1>3. Len(one) = 1 /\ one[1] = sign
  OBVIOUS
<1>4. Stands(W, bound, p, x \o one, v \o none)
  BY <1>2
<1> HIDE DEF sign, one, none
<1>5. ASSUME NEW a \in Seq(Tokens), NEW b \in Seq(Tokens), NEW u \in Seq(Values), NEW w \in Seq(Values),
             Len(Numbers(a)) = Len(u), Stands(W, bound, p, a \o b, u \o w)
      PROVE  /\ Stands(W, bound, p, a, u) /\ Stands(W, bound, p + Len(a), b, w)
             /\ Len(a \o b) = Len(a) + Len(b)
  BY <1>5, StandsApart
<1>6. /\ Stands(W, bound, p, x, v) /\ Stands(W, bound, p + Len(x), one, none)
      /\ Len(x \o one) = Len(x) + Len(one)
  BY <1>1, <1>2, <1>4, <1>5
<1>7. p \in Nat
  BY <1>6 DEF Stands, Segment
<1>8. p + Len(x) + 1 <= Len(W) /\ W[p + Len(x) + 1] = sign
  BY <1>3, <1>6 DEF Stands, Segment
<1> QED BY <1>1, <1>3, <1>6, <1>7, <1>8 DEF one, sign

LEMMA Regrouped ==
  ASSUME NEW a \in Seq(Tokens), NEW b \in Seq(Tokens), NEW c \in Seq(Tokens)
  PROVE  (a \o b) \o c = a \o (b \o c)
<1> QED BY ConcatAssociative

LEMMA NotBefore ==
  ASSUME NEW W \in Seq(Tokens), NEW bound, NEW p,
         NEW x \in Seq(Tokens), NEW v \in Seq(Values),
         Stands(W, bound, p, <<Sign("NOT")>> \o x, v)
  PROVE  /\ p \in Nat /\ W[p + 1].token = "NOT" /\ Stands(W, bound, p + 1, x, v)
         /\ Len(<<Sign("NOT")>> \o x) = 1 + Len(x)
<1>1. /\ p \in Nat /\ W[p + 1].token = "NOT" /\ Stands(W, bound, p + 1, x, v)
      /\ Len(Prefixed("NOT", x)) = 1 + Len(x)
  <2>1. Stands(W, bound, p, Prefixed("NOT", x), v)
    BY DEF Prefixed
  <2> QED BY <2>1, SignBefore DEF Symbols
<1> QED BY <1>1 DEF Prefixed

LEMMA NegatedForm ==
  ASSUME NEW x \in Seq(Tokens)
  PROVE  Negated(x) = <<Sign("NOT")>> \o (<<Sign("(")>> \o x \o <<Sign(")")>>)
<1>1. <<Sign("NOT")>> \in Seq(Tokens) /\ <<Sign("(")>> \in Seq(Tokens) /\ <<Sign(")")>> \in Seq(Tokens)
  BY SignNumbers
<1>2. <<Sign("NOT"), Sign("(")>> = <<Sign("NOT")>> \o <<Sign("(")>>
  <2> DEFINE a == Sign("NOT")
             b == Sign("(")
  <2>1. a \in Tokens /\ b \in Tokens
    BY TokenTypes
  <2> HIDE DEF a, b
  <2> DEFINE u == <<a, b>>
             v == <<a>> \o <<b>>
  <2>2. u \in Seq(Tokens) /\ Len(u) = 2 /\ u[1] = a /\ u[2] = b
    BY <2>1
  <2>3. v \in Seq(Tokens) /\ Len(v) = 2 /\ v[1] = a /\ v[2] = b
    BY <2>1
  <2> HIDE DEF u, v
  <2>4. \A i \in 1 .. 2 : u[i] = v[i]
    BY <2>2, <2>3
  <2>5. u = v
    BY <2>2, <2>3, <2>4, SeqEqual
  <2> QED BY <2>5 DEF u, v, a, b
<1>3. PICK n \in Seq(Tokens), l \in Seq(Tokens), r \in Seq(Tokens) :
        n = <<Sign("NOT")>> /\ l = <<Sign("(")>> /\ r = <<Sign(")")>>
  BY <1>1
<1>4. Negated(x) = (n \o l) \o x \o r
  BY <1>2, <1>3 DEF Negated
<1>5. PICK lx \in Seq(Tokens) : lx = l \o x
  BY Concatenation
<1>6. (n \o l) \o x = n \o lx
  BY SMTT(30), <1>5, ConcatAssociative
<1>7. (n \o lx) \o r = n \o (lx \o r)
  BY ZenonT(40), Regrouped
<1> QED BY <1>3, <1>4, <1>5, <1>6, <1>7

\* A text in parentheses that closes what it opens.
LEMMA ParenthesesRead ==
  ASSUME NEW W \in Seq(Tokens), NEW bound, NEW row, GoodRow(row), NEW p,
         NEW x \in Seq(Tokens), NEW v \in Seq(Values), Len(Numbers(x)) = Len(v),
         Stands(W, bound, p, <<Sign("(")>> \o x \o <<Sign(")")>>, v), NEW op, NEW m,
         Stands(W, bound, p + 1, x, v) => Chained(W, bound, row, p + 1, p + 1 + Len(x), op, m)
  PROVE  Reads(W, bound, row, p, p + Len(<<Sign("(")>> \o x \o <<Sign(")")>>), m)
<1>1. /\ <<Sign("(")>> \o x \in Seq(Tokens) /\ Numbers(<<Sign("(")>> \o x) = Numbers(x)
      /\ Len(x) \in Nat /\ Len(W) \in Nat
  BY SignNumbers
<1>2. PICK left \in Seq(Tokens) : left = <<Sign("(")>> \o x
  BY <1>1
<1>3. Len(Numbers(left)) = Len(v) /\ Stands(W, bound, p, left \o <<Sign(")")>>, v)
  BY <1>1, <1>2
<1>4. /\ p \in Nat /\ Stands(W, bound, p, left, v)
      /\ p + Len(left) + 1 <= Len(W) /\ W[p + Len(left) + 1].token = ")"
      /\ Len(left \o <<Sign(")")>>) = Len(left) + 1
  BY <1>3, CloseAfter
<1>5. Stands(W, bound, p, <<Sign("(")>> \o x, v)
  BY <1>2, <1>4
<1>6. /\ W[p + 1].token = "(" /\ Stands(W, bound, p + 1, x, v)
      /\ Len(<<Sign("(")>> \o x) = 1 + Len(x)
  <2>1. Stands(W, bound, p, Prefixed("(", x), v)
    BY <1>5 DEF Prefixed
  <2>2. /\ W[p + 1].token = "(" /\ Stands(W, bound, p + 1, x, v)
        /\ Len(Prefixed("(", x)) = 1 + Len(x)
    BY ZenonT(40), <2>1, SignBefore DEF Symbols
  <2> QED BY <2>2 DEF Prefixed
<1>7. PICK i \in Nat : i = p + 1
  BY <1>4
<1>8. PICK j \in Nat : j = p + 1 + Len(x)
  BY <1>1, <1>4
<1>9. Chained(W, bound, row, i, j, op, m)
  BY <1>6, <1>7, <1>8
<1>10. Len(left) = 1 + Len(x)
  BY <1>2, <1>6
<1>11. /\ i >= 1 /\ j + 1 <= Len(W) /\ i - 1 = p /\ j + 1 = p + Len(left) + 1
  BY <1>1, <1>4, <1>7, <1>8, <1>10
<1>12. W[i].token = "(" /\ W[j + 1].token = ")"
  BY <1>4, <1>6, <1>7, <1>11
<1>13. Reads(W, bound, row, i - 1, j + 1, m)
  BY <1>9, <1>11, <1>12, GroupReads
<1>14. Len(<<Sign("(")>> \o x \o <<Sign(")")>>) = Len(left) + 1
  BY <1>2, <1>4
<1> DEFINE whole == Len(<<Sign("(")>> \o x \o <<Sign(")")>>)
<1>15. PICK n \in Nat : n = Len(left)
  OBVIOUS
<1>16. whole = n + 1 /\ j + 1 = p + n + 1
  BY <1>11, <1>14, <1>15
<1> HIDE DEF whole
<1>17. p + whole = j + 1
  BY <1>4, <1>15, <1>16
<1>18. Reads(W, bound, row, p, p + whole, m)
  BY <1>11, <1>13, <1>17
<1> QED BY <1>18 DEF whole

LEMMA GroupedReads ==
  ASSUME NEW W \in Seq(Tokens), NEW bound, NEW row, GoodRow(row), NEW p,
         NEW op \in {"AND", "OR"}, NEW parts \in Seq(Seq(Tokens)), NEW v \in Seq(Values),
         Len(Numbers(Joined(op, parts))) = Len(v),
         Stands(W, bound, p, Grouped(op, parts), v), NEW m,
         \A q \in Nat : Stands(W, bound, q, Joined(op, parts), v) =>
                          Chained(W, bound, row, q, q + Len(Joined(op, parts)), op, m)
  PROVE  Reads(W, bound, row, p, p + Len(Grouped(op, parts)), m)
<1> DEFINE x == Joined(op, parts)
<1>1. x \in Seq(Tokens)
  <2>1. <<>> \in Seq(Tokens)
    OBVIOUS
  <2> QED BY <2>1, JoinedAppend
<1>2. Grouped(op, parts) = <<Sign("(")>> \o x \o <<Sign(")")>>
  BY DEF Grouped, Joined
<1>3. p + 1 \in Nat
  BY DEF Stands, Segment
<1>4. Stands(W, bound, p + 1, x, v) => Chained(W, bound, row, p + 1, p + 1 + Len(x), op, m)
  BY <1>3
<1>5. Len(Numbers(x)) = Len(v) /\ Stands(W, bound, p, <<Sign("(")>> \o x \o <<Sign(")")>>, v)
  BY <1>2
<1> HIDE DEF x
<1> QED BY <1>1, <1>2, <1>4, <1>5, ParenthesesRead

LEMMA NegatedReads ==
  ASSUME NEW W \in Seq(Tokens), NEW bound, NEW row, GoodRow(row), NEW p,
         NEW x \in Seq(Tokens), NEW v \in Seq(Values),
         Len(Numbers(x)) = Len(v), Stands(W, bound, p, Negated(x), v), NEW m,
         \A q \in Nat : Stands(W, bound, q, x, v) => Reads(W, bound, row, q, q + Len(x), m)
  PROVE  Reads(W, bound, row, p, p + Len(Negated(x)), 2 - m)
<1> DEFINE opened == <<Sign("(")>> \o x
           group == opened \o <<Sign(")")>>
<1>1. /\ opened \in Seq(Tokens) /\ group \in Seq(Tokens)
      /\ Numbers(opened) = Numbers(x) /\ Numbers(group) = Numbers(x)
  <2>1. opened \in Seq(Tokens) /\ Numbers(opened) = Numbers(x)
    BY SignNumbers
  <2> HIDE DEF opened
  <2> QED BY <2>1, SignNumbers
<1>2. Negated(x) = <<Sign("NOT")>> \o group
  BY NegatedForm
<1>3. PICK grouped \in Seq(Tokens) : grouped = group
  BY <1>1
<1>4. Stands(W, bound, p, <<Sign("NOT")>> \o grouped, v)
  BY <1>2, <1>3
<1>5. /\ p \in Nat /\ W[p + 1].token = "NOT" /\ Stands(W, bound, p + 1, grouped, v)
      /\ Len(<<Sign("NOT")>> \o grouped) = 1 + Len(grouped) /\ Len(grouped) \in Nat
  BY <1>4, NotBefore, SMTT(60)
<1>6. PICK i \in Nat : i = p + 1
  BY <1>5
<1>7. PICK j \in Nat : j = i + Len(grouped)
  BY <1>5
<1>8. Stands(W, bound, i + 1, x, v) => Chained(W, bound, row, i + 1, i + 1 + Len(x), "", m)
  <2>1. i + 1 \in Nat
    OBVIOUS
  <2>2. Stands(W, bound, i + 1, x, v) => Reads(W, bound, row, i + 1, i + 1 + Len(x), m)
    BY <2>1
  <2> QED BY <2>2 DEF Reads
<1>9. Stands(W, bound, i, <<Sign("(")>> \o x \o <<Sign(")")>>, v)
  BY <1>3, <1>5, <1>6
<1>10. Reads(W, bound, row, i, i + Len(<<Sign("(")>> \o x \o <<Sign(")")>>), m)
  BY <1>8, <1>9, ParenthesesRead
<1>11. Reads(W, bound, row, i, j, m)
  BY <1>3, <1>7, <1>10
<1>12. i - 1 = p /\ i >= 1 /\ j = p + Len(Negated(x)) /\ W[i].token = "NOT"
  BY <1>2, <1>3, <1>5, <1>6, <1>7
<1>13. Reads(W, bound, row, i - 1, j, 2 - m)
  BY <1>11, <1>12, NotReads
<1> QED BY <1>12, <1>13

\* One more text after the operator.
LEMMA NextReads ==
  ASSUME NEW W \in Seq(Tokens), NEW bound, NEW row, GoodRow(row), NEW p, NEW op \in {"AND", "OR"},
         NEW a \in Seq(Tokens), NEW x \in Seq(Tokens), NEW u \in Seq(Values), NEW v \in Seq(Values),
         Len(Numbers(a)) = Len(u),
         NEW whole, whole = a \o Prefixed(op, x), NEW values, values = u \o v,
         Stands(W, bound, p, whole, values),
         NEW S, SomeTruths(S), NEW b \in Truths,
         Stands(W, bound, p, a, u) => Chained(W, bound, row, p, p + Len(a), op, Combined(op, S)),
         \A q \in Nat : Stands(W, bound, q, x, v) => Reads(W, bound, row, q, q + Len(x), b)
  PROVE  Chained(W, bound, row, p, p + Len(whole), op, Combined(op, More(S, b)))
<1>1. PICK s \in Seq(Tokens) : s = Prefixed(op, x)
  BY SignNumbers DEF Prefixed
<1>2. Stands(W, bound, p, a \o s, u \o v)
  BY <1>1
<1>3. /\ Stands(W, bound, p, a, u) /\ Stands(W, bound, p + Len(a), s, v)
      /\ Len(a \o s) = Len(a) + Len(s)
  BY <1>2, StandsApart
<1>4. PICK j : j = p + Len(a)
  OBVIOUS
<1>5. /\ j \in Nat /\ W[j + 1].token = op /\ Stands(W, bound, j + 1, x, v)
      /\ Len(s) = 1 + Len(x)
  <2>1. Stands(W, bound, j, Prefixed(op, x), v)
    BY <1>1, <1>3, <1>4
  <2>2. op \in Symbols
    BY DEF Symbols
  <2>3. /\ j \in Nat /\ W[j + 1].token = op /\ Stands(W, bound, j + 1, x, v)
        /\ Len(Prefixed(op, x)) = 1 + Len(x)
    BY <2>1, <2>2, SignBefore
  <2> QED BY <1>1, <2>3
<1>6. Chained(W, bound, row, p, j, op, Combined(op, S))
  BY <1>3, <1>4
<1>7. Reads(W, bound, row, j + 1, j + 1 + Len(x), b)
  <2>1. j + 1 \in Nat
    BY <1>5
  <2> QED BY <1>5, <2>1
<1>8. Chained(W, bound, row, p, j + 1 + Len(x), op, Combined(op, {Combined(op, S), b}))
  BY <1>5, <1>6, <1>7, ChainGrows
<1>9. Combined(op, {Combined(op, S), b}) = Combined(op, More(S, b))
  <2>1. Both(op, Combined(op, S), b) = Combined(op, More(S, b))
    BY CombinedTruths
  <2> QED BY <2>1 DEF Both
<1>10. p + Len(a \o s) = j + 1 + Len(x)
  <2>1. p \in Nat /\ Len(a) \in Nat /\ Len(x) \in Nat
    BY DEF Stands, Segment
  <2>2. PICK m \in Nat : m = Len(a)
    BY <2>1
  <2> QED BY <1>3, <1>4, <1>5, <2>1, <2>2
<1> QED BY <1>1, <1>8, <1>9, <1>10

(***************************************************************************)
(* Trees rendered one after another.                                       *)
(***************************************************************************)
Turn(trees, n, k) == RenderInTurn([i \in 1 .. k |-> RenderPredicate[trees[i]]], n)

LEMMA DoneAgrees ==
  ASSUME NEW m \in Nat, NEW n, NEW c, NEW d, NEW e, NEW g,
         \A k \in 0 .. m : d[k] = DoneBy(c, n, d, k),
         \A k \in 0 .. m : e[k] = DoneBy(g, n, e, k),
         \A k \in 1 .. m : c[k] = g[k]
  PROVE  \A k \in 0 .. m : d[k] = e[k]
<1> DEFINE N == {k \in Nat : k \in 0 .. m => d[k] = e[k]}
<1>1. 0 \in N
  BY DEF DoneBy
<1>2. ASSUME NEW k \in Nat, k \in N PROVE k + 1 \in N
  <2>1. ASSUME k + 1 \in 0 .. m PROVE d[k + 1] = e[k + 1]
    <3>1. k \in 0 .. m /\ k + 1 \in 1 .. m /\ (k + 1) - 1 = k /\ k + 1 # 0
      BY <2>1
    <3>2. d[k] = e[k] /\ c[k + 1] = g[k + 1]
      BY <1>2, <3>1
    <3>3. d[k + 1] = Continue(d[k], c[k + 1][d[k].next])
      BY <2>1, <3>1 DEF DoneBy
    <3>4. e[k + 1] = Continue(e[k], g[k + 1][e[k].next])
      BY <2>1, <3>1 DEF DoneBy
    <3> QED BY <3>2, <3>3, <3>4
  <2> QED BY <2>1
<1> HIDE DEF N
<1>3. Nat \subseteq N
  BY <1>1, <1>2, NatSetInduction
<1> QED BY <1>3 DEF N

LEMMA TurnDone ==
  ASSUME NEW trees \in Seq(Trees), NEW n \in Nat, NEW k \in 0 .. Len(trees)
  PROVE  \E done \in [0 .. k -> DoneType] :
           /\ \A m \in 0 .. k :
                done[m] = DoneBy([i \in 1 .. k |-> RenderPredicate[trees[i]]], n, done, m)
           /\ Turn(trees, n, k) = done[k]
<1> DEFINE c == [i \in 1 .. k |-> RenderPredicate[trees[i]]]
<1>1. k \in Nat /\ c \in [1 .. k -> RendererType]
  BY RenderDefined
<1>2. Turn(trees, n, k) = RenderInTurn(c, n)
  BY DEF Turn
<1> HIDE DEF c
<1>3. c \in Seq(RendererType) /\ Len(c) = k
  BY <1>1, Listed
<1>4. \E done \in [0 .. Len(c) -> DoneType] :
        /\ \A m \in 0 .. Len(c) : done[m] = DoneBy(c, n, done, m)
        /\ RenderInTurn(c, n) = done[Len(c)]
  BY <1>3, InTurn
<1> QED BY <1>2, <1>3, <1>4 DEF c

LEMMA TurnStep ==
  ASSUME NEW trees \in Seq(Trees), NEW n \in Nat
  PROVE  /\ Turn(trees, n, 0) = NoneDone(n)
         /\ \A k \in 0 .. Len(trees) : Turn(trees, n, k) \in DoneType
         /\ \A k \in Nat : k < Len(trees) =>
              Turn(trees, n, k + 1)
                = Continue(Turn(trees, n, k), RenderPredicate[trees[k + 1]][Turn(trees, n, k).next])
<1> DEFINE c(k) == [i \in 1 .. k |-> RenderPredicate[trees[i]]]
<1>1. Len(trees) \in Nat
  OBVIOUS
<1>2. Turn(trees, n, 0) = NoneDone(n)
  <2>1. 0 \in 0 .. Len(trees)
    BY <1>1
  <2>2. PICK done \in [0 .. 0 -> DoneType] :
          /\ \A m \in 0 .. 0 : done[m] = DoneBy(c(0), n, done, m)
          /\ Turn(trees, n, 0) = done[0]
    BY <2>1, TurnDone
  <2> QED BY <2>2 DEF DoneBy
<1>3. ASSUME NEW k \in 0 .. Len(trees) PROVE Turn(trees, n, k) \in DoneType
  <2>1. PICK done \in [0 .. k -> DoneType] : Turn(trees, n, k) = done[k]
    BY TurnDone
  <2>2. k \in 0 .. k
    BY <1>1
  <2> QED BY <2>1, <2>2
<1>4. ASSUME NEW k \in Nat, k < Len(trees)
      PROVE  Turn(trees, n, k + 1)
               = Continue(Turn(trees, n, k), RenderPredicate[trees[k + 1]][Turn(trees, n, k).next])
  <2>1. k \in 0 .. Len(trees) /\ k + 1 \in 0 .. Len(trees)
    BY <1>1, <1>4
  <2>2. PICK d \in [0 .. k -> DoneType] :
          /\ \A m \in 0 .. k : d[m] = DoneBy(c(k), n, d, m)
          /\ Turn(trees, n, k) = d[k]
    BY <2>1, TurnDone
  <2>3. PICK e \in [0 .. k + 1 -> DoneType] :
          /\ \A m \in 0 .. k + 1 : e[m] = DoneBy(c(k + 1), n, e, m)
          /\ Turn(trees, n, k + 1) = e[k + 1]
    BY <2>1, TurnDone
  <2>4. \A m \in 1 .. k : c(k)[m] = c(k + 1)[m]
    OBVIOUS
  <2>5. c(k + 1)[k + 1] = RenderPredicate[trees[k + 1]]
    OBVIOUS
  <2>6. PICK f, g : f = c(k) /\ g = c(k + 1)
    OBVIOUS
  <2> HIDE DEF c
  <2>7. /\ \A m \in 0 .. k : d[m] = DoneBy(f, n, d, m)
        /\ \A m \in 0 .. k : e[m] = DoneBy(g, n, e, m)
        /\ \A m \in 1 .. k : f[m] = g[m]
    BY <2>2, <2>3, <2>4, <2>6
  <2>8. \A m \in 0 .. k : d[m] = e[m]
    BY <2>7, DoneAgrees
  <2>9. d[k] = e[k]
    BY <2>8
  <2>10. e[k + 1] = Continue(e[k], g[k + 1][e[k].next])
    <3>1. k + 1 \in 0 .. k + 1 /\ k + 1 # 0 /\ (k + 1) - 1 = k
      OBVIOUS
    <3>2. e[k + 1] = DoneBy(g, n, e, k + 1)
      BY <2>3, <2>6, <3>1
    <3> QED BY <3>1, <3>2 DEF DoneBy
  <2> QED BY <2>2, <2>3, <2>5, <2>6, <2>9, <2>10
<1> QED BY <1>2, <1>3, <1>4

LEMMA TreeRendered ==
  ASSUME NEW t \in Trees, NEW n \in Nat
  PROVE  /\ RenderPredicate[t][n] \in RenderedType
         /\ RenderPredicate[t][n].text \in Seq(Tokens) /\ RenderPredicate[t][n].args \in Seq(Values)
         /\ RenderPredicate[t][n].next = n + Len(RenderPredicate[t][n].args)
         /\ Len(Numbers(RenderPredicate[t][n].text)) = Len(RenderPredicate[t][n].args)
<1>1. RenderPredicate[t][n] \in RenderedType
  BY RenderDefined DEF RendererType
<1> DEFINE one == RenderPredicate[t][n]
<1>2. Faithful(one, ValuesOf[t], n)
  BY RenderingIsFaithful
<1>3. one \in RenderedType
  BY <1>1
<1> HIDE DEF one
<1>4. one.args \in Seq(Values) /\ one.text \in Seq(Tokens) /\ Len(one.args) \in Nat
  BY <1>3 DEF RenderedType
<1>5. /\ one.args = ValuesOf[t] /\ one.next = n + Len(one.args)
      /\ Numbers(one.text) = Consecutive(n, Len(one.args))
  BY <1>2 DEF Faithful
<1>6. Len(Numbers(one.text)) = Len(one.args)
  <2>1. Len(Consecutive(n, Len(one.args))) = Len(one.args)
    BY <1>4, ConsecutiveConcat
  <2> QED BY <1>5, <2>1
<1> QED BY <1>3, <1>4, <1>5, <1>6 DEF one

Kept(op, n, d, k) ==
  /\ d \in DoneType /\ Len(d.parts) = k /\ d.next = n + Len(d.args)
  /\ Len(Numbers(Joined(op, d.parts))) = Len(d.args)

LEMMA NoneKept ==
  ASSUME NEW op, NEW n \in Nat, NoneDone(n) \in DoneType
  PROVE  Kept(op, n, NoneDone(n), 0)
<1>1. Joined(op, <<>>) = <<>>
  BY DEF Joined, FlattenSeq
<1>2. Numbers(<<>>) = <<>>
  BY DEF Numbers, FlattenSeq
<1>3. Len(<<>>) = 0
  OBVIOUS
<1> QED BY <1>1, <1>2, <1>3 DEF Kept, NoneDone

LEMMA OneMoreKept ==
  ASSUME NEW op \in {"AND", "OR"}, NEW n \in Nat, NEW d, NEW k \in Nat, Kept(op, n, d, k),
         NEW one \in RenderedType, one.next = d.next + Len(one.args),
         Len(Numbers(one.text)) = Len(one.args)
  PROVE  Kept(op, n, Continue(d, one), k + 1)
<1>1. /\ d \in DoneType /\ d.args \in Seq(Values) /\ Len(d.args) \in Nat
      /\ d.parts \in Seq(Seq(Tokens)) /\ Len(d.parts) = k /\ d.next = n + Len(d.args)
      /\ Len(Numbers(Joined(op, d.parts))) = Len(d.args)
  BY DEF Kept, DoneType
<1>2. one.text \in Seq(Tokens) /\ one.args \in Seq(Values) /\ Len(one.args) \in Nat
  BY DEF RenderedType
<1> DEFINE next == Continue(d, one)
<1>3. next \in DoneType
  BY <1>1, ContinueType
<1>4. /\ next.parts = Append(d.parts, one.text) /\ next.args = d.args \o one.args
      /\ next.next = one.next
  BY DEF Continue
<1> HIDE DEF next
<1>5. Len(next.args) = Len(d.args) + Len(one.args)
  BY <1>1, <1>2, <1>4
<1>6. Len(next.parts) = k + 1
  <2> DEFINE T == Seq(Tokens)
  <2>1. d.parts \in Seq(T) /\ one.text \in T
    BY <1>1, <1>2
  <2> HIDE DEF T
  <2> QED BY <1>1, <1>4, <2>1
<1>7. next.next = n + Len(next.args)
  <2>1. PICK a \in Nat, b \in Nat : a = Len(d.args) /\ b = Len(one.args)
    BY <1>1, <1>2
  <2>2. d.next = n + a /\ one.next = d.next + b /\ Len(next.args) = a + b
    BY <1>1, <1>5, <2>1
  <2>3. (n + a) + b = n + (a + b)
    OBVIOUS
  <2> QED BY <1>4, <2>2, <2>3, Zenon
<1>8. Len(Numbers(Joined(op, next.parts))) = Len(next.args)
  <2>1. Numbers(Joined(op, next.parts)) = Numbers(Joined(op, d.parts)) \o Numbers(one.text)
    BY ZenonT(40), <1>1, <1>2, <1>4, JoinedNumbers
  <2>2. /\ Joined(op, d.parts) \in Seq(Tokens)
        /\ Numbers(Joined(op, d.parts)) \in Seq(Nat) /\ Numbers(one.text) \in Seq(Nat)
    <3>1. Joined(op, d.parts) \in Seq(Tokens)
      BY <1>1, <1>2, JoinedAppend
    <3>2. Numbered(Tokens)
      BY TokenTypes
    <3> QED BY <1>2, <3>1, <3>2, NumbersConcat
  <2>3. PICK a \in Seq(Nat), b \in Seq(Nat) :
          a = Numbers(Joined(op, d.parts)) /\ b = Numbers(one.text)
    BY <2>2
  <2>4. Len(a \o b) = Len(a) + Len(b)
    BY Concatenation
  <2> QED BY <1>1, <1>5, <2>1, <2>3, <2>4
<1> QED BY <1>3, <1>6, <1>7, <1>8 DEF Kept, next

LEMMA TurnKeeps ==
  ASSUME NEW op \in {"AND", "OR"}, NEW trees \in Seq(Trees), NEW n \in Nat
  PROVE  \A k \in 0 .. Len(trees) : Kept(op, n, Turn(trees, n, k), k)
<1> DEFINE N == {k \in Nat : k \in 0 .. Len(trees) => Kept(op, n, Turn(trees, n, k), k)}
<1>1. Len(trees) \in Nat
  OBVIOUS
<1>2. 0 \in N
  <2>1. Turn(trees, n, 0) = NoneDone(n) /\ Turn(trees, n, 0) \in DoneType
    BY <1>1, TurnStep
  <2> QED BY <2>1, NoneKept
<1>3. ASSUME NEW k \in Nat, k \in N PROVE k + 1 \in N
  <2>1. ASSUME k + 1 \in 0 .. Len(trees) PROVE Kept(op, n, Turn(trees, n, k + 1), k + 1)
    <3> DEFINE d == Turn(trees, n, k)
               one == RenderPredicate[trees[k + 1]][d.next]
    <3>1. k \in 0 .. Len(trees) /\ k < Len(trees) /\ trees[k + 1] \in Trees
      BY <1>1, <2>1
    <3>2. Kept(op, n, d, k) /\ d \in DoneType
      BY <1>3, <3>1 DEF Kept
    <3>3. Turn(trees, n, k + 1) = Continue(d, one)
      BY <3>1, TurnStep
    <3> HIDE DEF d
    <3>4. d.next \in Nat
      BY <3>2 DEF DoneType
    <3>5. /\ one \in RenderedType /\ one.next = d.next + Len(one.args)
          /\ Len(Numbers(one.text)) = Len(one.args)
      BY <3>1, <3>4, TreeRendered
    <3> HIDE DEF one
    <3> QED BY <3>2, <3>3, <3>5, OneMoreKept
  <2> QED BY <2>1
<1> HIDE DEF N
<1>4. Nat \subseteq N
  BY <1>2, <1>3, NatSetInduction
<1> QED BY <1>1, <1>4 DEF N

\* A tree reads as what it means wherever it is written, with its values bound.
ReadsRight(W, bound, row, t) ==
  \A n \in Nat : \A p \in Nat :
    Stands(W, bound, p, RenderPredicate[t][n].text, RenderPredicate[t][n].args) =>
      Reads(W, bound, row, p, p + Len(RenderPredicate[t][n].text), Meaning(t, row))

MeaningsOf(trees, row, k) == {Meaning(trees[i], row) : i \in 1 .. k}

\* The first k of trees, with an operator between them.
ChainsRight(W, bound, row, p, op, d, S) ==
  Stands(W, bound, p, Joined(op, d.parts), d.args) =>
    Chained(W, bound, row, p, p + Len(Joined(op, d.parts)), op, Combined(op, S))

LEMMA MeaningsGrow ==
  ASSUME NEW row, GoodRow(row), NEW trees \in Seq(Trees)
  PROVE  /\ \A k \in 1 .. Len(trees) :
              MeaningsOf(trees, row, k) # {} /\ MeaningsOf(trees, row, k) \subseteq Truths
         /\ \A k \in Nat : k < Len(trees) =>
              /\ Meaning(trees[k + 1], row) \in Truths
              /\ MeaningsOf(trees, row, k + 1)
                   = MeaningsOf(trees, row, k) \union {Meaning(trees[k + 1], row)}
<1> DEFINE m(i) == Meaning(trees[i], row)
<1>1. \A i \in 1 .. Len(trees) : m(i) \in Truths
  <2>1. ASSUME NEW t \in Trees PROVE Meaning(t, row) \in Truths
    BY MeaningOf
  <2> QED BY <2>1
<1>2. \A k : MeaningsOf(trees, row, k) = {m(i) : i \in 1 .. k}
  BY DEF MeaningsOf
<1> HIDE DEF m
<1>3. ASSUME NEW k \in 1 .. Len(trees)
      PROVE  MeaningsOf(trees, row, k) # {} /\ MeaningsOf(trees, row, k) \subseteq Truths
  <2>1. m(1) \in {m(i) : i \in 1 .. k}
    OBVIOUS
  <2>2. {m(i) : i \in 1 .. k} \subseteq Truths
    BY <1>1
  <2> QED BY <1>2, <2>1, <2>2
<1>4. ASSUME NEW k \in Nat, k < Len(trees)
      PROVE  /\ m(k + 1) \in Truths
             /\ MeaningsOf(trees, row, k + 1) = MeaningsOf(trees, row, k) \union {m(k + 1)}
  <2>1. k + 1 \in 1 .. Len(trees)
    BY <1>4
  <2>2. \A i : i \in 1 .. k + 1 <=> i \in 1 .. k \/ i = k + 1
    OBVIOUS
  <2>3. {m(i) : i \in 1 .. k + 1} = {m(i) : i \in 1 .. k} \union {m(k + 1)}
    BY <2>2
  <2> QED BY <1>1, <1>2, <2>1, <2>3
<1> QED BY <1>3, <1>4 DEF m

\* One tree alone is a chain.
LEMMA FirstChains ==
  ASSUME NEW W \in Seq(Tokens), NEW bound, NEW row, GoodRow(row), NEW p, NEW op \in {"AND", "OR"},
         NEW n \in Nat, NoneDone(n) \in DoneType, NEW one \in RenderedType, NEW b \in Truths,
         \A q \in Nat : Stands(W, bound, q, one.text, one.args) =>
                          Reads(W, bound, row, q, q + Len(one.text), b),
         NEW S, S = {b}
  PROVE  ChainsRight(W, bound, row, p, op, Continue(NoneDone(n), one), S)
<1> DEFINE next == Continue(NoneDone(n), one)
<1>1. one.text \in Seq(Tokens) /\ one.args \in Seq(Values)
  BY DEF RenderedType
<1>2. next.parts = Append(<<>>, one.text) /\ next.args = <<>> \o one.args
  BY DEF Continue, NoneDone
<1> HIDE DEF next
<1>3. next.args = one.args
  BY <1>1, <1>2
<1>4. Joined(op, next.parts) = one.text
  <2>1. <<>> \in Seq(Seq(Tokens))
    OBVIOUS
  <2>2. /\ Joined(op, <<>>) \in Seq(Tokens)
        /\ Joined(op, Append(<<>>, one.text)) = Joined(op, <<>>) \o Glued(op, <<>>, one.text)
    BY <1>1, <2>1, JoinedAppend
  <2>3. Joined(op, <<>>) = <<>>
    BY DEF Joined, FlattenSeq
  <2>4. Glued(op, <<>>, one.text) = one.text
    BY DEF Glued
  <2>5. PICK x \in Seq(Tokens) : x = one.text
    BY <1>1
  <2>6. <<>> \o x = x
    OBVIOUS
  <2> QED BY <1>2, <2>2, <2>3, <2>4, <2>5, <2>6
<1>5. Combined(op, S) = b
  BY CombinedOne
<1>6. ASSUME Stands(W, bound, p, one.text, one.args)
      PROVE  Chained(W, bound, row, p, p + Len(one.text), op, b)
  <2>1. p \in Nat
    BY <1>6 DEF Stands, Segment
  <2>2. Reads(W, bound, row, p, p + Len(one.text), b)
    BY <1>6, <2>1
  <2> QED BY <2>2, ReadsChained
<1> QED BY <1>3, <1>4, <1>5, <1>6 DEF ChainsRight, next

\* One more tree makes the chain longer.
LEMMA NextChains ==
  ASSUME NEW W \in Seq(Tokens), NEW bound, NEW row, GoodRow(row), NEW p, NEW op \in {"AND", "OR"},
         NEW d \in DoneType, d.parts # <<>>, Len(Numbers(Joined(op, d.parts))) = Len(d.args),
         NEW S, SomeTruths(S), ChainsRight(W, bound, row, p, op, d, S),
         NEW one \in RenderedType, NEW b \in Truths,
         \A q \in Nat : Stands(W, bound, q, one.text, one.args) =>
                          Reads(W, bound, row, q, q + Len(one.text), b)
  PROVE  ChainsRight(W, bound, row, p, op, Continue(d, one), More(S, b))
<1> DEFINE next == Continue(d, one)
           a == Joined(op, d.parts)
           joined == Joined(op, next.parts)
<1>1. /\ one.text \in Seq(Tokens) /\ one.args \in Seq(Values)
      /\ d.args \in Seq(Values) /\ d.parts \in Seq(Seq(Tokens))
  BY DEF RenderedType, DoneType
<1>2. next.parts = Append(d.parts, one.text) /\ next.args = d.args \o one.args
  BY DEF Continue
<1>3. a \in Seq(Tokens) /\ joined = a \o (<<Sign(op)>> \o one.text)
  <2>1. /\ a \in Seq(Tokens)
        /\ Joined(op, Append(d.parts, one.text)) = a \o Glued(op, d.parts, one.text)
    BY <1>1, JoinedAppend
  <2>2. Glued(op, d.parts, one.text) = <<Sign(op)>> \o one.text
    BY DEF Glued
  <2> QED BY <1>2, <2>1, <2>2
<1>4. Len(Numbers(a)) = Len(d.args)
  OBVIOUS
<1>5. Stands(W, bound, p, a, d.args) => Chained(W, bound, row, p, p + Len(a), op, Combined(op, S))
  BY DEF ChainsRight
<1> HIDE DEF a, joined, next
<1>6. ASSUME Stands(W, bound, p, joined, next.args)
      PROVE  Chained(W, bound, row, p, p + Len(joined), op, Combined(op, More(S, b)))
  <2>1. PICK x \in Seq(Tokens), u \in Seq(Values), v \in Seq(Values) :
          x = one.text /\ u = d.args /\ v = one.args
    BY <1>1
  <2>2. joined = a \o Prefixed(op, x) /\ next.args = u \o v
    BY <1>2, <1>3, <2>1 DEF Prefixed
  <2>3. Len(Numbers(a)) = Len(u)
    BY <1>4, <2>1
  <2>4. Stands(W, bound, p, a, u) => Chained(W, bound, row, p, p + Len(a), op, Combined(op, S))
    BY <1>5, <2>1
  <2>5. \A q \in Nat : Stands(W, bound, q, x, v) => Reads(W, bound, row, q, q + Len(x), b)
    BY <2>1
  <2>6. Chained(W, bound, row, p, p + Len(joined), op, Combined(op, More(S, b)))
    BY ZenonT(40), <1>3, <1>6, <2>2, <2>3, <2>4, <2>5, NextReads
  <2> QED BY <2>6
<1> QED BY <1>6 DEF ChainsRight, joined, next

LEMMA TurnReads ==
  ASSUME NEW W \in Seq(Tokens), NEW bound, NEW row, GoodRow(row), NEW p, NEW op \in {"AND", "OR"},
         NEW trees \in Seq(Trees), NEW n \in Nat,
         \A i \in 1 .. Len(trees) : ReadsRight(W, bound, row, trees[i])
  PROVE  \A k \in 1 .. Len(trees) :
           ChainsRight(W, bound, row, p, op, Turn(trees, n, k), MeaningsOf(trees, row, k))
<1> DEFINE P(k) == ChainsRight(W, bound, row, p, op, Turn(trees, n, k), MeaningsOf(trees, row, k))
           N == {k \in Nat : k + 1 \in 1 .. Len(trees) => P(k + 1)}
<1>1. Len(trees) \in Nat
  OBVIOUS
<1>2. ASSUME NEW k \in Nat, k < Len(trees), NEW d \in DoneType, d = Turn(trees, n, k)
      PROVE  \E one \in RenderedType :
               /\ Turn(trees, n, k + 1) = Continue(d, one)
               /\ \A q \in Nat : Stands(W, bound, q, one.text, one.args) =>
                    Reads(W, bound, row, q, q + Len(one.text), Meaning(trees[k + 1], row))
  <2> DEFINE one == RenderPredicate[trees[k + 1]][d.next]
  <2>1. trees[k + 1] \in Trees /\ k + 1 \in 1 .. Len(trees) /\ d.next \in Nat
    BY <1>1, <1>2 DEF DoneType
  <2>2. one \in RenderedType
    BY <2>1, TreeRendered
  <2>3. Turn(trees, n, k + 1) = Continue(d, one)
    BY <1>2, TurnStep
  <2>4. \A q \in Nat : Stands(W, bound, q, one.text, one.args) =>
          Reads(W, bound, row, q, q + Len(one.text), Meaning(trees[k + 1], row))
    BY <2>1 DEF ReadsRight
  <2> HIDE DEF one
  <2> QED BY <2>2, <2>3, <2>4
<1>3. 0 \in N
  <2>1. ASSUME 1 \in 1 .. Len(trees) PROVE P(1)
    <3>1. Turn(trees, n, 0) = NoneDone(n) /\ NoneDone(n) \in DoneType /\ 0 < Len(trees)
      BY <1>1, <2>1, TurnStep
    <3>2. PICK one \in RenderedType :
            /\ Turn(trees, n, 0 + 1) = Continue(NoneDone(n), one)
            /\ \A q \in Nat : Stands(W, bound, q, one.text, one.args) =>
                 Reads(W, bound, row, q, q + Len(one.text), Meaning(trees[0 + 1], row))
      BY <1>2, <3>1
    <3>3. PICK b \in Truths : b = Meaning(trees[1], row)
      BY <3>1, MeaningsGrow
    <3>4. PICK S : S = MeaningsOf(trees, row, 1)
      OBVIOUS
    <3>5. S = {b}
      <4>1. \A i : i \in 1 .. 1 <=> i = 1
        OBVIOUS
      <4> QED BY <3>3, <3>4, <4>1 DEF MeaningsOf
    <3>6. \A q \in Nat : Stands(W, bound, q, one.text, one.args) =>
            Reads(W, bound, row, q, q + Len(one.text), b)
      BY <3>2, <3>3
    <3>7. ChainsRight(W, bound, row, p, op, Continue(NoneDone(n), one), S)
      BY <3>1, <3>5, <3>6, FirstChains
    <3> QED BY <3>2, <3>4, <3>7
  <2> QED BY <2>1
<1>4. ASSUME NEW k \in Nat, k \in N PROVE k + 1 \in N
  <2>1. ASSUME (k + 1) + 1 \in 1 .. Len(trees) PROVE P((k + 1) + 1)
    <3>1. PICK m \in Nat : m = k + 1
      OBVIOUS
    <3>2. m \in 1 .. Len(trees) /\ m \in 0 .. Len(trees) /\ m < Len(trees) /\ m # 0
      BY <1>1, <2>1, <3>1
    <3>3. ChainsRight(W, bound, row, p, op, Turn(trees, n, m), MeaningsOf(trees, row, m))
      BY <1>4, <3>1, <3>2
    <3>4. PICK d \in DoneType : d = Turn(trees, n, m)
      BY <3>2, TurnStep
    <3>5. Kept(op, n, d, m)
      BY <3>2, <3>4, TurnKeeps
    <3>6. d.parts # <<>> /\ Len(Numbers(Joined(op, d.parts))) = Len(d.args)
      <4>1. Len(d.parts) = m /\ Len(Numbers(Joined(op, d.parts))) = Len(d.args)
        BY <3>5 DEF Kept
      <4>2. Len(<<>>) = 0
        OBVIOUS
      <4> QED BY <3>2, <4>1, <4>2
    <3>7. PICK S : S = MeaningsOf(trees, row, m)
      OBVIOUS
    <3>8. PICK b \in Truths : b = Meaning(trees[m + 1], row)
      BY <3>2, MeaningsGrow
    <3>9. SomeTruths(S) /\ MeaningsOf(trees, row, m + 1) = More(S, b)
      BY <3>2, <3>7, <3>8, MeaningsGrow DEF SomeTruths, More
    <3>10. PICK one \in RenderedType :
             /\ Turn(trees, n, m + 1) = Continue(d, one)
             /\ \A q \in Nat : Stands(W, bound, q, one.text, one.args) =>
                  Reads(W, bound, row, q, q + Len(one.text), Meaning(trees[m + 1], row))
      BY <1>2, <3>2, <3>4
    <3>11. \A q \in Nat : Stands(W, bound, q, one.text, one.args) =>
             Reads(W, bound, row, q, q + Len(one.text), b)
      BY <3>8, <3>10
    <3>12. ChainsRight(W, bound, row, p, op, d, S)
      BY <3>3, <3>4, <3>7
    <3>13. ChainsRight(W, bound, row, p, op, Continue(d, one), More(S, b))
      BY <3>6, <3>9, <3>11, <3>12, NextChains
    <3> QED BY <3>1, <3>9, <3>10, <3>13
  <2> QED BY <2>1
<1> HIDE DEF P, N
<1>5. Nat \subseteq N
  BY <1>3, <1>4, NatSetInduction
<1>6. ASSUME NEW k \in 1 .. Len(trees) PROVE P(k)
  <2>1. k - 1 \in Nat /\ (k - 1) + 1 = k
    BY <1>1
  <2>2. k - 1 \in N
    BY <1>5, <2>1
  <2> QED BY <2>1, <2>2 DEF N
<1> QED BY <1>6 DEF P

LEMMA LeafReads ==
  ASSUME NEW W \in Seq(Tokens), NEW bound, NEW row, GoodRow(row), NEW t \in Trees, t.kind = "leaf"
  PROVE  ReadsRight(W, bound, row, t)
<1> SUFFICES ASSUME NEW n \in Nat, NEW p \in Nat,
                    Stands(W, bound, p, RenderPredicate[t][n].text, RenderPredicate[t][n].args)
             PROVE  Reads(W, bound, row, p, p + Len(RenderPredicate[t][n].text), Meaning(t, row))
  BY DEF ReadsRight
<1> DEFINE token == Comparison(t, n)
           x == <<token>>
           values == t.values
<1>1. RenderPredicate[t][n].text = x /\ RenderPredicate[t][n].args = values
  <2>1. RenderPredicate[t][n] = Rendering(RenderPredicate, t, n)
    BY RenderDefined
  <2>2. Rendering(RenderPredicate, t, n) = [text |-> x, args |-> values, next |-> n + Len(values)]
    BY DEF Rendering
  <2> QED BY <2>1, <2>2
<1>2. token.token = "compare" /\ token.op = t.op /\ token.columns = t.columns
      /\ DOMAIN token.numbers = DOMAIN values
  BY DEF Comparison
<1>3. values \in Seq(Values) /\ Len(values) \in Nat /\ DOMAIN values = 1 .. Len(values)
  BY TreeFacts
<1>4. Len(x) = 1 /\ x[1] = token
  OBVIOUS
<1>5. Stands(W, bound, p, x, values)
  BY <1>1
<1> HIDE DEF x, token, values
<1>6. /\ p + 1 \in 1 .. Len(W) /\ (p + 1) - 1 = p /\ W[p + 1] = token
      /\ \A k \in 1 .. Len(values) : bound[Before(W, p) + k] = values[k]
  BY <1>4, <1>5 DEF Stands, Segment
<1>7. Reads(W, bound, row, (p + 1) - 1, p + 1, Truth(row, AtomAt(W, bound, p + 1)))
  BY <1>2, <1>6, ComparisonReads
<1>8. AtomAt(W, bound, p + 1) = Atom(t.op, t.columns, values)
  <2>1. AtomAt(W, bound, p + 1)
          = Atom(token.op, token.columns, [k \in DOMAIN token.numbers |-> bound[Before(W, p) + k]])
    BY <1>6 DEF AtomAt, Before
  <2>2. [k \in DOMAIN token.numbers |-> bound[Before(W, p) + k]] = [k \in 1 .. Len(values) |-> values[k]]
    BY <1>2, <1>3, <1>6
  <2>3. [k \in 1 .. Len(values) |-> values[k]] = values
    BY <1>3
  <2> QED BY <1>2, <2>1, <2>2, <2>3
<1>9. Meaning(t, row) = Truth(row, Atom(t.op, t.columns, values))
  BY MeaningOf DEF values
<1> QED BY <1>1, <1>4, <1>6, <1>7, <1>8, <1>9

\* What an inner node renders to.
LEMMA NodeRendered ==
  ASSUME NEW t \in Trees, t.kind # "leaf", NEW n \in Nat
  PROVE  /\ RenderPredicate[t][n].text =
              IF t.kind = "NOT" THEN Negated(Turn(t.children, n, Len(t.children)).parts[1])
              ELSE Grouped(t.kind, Turn(t.children, n, Len(t.children)).parts)
         /\ RenderPredicate[t][n].args = Turn(t.children, n, Len(t.children)).args
<1> DEFINE d == Turn(t.children, n, Len(t.children))
           r == RenderInTurn(Below(RenderPredicate, t), n)
<1>1. DOMAIN t.children = 1 .. Len(t.children)
  BY TreeFacts
<1>2. r = d
  BY <1>1, Zenon DEF Turn, Below
<1>3. RenderPredicate[t][n] = Rendering(RenderPredicate, t, n)
  BY RenderDefined
<1>4. Rendering(RenderPredicate, t, n) =
        [text |-> IF t.kind = "NOT" THEN Negated(r.parts[1]) ELSE Grouped(t.kind, r.parts),
         args |-> r.args, next |-> r.next]
  BY DEF Rendering
<1> HIDE DEF r, d
<1> QED BY <1>2, <1>3, <1>4 DEF d

LEMMA GroupReadsRight ==
  ASSUME NEW W \in Seq(Tokens), NEW bound, NEW row, GoodRow(row), NEW t \in Trees,
         t.kind \in {"AND", "OR"},
         \A i \in 1 .. Len(t.children) : ReadsRight(W, bound, row, t.children[i])
  PROVE  ReadsRight(W, bound, row, t)
<1> SUFFICES ASSUME NEW n \in Nat, NEW p \in Nat,
                    Stands(W, bound, p, RenderPredicate[t][n].text, RenderPredicate[t][n].args)
             PROVE  Reads(W, bound, row, p, p + Len(RenderPredicate[t][n].text), Meaning(t, row))
  BY DEF ReadsRight
<1> DEFINE trees == t.children
           k == Len(trees)
           op == t.kind
<1>1. trees \in Seq(Trees) /\ k \in Nat /\ k \in 1 .. k /\ op # "NOT" /\ op # "leaf"
  BY TreeFacts, SomeChild
<1>2. PICK d : d = Turn(trees, n, k)
  OBVIOUS
<1>3. RenderPredicate[t][n].text = Grouped(op, d.parts) /\ RenderPredicate[t][n].args = d.args
  BY <1>1, <1>2, NodeRendered
<1>4. PICK S : S = MeaningsOf(trees, row, k)
  OBVIOUS
<1>5. PICK m : m = Combined(op, S)
  OBVIOUS
<1>6. Meaning(t, row) = m
  BY <1>4, <1>5, MeaningOf DEF MeaningsOf
<1>7. op \in {"AND", "OR"} /\ \A i \in 1 .. Len(trees) : ReadsRight(W, bound, row, trees[i])
  OBVIOUS
<1>8. Stands(W, bound, p, Grouped(op, d.parts), d.args)
  BY <1>3
<1> HIDE DEF trees, k, op
<1>9. Kept(op, n, d, k)
  <2>1. k \in 0 .. Len(trees)
    BY <1>1 DEF k
  <2> QED BY <1>1, <1>2, <1>7, <2>1, TurnKeeps
<1>10. /\ d.parts \in Seq(Seq(Tokens)) /\ d.args \in Seq(Values)
       /\ Len(Numbers(Joined(op, d.parts))) = Len(d.args)
  BY <1>9 DEF Kept, DoneType
<1>11. ASSUME NEW q \in Nat, Stands(W, bound, q, Joined(op, d.parts), d.args)
       PROVE  Chained(W, bound, row, q, q + Len(Joined(op, d.parts)), op, m)
  <2>1. ChainsRight(W, bound, row, q, op, Turn(trees, n, k), MeaningsOf(trees, row, k))
    <3>1. k \in 1 .. Len(trees)
      BY <1>1 DEF k
    <3> QED BY <1>1, <1>7, <3>1, TurnReads
  <2>2. ChainsRight(W, bound, row, q, op, d, S)
    BY <1>2, <1>4, <2>1
  <2> QED BY <1>5, <1>11, <2>2 DEF ChainsRight
<1>12. PICK parts \in Seq(Seq(Tokens)), v \in Seq(Values) : parts = d.parts /\ v = d.args
  BY <1>10
<1>13. /\ Len(Numbers(Joined(op, parts))) = Len(v)
       /\ Stands(W, bound, p, Grouped(op, parts), v)
       /\ \A q \in Nat : Stands(W, bound, q, Joined(op, parts), v) =>
                           Chained(W, bound, row, q, q + Len(Joined(op, parts)), op, m)
  BY <1>8, <1>10, <1>11, <1>12
<1>14. Reads(W, bound, row, p, p + Len(Grouped(op, parts)), m)
  BY <1>7, <1>13, GroupedReads
<1> QED BY <1>3, <1>6, <1>12, <1>14

LEMMA NotReadsRight ==
  ASSUME NEW W \in Seq(Tokens), NEW bound, NEW row, GoodRow(row), NEW t \in Trees,
         t.kind = "NOT", ReadsRight(W, bound, row, t.children[1])
  PROVE  ReadsRight(W, bound, row, t)
<1> SUFFICES ASSUME NEW n \in Nat, NEW p \in Nat,
                    Stands(W, bound, p, RenderPredicate[t][n].text, RenderPredicate[t][n].args)
             PROVE  Reads(W, bound, row, p, p + Len(RenderPredicate[t][n].text), Meaning(t, row))
  BY DEF ReadsRight
<1>1. /\ t.kind # "leaf" /\ Len(t.children) = 1 /\ t.children \in Seq(Trees)
      /\ t.children[1] \in Trees
  BY TreeFacts
<1> DEFINE trees == t.children
           child == trees[1]
           d == Turn(trees, n, 1)
           one == RenderPredicate[child][n]
           m == Meaning(child, row)
<1>2. RenderPredicate[t][n].text = Negated(d.parts[1]) /\ RenderPredicate[t][n].args = d.args
  BY <1>1, NodeRendered
<1>3. Meaning(t, row) = 2 - m
  BY MeaningOf
<1>4. one.text \in Seq(Tokens) /\ one.args \in Seq(Values) /\ Len(Numbers(one.text)) = Len(one.args)
  BY <1>1, TreeRendered
<1>5. \A q \in Nat : Stands(W, bound, q, one.text, one.args) =>
                       Reads(W, bound, row, q, q + Len(one.text), m)
  BY DEF ReadsRight
<1>6. d = Continue(NoneDone(n), one)
  <2>1. Turn(trees, n, 0) = NoneDone(n) /\ 0 < Len(trees) /\ NoneDone(n).next = n
    BY <1>1, TurnStep DEF NoneDone
  <2>2. Turn(trees, n, 0 + 1)
          = Continue(Turn(trees, n, 0), RenderPredicate[trees[0 + 1]][Turn(trees, n, 0).next])
    BY <1>1, <2>1, TurnStep
  <2> QED BY <2>1, <2>2
<1>7. Stands(W, bound, p, Negated(d.parts[1]), d.args)
  BY <1>2
<1> HIDE DEF one, d, m, child
<1>8. d.parts = Append(<<>>, one.text) /\ d.args = <<>> \o one.args
  BY <1>6 DEF Continue, NoneDone
<1>9. PICK x \in Seq(Tokens), v \in Seq(Values) : x = one.text /\ v = one.args
  BY <1>4
<1>10. d.parts[1] = x /\ d.args = v
  <2>1. Append(<<>>, x)[1] = x /\ <<>> \o v = v
    OBVIOUS
  <2> QED BY <1>8, <1>9, <2>1
<1>11. /\ Len(Numbers(x)) = Len(v) /\ Stands(W, bound, p, Negated(x), v)
       /\ \A q \in Nat : Stands(W, bound, q, x, v) => Reads(W, bound, row, q, q + Len(x), m)
  BY <1>4, <1>5, <1>7, <1>9, <1>10
<1>12. Reads(W, bound, row, p, p + Len(Negated(x)), 2 - m)
  BY <1>11, NegatedReads
<1> QED BY <1>2, <1>3, <1>10, <1>12

\* Wherever the text of a predicate is written, with its values bound, the
\* database reads it as the predicate the caller built, however predicates are
\* nested: renderPredicate puts every group it opens in parentheses of its own.
THEOREM WrittenAsMeant ==
  ASSUME NEW W \in Seq(Tokens), NEW bound, NEW row, GoodRow(row)
  PROVE  \A t \in Trees : ReadsRight(W, bound, row, t)
<1> DEFINE P == {t \in Trees : ReadsRight(W, bound, row, t)}
<1>1. ASSUME NEW t \in Trees, \A s \in Trees : Height[s] < Height[t] => s \in P
      PROVE  t \in P
  <2>1. CASE t.kind = "leaf"
    BY <2>1, LeafReads
  <2>2. CASE t.kind # "leaf"
    <3>1. \A i \in 1 .. Len(t.children) : ReadsRight(W, bound, row, t.children[i])
      BY <1>1, TreeFacts
    <3>2. ReadsRight(W, bound, row, t.children[1])
      BY <2>2, <3>1, SomeChild
    <3>3. t.kind \in {"AND", "OR"} \/ t.kind = "NOT"
      BY <2>2, TreeFacts
    <3>4. ReadsRight(W, bound, row, t)
      BY <3>1, <3>2, <3>3, GroupReadsRight, NotReadsRight
    <3> QED BY <3>4
  <2> QED BY <2>1, <2>2
<1> HIDE DEF P
<1>2. Trees \subseteq P
  BY ZenonT(40), <1>1, TreeFacts, RankInduction
<1> QED BY <1>2 DEF P
-----------------------------------------------------------------------------
(***************************************************************************)
(* The columns named in a text.                                            *)
(***************************************************************************)
LEMMA PredicateColumnsDefined ==
  /\ PredicateColumns \in [Trees -> Seq(ColumnType)]
  /\ \A t \in Trees :
       PredicateColumns[t] =
         IF t.kind = "leaf" THEN t.columns ELSE FlattenSeq(Below(PredicateColumns, t))
<1> DEFINE V == Seq(ColumnType)
           Body(f, t) == IF t.kind = "leaf" THEN t.columns ELSE FlattenSeq(Below(f, t))
           G == [f \in [Trees -> V] |-> [t \in Trees |-> Body(f, t)]]
<1>1. V # {} /\ Height \in [Trees -> Nat]
  <2>1. <<>> \in V
    OBVIOUS
  <2> HIDE DEF V
  <2> QED BY <2>1, TreeFacts
<1>2. ASSUME NEW f \in [Trees -> V], NEW t \in Trees PROVE Body(f, t) \in V
  <2>1. Below(f, t) \in Seq(Seq(ColumnType)) /\ <<>> \in Seq(ColumnType)
    BY BelowType
  <2>2. FlattenSeq(Below(f, t)) \in Seq(ColumnType)
    BY <2>1, FlattenAppend
  <2> QED BY <2>2, TreeFacts
<1>3. ASSUME NEW f, NEW g, NEW t \in Trees,
             \A s \in Trees : Height[s] < Height[t] => f[s] = g[s]
      PROVE  Body(f, t) = Body(g, t)
  BY <1>3, BelowAgrees
<1>4. PICK columns \in [Trees -> V] : columns = [t \in Trees |-> Body(columns, t)]
  <2> HIDE DEF V, Body
  <2>1. G \in [[Trees -> V] -> [Trees -> V]]
    BY <1>2
  <2>2. \A f \in [Trees -> V] : G[f] = [t \in Trees |-> Body(f, t)]
    OBVIOUS
  <2>3. \A f \in [Trees -> V] : \A t \in Trees : G[f][t] = Body(f, t)
    BY <2>2
  <2> HIDE DEF G
  <2>4. Recursion(G, Trees, V, Height)
    BY <1>1, <1>3, <2>1, <2>3 DEF Recursion
  <2>5. Defines(G, Trees, V)
    BY <2>4, RecursionExists
  <2> QED BY <2>2, <2>5 DEF Defines
<1>5. PredicateColumns = [t \in Trees |-> Body(PredicateColumns, t)]
  BY <1>4, Zenon DEF PredicateColumns, Below
<1>6. \A t \in Trees : PredicateColumns[t] = columns[t]
  <2> DEFINE P == {t \in Trees : PredicateColumns[t] = columns[t]}
  <2>1. ASSUME NEW t \in Trees, \A s \in Trees : Height[s] < Height[t] => s \in P
        PROVE  t \in P
    <3>1. Body(PredicateColumns, t) = Body(columns, t)
      BY <1>3, <2>1
    <3> HIDE DEF Body
    <3> QED BY <1>4, <1>5, <3>1
  <2> HIDE DEF P
  <2>2. Trees \subseteq P
    BY <1>1, <2>1, RankInduction
  <2> QED BY <2>2 DEF P
<1> HIDE DEF V, Body
<1>7. PredicateColumns = columns
  BY <1>4, <1>5, <1>6
<1>8. \A t \in Trees : PredicateColumns[t] = Body(PredicateColumns, t)
  BY <1>5
<1> QED BY <1>4, <1>7, <1>8 DEF V, Body

\* Lists of columns in scope, one after another.
LEMMA InScopeConcat ==
  ASSUME NEW a \in Seq(ColumnType), NEW b \in Seq(ColumnType), NEW S
  PROVE  InScope(a \o b, S) => InScope(a, S) /\ InScope(b, S)
<1> DEFINE whole == a \o b
           la == Len(a)
           lb == Len(b)
<1>1. /\ DOMAIN whole = 1 .. la + lb /\ la \in Nat /\ lb \in Nat
      /\ DOMAIN a = 1 .. la /\ DOMAIN b = 1 .. lb
      /\ \A i \in 1 .. la + lb : whole[i] = IF i <= la THEN a[i] ELSE b[i - la]
  <2>1. /\ whole \in Seq(ColumnType) /\ Len(whole) = la + lb
        /\ \A i \in 1 .. la + lb : whole[i] = IF i <= la THEN a[i] ELSE b[i - la]
    BY Concatenation
  <2> HIDE DEF whole
  <2> QED BY <2>1
<1> HIDE DEF whole, la, lb
<1> SUFFICES ASSUME InScope(whole, S) PROVE InScope(a, S) /\ InScope(b, S)
  BY DEF whole
<1>2. \A i \in 1 .. la + lb : whole[i].qualifier \in S
  BY <1>1 DEF InScope
<1>3. ASSUME NEW i \in 1 .. la PROVE a[i].qualifier \in S
  <2>1. i \in 1 .. la + lb /\ i <= la
    BY <1>1
  <2> QED BY <1>1, <1>2, <2>1
<1>4. ASSUME NEW i \in 1 .. lb PROVE b[i].qualifier \in S
  <2>1. la + i \in 1 .. la + lb /\ ~(la + i <= la) /\ (la + i) - la = i
    BY <1>1
  <2> QED BY <1>1, <1>2, <2>1
<1> QED BY <1>1, <1>3, <1>4 DEF InScope

LEMMA InScopeParts ==
  ASSUME NEW S
  PROVE  \A lists \in Seq(Seq(ColumnType)) :
           InScope(FlattenSeq(lists), S) => \A i \in DOMAIN lists : InScope(lists[i], S)
<1> DEFINE T == Seq(ColumnType)
           P == {l \in Seq(T) : InScope(FlattenSeq(l), S) => \A i \in DOMAIN l : InScope(l[i], S)}
<1>1. <<>> \in P
  OBVIOUS
<1>2. \A l \in P : \A x \in T : Append(l, x) \in P
  <2> SUFFICES ASSUME NEW l \in P, NEW x \in T PROVE Append(l, x) \in P
    OBVIOUS
  <2>1. l \in Seq(T) /\ x \in Seq(ColumnType)
    OBVIOUS
  <2>2. /\ FlattenSeq(l) \in Seq(ColumnType)
        /\ FlattenSeq(Append(l, x)) = FlattenSeq(l) \o x
    BY <2>1, FlattenAppend
  <2>3. InScope(FlattenSeq(Append(l, x)), S) => InScope(FlattenSeq(l), S) /\ InScope(x, S)
    BY <2>1, <2>2, InScopeConcat
  <2>4. InScope(FlattenSeq(l), S) => \A i \in DOMAIN l : InScope(l[i], S)
    OBVIOUS
  <2> HIDE DEF T
  <2>5. /\ Append(l, x) \in Seq(T) /\ DOMAIN Append(l, x) = 1 .. Len(l) + 1
        /\ DOMAIN l = 1 .. Len(l) /\ Len(l) \in Nat
        /\ \A i \in 1 .. Len(l) : Append(l, x)[i] = l[i]
        /\ Append(l, x)[Len(l) + 1] = x
    BY <2>1 DEF T
  <2>6. \A i \in 1 .. Len(l) + 1 : i \in 1 .. Len(l) \/ i = Len(l) + 1
    BY <2>5
  <2>7. InScope(FlattenSeq(Append(l, x)), S) =>
          \A i \in DOMAIN Append(l, x) : InScope(Append(l, x)[i], S)
    BY <2>3, <2>4, <2>5, <2>6
  <2> QED BY <2>5, <2>7
<1> HIDE DEF P, T
<1>3. Seq(T) \subseteq P
  BY <1>1, <1>2, AppendInduction
<1> QED BY <1>3 DEF P, T

\* Every comparison of a text names columns in scope.
Scoped(x, S) == \A i \in 1 .. Len(x) : InScope(x[i].columns, S)

LEMMA ScopedConcat ==
  ASSUME NEW a \in Seq(Tokens), NEW b \in Seq(Tokens), NEW S, Scoped(a, S), Scoped(b, S)
  PROVE  Scoped(a \o b, S)
<1> DEFINE whole == a \o b
           la == Len(a)
           lb == Len(b)
<1>1. /\ Len(whole) = la + lb /\ la \in Nat /\ lb \in Nat
      /\ \A i \in 1 .. la + lb : whole[i] = IF i <= la THEN a[i] ELSE b[i - la]
  BY Concatenation
<1>2. /\ \A i \in 1 .. la : InScope(a[i].columns, S)
      /\ \A i \in 1 .. lb : InScope(b[i].columns, S)
  BY DEF Scoped
<1> HIDE DEF whole, la, lb
<1>3. ASSUME NEW i \in 1 .. la + lb PROVE InScope(whole[i].columns, S)
  <2>1. CASE i <= la
    <3>1. i \in 1 .. la
      BY <1>1, <2>1
    <3> QED BY <1>1, <1>2, <2>1, <3>1
  <2>2. CASE ~(i <= la)
    <3>1. i - la \in 1 .. lb
      BY <1>1, <2>2
    <3> QED BY <1>1, <1>2, <2>2, <3>1
  <2> QED BY <2>1, <2>2
<1> QED BY <1>1, <1>3 DEF Scoped, whole

LEMMA ScopedSign ==
  ASSUME NEW symbol, NEW S
  PROVE  Scoped(<<Sign(symbol)>>, S)
<1> DEFINE sign == Sign(symbol)
<1>1. sign.columns = <<>>
  BY DEF Sign
<1>2. InScope(<<>>, S)
  BY DEF InScope
<1> HIDE DEF sign
<1>3. Len(<<sign>>) = 1 /\ <<sign>>[1] = sign
  OBVIOUS
<1>4. \A i \in 1 .. 1 : i = 1
  OBVIOUS
<1>5. Scoped(<<sign>>, S)
  BY <1>1, <1>2, <1>3, <1>4 DEF Scoped
<1> QED BY <1>5 DEF sign

\* However deep it is, a predicate whose collected columns are in scope is
\* written with columns in scope only.
ScopedTree(t, S) == \A n \in Nat : Scoped(RenderPredicate[t][n].text, S)

LEMMA TurnScoped ==
  ASSUME NEW op \in {"AND", "OR"}, NEW trees \in Seq(Trees), NEW n \in Nat, NEW S,
         \A i \in 1 .. Len(trees) : ScopedTree(trees[i], S)
  PROVE  \A k \in 0 .. Len(trees) : Scoped(Joined(op, Turn(trees, n, k).parts), S)
<1> DEFINE P(k) == Scoped(Joined(op, Turn(trees, n, k).parts), S)
           N == {k \in Nat : k \in 0 .. Len(trees) => P(k)}
<1>1. Len(trees) \in Nat
  OBVIOUS
<1>2. 0 \in N
  <2>1. Turn(trees, n, 0).parts = <<>>
    BY TurnStep DEF NoneDone
  <2>2. Joined(op, <<>>) = <<>>
    BY DEF Joined, FlattenSeq
  <2>3. Scoped(<<>>, S)
    BY DEF Scoped
  <2> QED BY <2>1, <2>2, <2>3
<1>3. ASSUME NEW k \in Nat, k \in N PROVE k + 1 \in N
  <2>1. ASSUME k + 1 \in 0 .. Len(trees) PROVE P(k + 1)
    <3>1. k \in 0 .. Len(trees) /\ k < Len(trees) /\ k + 1 \in 1 .. Len(trees) /\ trees[k + 1] \in Trees
      BY <1>1, <2>1
    <3>2. P(k)
      BY <1>3, <3>1
    <3>3. PICK d \in DoneType : d = Turn(trees, n, k)
      BY <3>1, TurnStep
    <3>4. d.next \in Nat /\ d.parts \in Seq(Seq(Tokens))
      BY DEF DoneType
    <3> DEFINE one == RenderPredicate[trees[k + 1]][d.next]
    <3>5. one.text \in Seq(Tokens) /\ Scoped(one.text, S)
      BY <3>1, <3>4, TreeRendered DEF ScopedTree
    <3>6. Turn(trees, n, k + 1) = Continue(d, one)
      BY <3>1, <3>3, TurnStep
    <3> HIDE DEF one
    <3>7. Turn(trees, n, k + 1).parts = Append(d.parts, one.text)
      BY <3>6 DEF Continue
    <3>8. /\ Joined(op, d.parts) \in Seq(Tokens)
          /\ Joined(op, Append(d.parts, one.text)) = Joined(op, d.parts) \o Glued(op, d.parts, one.text)
      BY <3>4, <3>5, JoinedAppend
    <3>9. Glued(op, d.parts, one.text) \in Seq(Tokens) /\ Scoped(Glued(op, d.parts, one.text), S)
      <4>1. CASE d.parts = <<>>
        BY <3>5, <4>1 DEF Glued
      <4>2. CASE d.parts # <<>>
        <5>1. <<Sign(op)>> \in Seq(Tokens) /\ <<Sign(op)>> \o one.text \in Seq(Tokens)
          BY <3>5, SignNumbers
        <5>2. Scoped(<<Sign(op)>>, S)
          BY ScopedSign
        <5>3. Scoped(<<Sign(op)>> \o one.text, S)
          BY <3>5, <5>1, <5>2, ScopedConcat
        <5> QED BY <4>2, <5>1, <5>3 DEF Glued
      <4> QED BY <4>1, <4>2
    <3>10. Scoped(Joined(op, d.parts) \o Glued(op, d.parts, one.text), S)
      BY <3>2, <3>3, <3>8, <3>9, ScopedConcat
    <3> QED BY <3>7, <3>8, <3>10
  <2> QED BY <2>1
<1> HIDE DEF P, N
<1>4. Nat \subseteq N
  BY <1>2, <1>3, NatSetInduction
<1>5. ASSUME NEW k \in 0 .. Len(trees) PROVE P(k)
  <2>1. k \in Nat /\ k \in N
    BY <1>1, <1>4
  <2> QED BY <2>1 DEF N
<1> QED BY <1>5 DEF P

\* Parentheses and NOT name no column.
LEMMA WrappedScoped ==
  ASSUME NEW x \in Seq(Tokens), NEW S, Scoped(x, S)
  PROVE  /\ <<Sign("(")>> \o x \o <<Sign(")")>> \in Seq(Tokens)
         /\ Scoped(<<Sign("(")>> \o x \o <<Sign(")")>>, S) /\ Scoped(Negated(x), S)
<1>1. PICK l \in Seq(Tokens), r \in Seq(Tokens), n \in Seq(Tokens) :
        l = <<Sign("(")>> /\ r = <<Sign(")")>> /\ n = <<Sign("NOT")>>
  <2>1. <<Sign("NOT")>> \in Seq(Tokens) /\ <<Sign("(")>> \in Seq(Tokens) /\ <<Sign(")")>> \in Seq(Tokens)
    BY SignNumbers
  <2> QED BY <2>1
<1>2. Scoped(l, S) /\ Scoped(r, S) /\ Scoped(n, S)
  BY <1>1, ScopedSign
<1>3. PICK lx \in Seq(Tokens) : lx = l \o x
  BY Concatenation
<1>4. Scoped(lx, S)
  BY <1>2, <1>3, ScopedConcat
<1>5. PICK group \in Seq(Tokens) : group = lx \o r
  BY Concatenation
<1>6. Scoped(group, S)
  BY <1>2, <1>4, <1>5, ScopedConcat
<1>7. Scoped(n \o group, S)
  BY <1>2, <1>6, ScopedConcat
<1>8. Negated(x) = <<Sign("NOT")>> \o (<<Sign("(")>> \o x \o <<Sign(")")>>)
  BY NegatedForm
<1>9. group = <<Sign("(")>> \o x \o <<Sign(")")>>
  BY <1>1, <1>3, <1>5
<1> QED BY <1>1, <1>6, <1>7, <1>8, <1>9

LEMMA LeafScoped ==
  ASSUME NEW t \in Trees, t.kind = "leaf", NEW S, InScope(PredicateColumns[t], S)
  PROVE  ScopedTree(t, S)
<1> SUFFICES ASSUME NEW n \in Nat PROVE Scoped(RenderPredicate[t][n].text, S)
  BY DEF ScopedTree
<1>1. PredicateColumns[t] = t.columns
  BY PredicateColumnsDefined
<1> DEFINE token == Comparison(t, n)
           x == <<token>>
<1>2. RenderPredicate[t][n].text = x
  <2>1. RenderPredicate[t][n] = Rendering(RenderPredicate, t, n)
    BY RenderDefined
  <2>2. Rendering(RenderPredicate, t, n) =
          [text |-> x, args |-> t.values, next |-> n + Len(t.values)]
    BY DEF Rendering
  <2> QED BY <2>1, <2>2
<1>3. token.columns = t.columns
  BY DEF Comparison
<1>4. Len(x) = 1 /\ x[1] = token
  OBVIOUS
<1> HIDE DEF x, token
<1>5. \A i \in 1 .. 1 : i = 1
  OBVIOUS
<1>6. Scoped(x, S)
  BY <1>1, <1>3, <1>4, <1>5 DEF Scoped
<1> QED BY <1>2, <1>6

LEMMA NodeScoped ==
  ASSUME NEW t \in Trees, t.kind # "leaf", NEW S,
         \A i \in 1 .. Len(t.children) : ScopedTree(t.children[i], S)
  PROVE  ScopedTree(t, S)
<1> SUFFICES ASSUME NEW n \in Nat PROVE Scoped(RenderPredicate[t][n].text, S)
  BY DEF ScopedTree
<1> DEFINE trees == t.children
           k == Len(trees)
<1>1. /\ trees \in Seq(Trees) /\ k \in Nat /\ k \in 0 .. k
      /\ (t.kind \in {"AND", "OR"} \/ t.kind = "NOT") /\ (t.kind = "NOT" => k = 1)
  BY TreeFacts
<1>2. PICK d : d = Turn(trees, n, k)
  OBVIOUS
<1>3. RenderPredicate[t][n].text =
        IF t.kind = "NOT" THEN Negated(d.parts[1]) ELSE Grouped(t.kind, d.parts)
  BY <1>2, NodeRendered
<1>4. ASSUME NEW op \in {"AND", "OR"}
      PROVE  Kept(op, n, d, k) /\ Scoped(Joined(op, d.parts), S)
  BY <1>1, <1>2, TurnKeeps, TurnScoped
<1> HIDE DEF trees, k
<1>5. d.parts \in Seq(Seq(Tokens)) /\ Len(d.parts) = k
  BY <1>4 DEF Kept, DoneType
<1>6. CASE t.kind \in {"AND", "OR"}
  <2>1. PICK x \in Seq(Tokens) : x = Joined(t.kind, d.parts)
    <3>1. <<>> \in Seq(Tokens)
      OBVIOUS
    <3> QED BY <1>5, <1>6, <3>1, JoinedAppend
  <2>2. Scoped(x, S)
    BY <1>4, <1>6, <2>1
  <2>3. Grouped(t.kind, d.parts) = <<Sign("(")>> \o x \o <<Sign(")")>>
    BY <2>1 DEF Grouped, Joined
  <2> QED BY <1>3, <1>6, <2>2, <2>3, WrappedScoped
<1>7. CASE t.kind = "NOT"
  <2>1. PICK x \in Seq(Tokens) : d.parts = <<x>>
    <3> DEFINE T == Seq(Tokens)
    <3>1. d.parts \in Seq(T) /\ Len(d.parts) = 1
      BY <1>1, <1>5, <1>7
    <3> HIDE DEF T
    <3>2. d.parts[1] \in T /\ d.parts = <<d.parts[1]>>
      BY <3>1
    <3> QED BY <3>2 DEF T
  <2>2. Joined("AND", <<x>>) = x
    <3>1. <<>> \in Seq(Seq(Tokens)) /\ <<x>> = Append(<<>>, x) /\ <<>> \o x = x
      OBVIOUS
    <3>2. Joined("AND", Append(<<>>, x)) = Joined("AND", <<>>) \o Glued("AND", <<>>, x)
      BY <3>1, JoinedAppend
    <3>3. Joined("AND", <<>>) = <<>>
      BY DEF Joined, FlattenSeq
    <3>4. Glued("AND", <<>>, x) = x
      BY DEF Glued
    <3> QED BY <3>1, <3>2, <3>3, <3>4
  <2>3. Scoped(Joined("AND", d.parts), S)
    BY <1>4
  <2>4. Scoped(x, S) /\ d.parts[1] = x
    BY <2>1, <2>2, <2>3
  <2> QED BY <1>3, <1>7, <2>4, WrappedScoped
<1> QED BY <1>1, <1>6, <1>7

LEMMA WrittenInScope ==
  ASSUME NEW S
  PROVE  \A t \in Trees : InScope(PredicateColumns[t], S) => ScopedTree(t, S)
<1> DEFINE P == {t \in Trees : InScope(PredicateColumns[t], S) => ScopedTree(t, S)}
<1>1. ASSUME NEW t \in Trees, \A s \in Trees : Height[s] < Height[t] => s \in P
      PROVE  t \in P
  <2>1. ASSUME InScope(PredicateColumns[t], S) PROVE ScopedTree(t, S)
    <3>1. CASE t.kind = "leaf"
      BY <2>1, <3>1, LeafScoped
    <3>2. CASE t.kind # "leaf"
      <4> DEFINE list == Below(PredicateColumns, t)
      <4>1. /\ list \in Seq(Seq(ColumnType)) /\ Len(list) = Len(t.children)
            /\ \A i \in 1 .. Len(t.children) : list[i] = PredicateColumns[t.children[i]]
        BY ZenonT(40), PredicateColumnsDefined, BelowType
      <4>2. PredicateColumns[t] = FlattenSeq(list)
        BY <3>2, PredicateColumnsDefined
      <4> HIDE DEF list
      <4>3. \A i \in DOMAIN list : InScope(list[i], S)
        BY <2>1, <4>1, <4>2, InScopeParts
      <4>4. \A i \in 1 .. Len(t.children) : ScopedTree(t.children[i], S)
        <5>1. DOMAIN list = 1 .. Len(t.children)
          BY <4>1
        <5>2. \A i \in 1 .. Len(t.children) : InScope(PredicateColumns[t.children[i]], S)
          BY <4>1, <4>3, <5>1
        <5> QED BY <1>1, <5>2, TreeFacts
      <4> QED BY <3>2, <4>4, NodeScoped
    <3> QED BY <3>1, <3>2
  <2> QED BY <2>1
<1> HIDE DEF P
<1>2. Trees \subseteq P
  BY <1>1, TreeFacts, RankInduction
<1> QED BY <1>2 DEF P
-----------------------------------------------------------------------------
(***************************************************************************)
(* What the WHERE of a statement means.                                    *)
(***************************************************************************)

\* What is written after k conditions, and which arguments it added to those
\* of SET.
WrittenBy(q, w, next, a, d) ==
  /\ w = Joined("AND", d.parts) /\ next = d.next
  /\ \A i \in 1 .. Len(d.args) : a[Len(q.assignments) + i] = d.args[i]
AfterConditions(k) ==
  WrittenBy(query, where, nextArg, args, Turn(query.predicates, Len(query.assignments) + 1, k))

ColumnsInScope ==
  \A i \in DOMAIN query.predicates : InScope(PredicateColumns[query.predicates[i]], {scope})

WhereShape ==
  /\ pc \in {"set", "where", "built"} => ColumnsInScope
  /\ pc = "set" => Len(args) = index - 1
  /\ pc = "where" => AfterConditions(index - 1)
  /\ pc = "built" => AfterConditions(Len(query.predicates))

LEMMA NoCondition ==
  ASSUME NEW q, q \in QueryType, NEW a, NEW next, next = Len(q.assignments) + 1
  PROVE  WrittenBy(q, <<>>, next, a, Turn(q.predicates, Len(q.assignments) + 1, 0))
<1>1. q.predicates \in Seq(Trees) /\ Len(q.assignments) + 1 \in Nat
  BY DEF QueryType
<1>2. Turn(q.predicates, Len(q.assignments) + 1, 0) = NoneDone(next)
  BY <1>1, TurnStep
<1>3. Joined("AND", <<>>) = <<>>
  BY DEF Joined, FlattenSeq
<1>4. Len(<<>>) = 0
  OBVIOUS
<1> QED BY <1>2, <1>3, <1>4 DEF WrittenBy, NoneDone

\* One more condition, after an AND if it is not the first.
Grown(w, glue, x) == w \o glue \o x
AndAfter(k) == IF k = 0 THEN <<>> ELSE <<Sign("AND")>>

Grows(w, parts, glue, x, more) ==
  w = Joined("AND", parts) /\ glue = AndAfter(Len(parts)) /\ more = Append(parts, x)

LEMMA WhereGrows ==
  ASSUME NEW w \in Seq(Tokens), NEW parts \in Seq(Seq(Tokens)), NEW x \in Seq(Tokens),
         NEW glue, NEW more, Grows(w, parts, glue, x, more)
  PROVE  Grown(w, glue, x) = Joined("AND", more)
<1>0. parts = <<>> <=> Len(parts) = 0
  <2> DEFINE T == Seq(Tokens)
  <2>1. parts \in Seq(T)
    OBVIOUS
  <2> HIDE DEF T
  <2> QED BY <2>1
<1>1. Joined("AND", more) = w \o Glued("AND", parts, x)
  BY JoinedAppend DEF Grows
<1>2. CASE parts = <<>>
  <2>1. w \o <<>> = w
    OBVIOUS
  <2> QED BY <1>0, <1>1, <1>2, <2>1 DEF Glued, AndAfter, Grown, Grows
<1>3. CASE parts # <<>>
  <2>1. PICK and \in Seq(Tokens) : and = <<Sign("AND")>>
    BY SignNumbers
  <2>2. w \o and \o x = w \o (and \o x)
    BY Regrouped
  <2> QED BY <1>0, <1>1, <1>3, <2>1, <2>2 DEF Glued, AndAfter, Grown, Grows
<1> QED BY <1>2, <1>3

LEMMA ArgsGrow ==
  ASSUME NEW set \in Nat, NEW a \in Seq(Bindable), NEW u \in Seq(Values), NEW v \in Seq(Values),
         Len(a) = set + Len(u), \A i \in 1 .. Len(u) : a[set + i] = u[i]
  PROVE  \A i \in 1 .. Len(u \o v) : (a \o v)[set + i] = (u \o v)[i]
<1>1. PICK b \in Seq(Bindable) : b = v
  <2>1. Len(v) \in Nat /\ v \in [1 .. Len(v) -> Bindable]
    BY DEF Bindable
  <2> QED BY <2>1, Listed
<1> DEFINE more == a \o b
           whole == u \o v
           lu == Len(u)
           lv == Len(v)
<1>2. /\ Len(a \o b) = Len(a) + Len(b)
      /\ \A i \in 1 .. Len(a) + Len(b) : more[i] = IF i <= Len(a) THEN a[i] ELSE b[i - Len(a)]
  BY ONLY Concatenation, a \in Seq(Bindable), b \in Seq(Bindable)
<1>3. /\ Len(whole) = lu + lv /\ lu \in Nat /\ lv \in Nat
      /\ \A i \in 1 .. lu + lv : whole[i] = IF i <= lu THEN u[i] ELSE v[i - lu]
  BY Concatenation
<1>4. Len(a) = set + lu /\ Len(b) = lv /\ \A i \in 1 .. lu : a[set + i] = u[i]
  BY <1>1
<1> HIDE DEF more, whole, lu, lv
<1>5. ASSUME NEW i \in 1 .. lu + lv PROVE more[set + i] = whole[i]
  <2>1. CASE i <= lu
    <3>1. i \in 1 .. lu /\ set + i \in 1 .. set + lu + lv /\ set + i <= set + lu
      BY <1>3, <2>1
    <3>2. more[set + i] = a[set + i]
      BY <1>2, <1>4, <3>1
    <3> QED BY <1>3, <1>4, <2>1, <3>1, <3>2
  <2>2. CASE ~(i <= lu)
    <3>1. set + i \in 1 .. set + lu + lv /\ ~(set + i <= set + lu) /\ (set + i) - (set + lu) = i - lu
      BY <1>3, <2>2
    <3>2. more[set + i] = b[i - lu]
      BY <1>2, <1>4, <3>1
    <3> QED BY <1>1, <1>3, <2>2, <3>2
  <2> QED BY <2>1, <2>2
<1> QED BY <1>1, <1>3, <1>5 DEF more, whole

LEMMA OneMoreCondition ==
  ASSUME NEW q \in QueryType, NEW k \in Nat, k < Len(q.predicates),
         NEW w, NEW next, NEW a \in Seq(Bindable), next = Len(a) + 1,
         WrittenBy(q, w, next, a, Turn(q.predicates, Len(q.assignments) + 1, k)),
         NEW glue, glue = AndAfter(k),
         NEW one, one = RenderPredicate[q.predicates[k + 1]][next]
  PROVE  WrittenBy(q, w \o glue \o one.text, one.next, a \o one.args,
                   Turn(q.predicates, Len(q.assignments) + 1, k + 1))
<1> DEFINE trees == q.predicates
           set == Len(q.assignments)
           e == Turn(trees, set + 1, k + 1)
<1>1. trees \in Seq(Trees) /\ set \in Nat /\ set + 1 \in Nat /\ k \in 0 .. Len(trees)
      /\ trees[k + 1] \in Trees
  BY DEF QueryType
<1>2. PICK d \in DoneType : d = Turn(trees, set + 1, k)
  BY <1>1, TurnStep
<1>3. w = Joined("AND", d.parts) /\ next = d.next /\ \A i \in 1 .. Len(d.args) : a[set + i] = d.args[i]
  BY <1>2 DEF WrittenBy
<1>4. e = Continue(d, one)
  BY <1>1, <1>2, <1>3, TurnStep
<1>5. Kept("AND", set + 1, d, k)
  BY <1>1, <1>2, TurnKeeps
<1>6. one.text \in Seq(Tokens) /\ one.args \in Seq(Values)
  <2>1. next \in Nat
    BY <1>3 DEF DoneType
  <2> QED BY <1>1, <2>1, TreeRendered
<1> HIDE DEF trees, set, e
<1>7. /\ d.parts \in Seq(Seq(Tokens)) /\ d.args \in Seq(Values) /\ Len(d.args) \in Nat
      /\ Len(d.parts) = k /\ d.next = set + 1 + Len(d.args)
  BY <1>5 DEF Kept, DoneType
<1>8. e.parts = Append(d.parts, one.text) /\ e.args = d.args \o one.args /\ e.next = one.next
  BY <1>4 DEF Continue
<1>9. w \in Seq(Tokens)
  BY <1>3, <1>6, <1>7, JoinedAppend
<1>10. glue = AndAfter(Len(d.parts))
  BY <1>7
<1>11. w \o glue \o one.text = Joined("AND", e.parts)
  <2>0. PICK x \in Seq(Tokens), parts \in Seq(Seq(Tokens)) : x = one.text /\ parts = d.parts
    BY <1>6, <1>7
  <2>1. PICK more : more = e.parts
    BY SMTT(30)
  <2>2. Grows(w, parts, glue, x, more)
    BY <1>3, <1>8, <1>10, <2>0, <2>1 DEF Grows
  <2>3. Grown(w, glue, x) = Joined("AND", more)
    BY <1>9, <2>2, WhereGrows
  <2> QED BY <2>0, <2>1, <2>3 DEF Grown
<1>12. Len(a) = set + Len(d.args)
  <2>1. Len(a) \in Nat
    OBVIOUS
  <2>2. PICK m \in Nat, l \in Nat : m = Len(d.args) /\ l = Len(a)
    BY <1>7, <2>1
  <2>3. l + 1 = set + 1 + m
    BY <1>3, <1>7, <2>2
  <2>4. l = set + m
    BY SMTT(30), <1>1, <2>3
  <2> QED BY <2>2, <2>4
<1>13. \A i \in 1 .. Len(e.args) : (a \o one.args)[set + i] = e.args[i]
  <2>1. PICK u \in Seq(Values), v \in Seq(Values) : u = d.args /\ v = one.args
    BY <1>6, <1>7
  <2>2. Len(a) = set + Len(u) /\ \A i \in 1 .. Len(u) : a[set + i] = u[i]
    BY <1>3, <1>12, <2>1
  <2>3. \A i \in 1 .. Len(u \o v) : (a \o v)[set + i] = (u \o v)[i]
    BY <1>1, <2>2, ArgsGrow
  <2> QED BY <1>8, <2>1, <2>3
<1>14. WrittenBy(q, w \o glue \o one.text, one.next, a \o one.args, e)
  BY <1>8, <1>11, <1>13 DEF WrittenBy, set
<1> QED BY <1>14 DEF e, trees, set

LEMMA BuildShape == BindInv /\ Build => WhereShape'
<1> SUFFICES ASSUME BindInv, Build PROVE WhereShape'
  OBVIOUS
<1>1. /\ pc = "query" /\ UNCHANGED <<query, index, where, nextArg, args, text>>
      /\ pc' = IF ~QueryOK THEN "rejected" ELSE IF query.kind = "UPDATE" THEN "set" ELSE "where"
      /\ query \in QueryType /\ (query.kind = "DELETE" => query.assignments = <<>>)
      /\ index = 1 /\ where = <<>> /\ nextArg = 1 /\ args = <<>>
  BY DEF Build, locals, buffers, BindInv, TypeOK, AtRest
<1>2. CASE pc' = "rejected"
  BY <1>2 DEF WhereShape
<1>3. CASE pc' \in {"set", "where"}
  <2>1. ColumnsInScope
    <3>1. RowPredicates([i \in DOMAIN query.predicates |->
                           Predicate(PredicateColumns[query.predicates[i]], <<>>)], {scope})
      BY <1>1, <1>3 DEF QueryOK
    <3> QED BY <3>1 DEF RowPredicates, Predicate, ColumnsInScope
  <2>2. ColumnsInScope'
    BY <1>1, <2>1 DEF ColumnsInScope, scope
  <2>3. Len(args') = index' - 1
    <3>1. Len(<<>>) = 0
      OBVIOUS
    <3> QED BY <1>1, <3>1
  <2>4. pc' = "where" => AfterConditions(index - 1)'
    <3>1. SUFFICES ASSUME pc' = "where" PROVE AfterConditions(index - 1)'
      OBVIOUS
    <3>2. query.assignments = <<>>
      BY <1>1, <3>1 DEF QueryType, Kinds
    <3>3. nextArg = Len(query.assignments) + 1 /\ index - 1 = 0
      <4>1. Len(<<>>) = 0
        OBVIOUS
      <4> QED BY <1>1, <3>2, <4>1
    <3>4. WrittenBy(query, <<>>, nextArg, args,
                    Turn(query.predicates, Len(query.assignments) + 1, 0))
      BY <1>1, <3>3, NoCondition
    <3>5. AfterConditions(index - 1)
      BY <1>1, <3>3, <3>4 DEF AfterConditions
    <3> QED BY <1>1, <3>5 DEF AfterConditions
  <2> QED BY <1>3, <2>2, <2>3, <2>4 DEF WhereShape
<1> QED BY <1>1, <1>2, <1>3

LEMMA SetShape == BindInv /\ WhereShape /\ RenderSet => WhereShape'
<1> SUFFICES ASSUME BindInv, WhereShape, RenderSet PROVE WhereShape'
  OBVIOUS
<1> DEFINE set == Len(query.assignments)
<1>1. /\ pc = "set" /\ UNCHANGED <<query, where>> /\ query \in QueryType /\ set \in Nat
      /\ index \in Nat \ {0} /\ index - 1 <= set /\ where = <<>>
      /\ args \in Seq(Bindable) /\ nextArg = Len(args) + 1
  BY DEF RenderSet, BindInv, TypeOK, QueryType, Progress, Bindable
<1>2. ColumnsInScope' /\ Len(args) = index - 1
  <2>1. ColumnsInScope /\ Len(args) = index - 1
    BY <1>1 DEF WhereShape
  <2> QED BY <1>1, <2>1 DEF ColumnsInScope, scope
<1>3. CASE index <= set
  <2>1. /\ args' = args \o <<query.assignments[index].value>>
        /\ index' = index + 1 /\ pc' = "set"
    BY <1>1, <1>3 DEF RenderSet, Write
  <2>2. PICK value \in Bindable : value = query.assignments[index].value
    <3>1. query.assignments[index] \in AssignmentType
      BY <1>1, <1>3 DEF QueryType
    <3> QED BY <3>1 DEF AssignmentType, Bindable
  <2>3. Len(args \o <<value>>) = Len(args) + 1
    BY <1>1
  <2>4. Len(args') = index' - 1
    BY <1>1, <1>2, <2>1, <2>2, <2>3
  <2> QED BY <1>2, <2>1, <2>4 DEF WhereShape
<1>4. CASE ~(index <= set)
  <2>1. pc' = "where" /\ index' = 1 /\ UNCHANGED <<nextArg, args, text>>
    BY <1>1, <1>4 DEF RenderSet, buffers
  <2>2. nextArg = set + 1
    BY <1>1, <1>2, <1>4
  <2>3. WrittenBy(query, <<>>, nextArg, args, Turn(query.predicates, set + 1, 0))
    BY <1>1, <2>2, NoCondition
  <2>4. AfterConditions(index - 1)'
    <3>1. index' - 1 = 0
      BY <2>1
    <3> QED BY <1>1, <2>1, <2>3, <3>1 DEF AfterConditions
  <2> QED BY <1>2, <2>1, <2>4 DEF WhereShape
<1> QED BY <1>3, <1>4

LEMMA ConditionShape == BindInv /\ WhereShape /\ RenderWhere => WhereShape'
<1> SUFFICES ASSUME BindInv, WhereShape, RenderWhere PROVE WhereShape'
  OBVIOUS
<1> DEFINE list == query.predicates
<1>1. /\ pc = "where" /\ UNCHANGED query /\ query \in QueryType /\ Len(list) \in Nat
      /\ index \in Nat \ {0} /\ index - 1 <= Len(list)
      /\ args \in Seq(Bindable) /\ nextArg = Len(args) + 1
  BY DEF RenderWhere, BindInv, TypeOK, QueryType, Progress, Bindable
<1>2. ColumnsInScope' /\ AfterConditions(index - 1)
  <2>1. ColumnsInScope /\ AfterConditions(index - 1)
    BY <1>1 DEF WhereShape
  <2> QED BY <1>1, <2>1 DEF ColumnsInScope, scope
<1>3. CASE index <= Len(list)
  <2>1. PICK k \in Nat : k = index - 1
    BY <1>1
  <2>2. PICK one : one = RenderPredicate[list[k + 1]][nextArg]
    OBVIOUS
  <2>3. PICK glue : glue = IF index = 1 THEN <<>> ELSE <<Sign("AND")>>
    OBVIOUS
  <2>4. k + 1 = index /\ k < Len(list) /\ glue = AndAfter(k)
    BY <1>1, <1>3, <2>1, <2>3 DEF AndAfter
  <2>5. /\ where' = where \o glue \o one.text
        /\ args' = args \o one.args /\ nextArg' = one.next
        /\ index' = index + 1 /\ pc' = "where"
    BY <1>1, <1>3, <2>2, <2>3, <2>4 DEF RenderWhere, RenderCondition, Write
  <2>6. WrittenBy(query, where, nextArg, args, Turn(list, Len(query.assignments) + 1, k))
    BY <1>2, <2>1 DEF AfterConditions
  <2>7. WrittenBy(query, where \o glue \o one.text, one.next, args \o one.args,
                  Turn(list, Len(query.assignments) + 1, k + 1))
    BY <1>1, <2>2, <2>4, <2>6, OneMoreCondition
  <2>8. AfterConditions(index - 1)'
    <3>1. index' - 1 = k + 1
      BY <1>1, <2>4, <2>5
    <3> QED BY <1>1, <2>5, <2>7, <3>1 DEF AfterConditions
  <2> QED BY <1>2, <2>5, <2>8 DEF WhereShape
<1>4. CASE ~(index <= Len(list))
  <2>1. pc' = "built" /\ index' = 1 /\ UNCHANGED <<where, nextArg, args, text>>
    BY <1>1, <1>4 DEF RenderWhere, buffers
  <2>2. index - 1 = Len(list)
    BY <1>1, <1>4
  <2>3. WrittenBy(query, where, nextArg, args, Turn(list, Len(query.assignments) + 1, Len(list)))
    BY <1>2, <2>2 DEF AfterConditions
  <2>4. AfterConditions(Len(query.predicates))'
    BY <1>1, <2>1, <2>3 DEF AfterConditions
  <2> QED BY <1>2, <2>1, <2>4 DEF WhereShape
<1> QED BY <1>3, <1>4

LEMMA ShapeStep == BindInv /\ WhereShape /\ [Next]_vars => WhereShape'
<1> SUFFICES ASSUME BindInv, WhereShape, [Next]_vars PROVE WhereShape'
  OBVIOUS
<1>1. CASE Assemble \/ Refine
  <2>1. pc' = "query"
    BY <1>1 DEF Assemble, Set, Where, AllRows, Returning, Refined, Refine
  <2> QED BY <2>1 DEF WhereShape
<1>2. CASE UNCHANGED vars
  <2>1. UNCHANGED <<query, pc, index, where, nextArg, args, text>>
    BY <1>2 DEF vars, locals, buffers
  <2> QED BY <2>1 DEF WhereShape, ColumnsInScope, scope, AfterConditions
<1> QED BY <1>1, <1>2, BuildShape, SetShape, ConditionShape DEF Next

LEMMA ShapeHolds == Spec => []WhereShape
<1>1. Init => WhereShape
  BY DEF Init, WhereShape
<1> QED BY <1>1, ShapeStep, Invariance, PTL DEF Spec
-----------------------------------------------------------------------------
\* What the placeholders of a finished WHERE are bound to.
LEMMA BoundValues ==
  ASSUME BindInv, WhereShape, pc = "built",
         NEW d, d = Turn(query.predicates, Len(query.assignments) + 1, Len(query.predicates))
  PROVE  Stands(where, BoundInWhere, 0, where, d.args)
<1> DEFINE set == Len(query.assignments)
           k == Len(query.predicates)
<1>1. /\ query \in QueryType /\ set \in Nat /\ set + 1 \in Nat /\ k \in 0 .. k
      /\ query.predicates \in Seq(Trees)
      /\ where \in Seq(Tokens) /\ nextArg = Len(args) + 1 /\ args \in Seq(Bindable)
  BY DEF BindInv, TypeOK, QueryType, Bindable
<1>2. /\ where = Joined("AND", d.parts) /\ nextArg = d.next
      /\ \A i \in 1 .. Len(d.args) : args[set + i] = d.args[i]
  BY DEF WhereShape, AfterConditions, WrittenBy
<1>3. Kept("AND", set + 1, d, k)
  BY <1>1, TurnKeeps
<1>4. PICK n \in Nat : n = Len(d.args)
  BY <1>3 DEF Kept, DoneType
<1>5. Len(Numbers(where)) = n /\ d.next = set + 1 + n
  BY <1>2, <1>3, <1>4 DEF Kept
<1>6. Len(args) = set + n
  <2>1. PICK l \in Nat : l = Len(args)
    BY <1>1
  <2>2. l + 1 = set + 1 + n
    BY <1>1, <1>2, <1>5, <2>1
  <2> QED BY <1>1, <2>1, <2>2
<1>7. ASSUME NEW i \in 1 .. n PROVE BoundAt(dialect, text, args, set + i) = d.args[i]
  <2>1. set + i \in 1 .. Len(text)
    BY <1>1, <1>6 DEF BindInv, InPlace, Aligned
  <2>2. text[set + i].number = set + i
    BY <2>1 DEF BindInv, InPlace, Aligned, Agreed
  <2>3. args[set + i] = d.args[i]
    BY <1>2, <1>4
  <2> QED BY <2>2, <2>3 DEF BoundAt
<1>8. BoundInWhere = [i \in 1 .. n |-> BoundAt(dialect, text, args, set + i)]
  BY <1>5 DEF BoundInWhere
<1>9. Before(where, 0) = 0
  <2>1. SubSeq(where, 1, 0) = <<>>
    BY <1>1
  <2>2. Numbers(<<>>) = <<>> /\ Len(<<>>) = 0
    BY NothingWritten
  <2> QED BY <2>1, <2>2 DEF Before
<1>10. \A i \in 1 .. Len(d.args) : BoundInWhere[Before(where, 0) + i] = d.args[i]
  <2>1. ASSUME NEW i \in 1 .. n PROVE BoundInWhere[0 + i] = d.args[i]
    <3>1. 0 + i = i
      OBVIOUS
    <3> QED BY <1>7, <1>8, <3>1
  <2> QED BY <1>4, <1>9, <2>1
<1>11. Segment(where, 0, where)
  <2>1. Len(where) \in Nat /\ \A i \in 1 .. Len(where) : 0 + i = i
    BY <1>1
  <2> QED BY <2>1 DEF Segment
<1> QED BY <1>10, <1>11 DEF Stands

\* The WHERE of a built UPDATE or DELETE, parsed as the database parses it and
\* with the values it binds, is the conjunction of the conditions the caller
\* gave, for every tree and every row, and names no other table's columns
\* (renderPredicate, joinPredicates, Build).
THEOREM SelectsWhatIsMeant == Spec => []WhereMeansConditions
<1> SUFFICES ASSUME BindInv, WhereShape PROVE WhereMeansConditions
  BY Invariance, ShapeHolds, PTL
<1> SUFFICES ASSUME pc = "built", where # <<>>
             PROVE  /\ \A row \in [Atoms -> Truths] :
                         Reading(where, BoundInWhere, row)
                           = Least({Meaning(query.predicates[i], row) : i \in DOMAIN query.predicates})
                    /\ \A i \in DOMAIN where : InScope(where[i].columns, {scope})
  BY DEF WhereMeansConditions
<1> DEFINE trees == query.predicates
           k == Len(trees)
           n == Len(query.assignments) + 1
<1>1. /\ trees \in Seq(Trees) /\ n \in Nat /\ k \in Nat /\ k \in 0 .. k
      /\ DOMAIN trees = 1 .. k /\ where \in Seq(Tokens) /\ DOMAIN where = 1 .. Len(where)
  BY DEF BindInv, TypeOK, QueryType
<1>2. PICK d : d = Turn(trees, n, k)
  OBVIOUS
<1>3. where = Joined("AND", d.parts)
  BY <1>2 DEF WhereShape, AfterConditions, WrittenBy
<1>4. Stands(where, BoundInWhere, 0, Joined("AND", d.parts), d.args)
  BY <1>2, <1>3, BoundValues
<1>5. k # 0
  <2>1. ASSUME k = 0 PROVE FALSE
    <3>1. d.parts = <<>>
      BY <1>1, <1>2, <2>1, TurnStep DEF NoneDone
    <3>2. Joined("AND", <<>>) = <<>>
      BY DEF Joined, FlattenSeq
    <3> QED BY <1>3, <3>1, <3>2
  <2> QED BY <2>1
<1>6. ASSUME NEW row \in [Atoms -> Truths]
      PROVE  Reading(where, BoundInWhere, row)
               = Least({Meaning(trees[i], row) : i \in DOMAIN trees})
  <2>1. GoodRow(row)
    BY DEF GoodRow
  <2>2. PICK bound : bound = BoundInWhere
    OBVIOUS
  <2>3. \A i \in 1 .. Len(trees) : ReadsRight(where, bound, row, trees[i])
    BY <1>1, <2>1, WrittenAsMeant
  <2>4. ChainsRight(where, bound, row, 0, "AND", d, MeaningsOf(trees, row, k))
    <3>1. k \in 1 .. Len(trees)
      BY <1>1, <1>5
    <3> QED BY <1>1, <1>2, <2>1, <2>3, <3>1, TurnReads
  <2>5. Chained(where, bound, row, 0, 0 + Len(where), "AND", Combined("AND", MeaningsOf(trees, row, k)))
    BY <1>3, <1>4, <2>2, <2>4 DEF ChainsRight
  <2>6. 0 + Len(where) = Len(where) /\ 0 + 1 = 1
    BY <1>1
  <2>7. Readings(where, bound, row)[<<1, Len(where)>>] = Combined("AND", MeaningsOf(trees, row, k))
    BY <2>5, <2>6 DEF Chained
  <2>8. Combined("AND", MeaningsOf(trees, row, k)) = Least({Meaning(trees[i], row) : i \in DOMAIN trees})
    BY <1>1 DEF Combined, MeaningsOf
  <2> QED BY <2>2, <2>7, <2>8 DEF Reading
<1>7. Scoped(where, {scope})
  <2>1. PICK S : S = {scope}
    OBVIOUS
  <2>2. ColumnsInScope
    BY DEF WhereShape
  <2>3. \A i \in 1 .. Len(trees) : trees[i] \in Trees /\ InScope(PredicateColumns[trees[i]], S)
    <3>1. \A i \in 1 .. Len(trees) : InScope(PredicateColumns[trees[i]], {scope})
      BY <1>1, <2>2, Zenon DEF ColumnsInScope
    <3>2. \A i \in 1 .. Len(trees) : trees[i] \in Trees
      BY <1>1
    <3> QED BY <2>1, <3>1, <3>2, Zenon
  <2>4. \A i \in 1 .. Len(trees) : ScopedTree(trees[i], S)
    BY <2>3, WrittenInScope
  <2>5. Scoped(Joined("AND", Turn(trees, n, k).parts), S)
    BY <1>1, <2>4, TurnScoped
  <2> QED BY <1>2, <1>3, <2>1, <2>5
<1>8. \A i \in DOMAIN where : InScope(where[i].columns, {scope})
  BY <1>1, <1>7 DEF Scoped
<1> QED BY <1>6, <1>8
=============================================================================
