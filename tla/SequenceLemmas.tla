---------------------------- MODULE SequenceLemmas ----------------------------
(***************************************************************************)
(* What the proofs share: facts about appending to a text and to its       *)
(* arguments, induction, recursive functions, and FlattenSeq.              *)
(***************************************************************************)
EXTENDS SequencesExt, SequenceTheorems, NaturalsInduction, WellFoundedInduction, TLAPS

\* The slots at which a text has placeholders.
SlotsIn(placed) == {placed[i].slot : i \in DOMAIN placed}

LEMMA Concatenation ==
  ASSUME NEW T, NEW a \in Seq(T), NEW b \in Seq(T)
  PROVE  /\ a \o b \in Seq(T)
         /\ Len(a \o b) = Len(a) + Len(b)
         /\ \A i \in 1 .. Len(a) + Len(b) :
              (a \o b)[i] = IF i <= Len(a) THEN a[i] ELSE b[i - Len(a)]
BY ConcatProperties

\* A function on 1 .. n with values in T is a sequence over T of length n.
LEMMA Listed ==
  ASSUME NEW T, NEW n \in Nat, NEW f \in [1 .. n -> T]
  PROVE  f \in Seq(T) /\ Len(f) = n /\ DOMAIN f = 1 .. n
OBVIOUS

\* A placeholder that has the number of its place and a value that is meant
\* there: Agreed is the set of <<place, placeholder, value>> that agree.
Aligned(placed, bound, Agreed) ==
  /\ Len(placed) = Len(bound)
  /\ \A i \in 1 .. Len(placed) : <<i, placed[i], bound[i]>> \in Agreed

\* Placeholders and arguments that agree, appended to a text and arguments
\* that agree, agree with them; and the slots of the text add up.
LEMMA AppendAligned ==
  ASSUME NEW P, NEW B, NEW Agreed,
         NEW placed \in Seq(P), NEW bound \in Seq(B), Aligned(placed, bound, Agreed),
         NEW added \in Seq(P), NEW values \in Seq(B), Len(added) = Len(values),
         \A k \in 1 .. Len(values) : <<Len(bound) + k, added[k], values[k]>> \in Agreed
  PROVE  /\ placed \o added \in Seq(P) /\ bound \o values \in Seq(B)
         /\ Len(bound \o values) = Len(bound) + Len(values)
         /\ Aligned(placed \o added, bound \o values, Agreed)
<1>1. Len(bound) \in Nat /\ Len(values) \in Nat /\ Len(placed) = Len(bound)
  BY DEF Aligned
<1>2. /\ placed \o added \in Seq(P)
      /\ Len(placed \o added) = Len(placed) + Len(added)
      /\ \A i \in 1 .. Len(placed) + Len(added) :
           (placed \o added)[i] = IF i <= Len(placed) THEN placed[i] ELSE added[i - Len(placed)]
  BY Concatenation
<1>3. /\ bound \o values \in Seq(B)
      /\ Len(bound \o values) = Len(bound) + Len(values)
      /\ \A i \in 1 .. Len(bound) + Len(values) :
           (bound \o values)[i] = IF i <= Len(bound) THEN bound[i] ELSE values[i - Len(bound)]
  BY Concatenation
<1>4. ASSUME NEW i \in 1 .. Len(bound) + Len(values)
      PROVE  <<i, (placed \o added)[i], (bound \o values)[i]>> \in Agreed
  <2>0. i \in Nat /\ 1 <= i /\ i <= Len(bound) + Len(values)
    BY <1>1
  <2>1. CASE i <= Len(bound)
    <3>1. (placed \o added)[i] = placed[i] /\ (bound \o values)[i] = bound[i]
      BY <1>1, <1>2, <1>3, <2>1
    <3>2. <<i, placed[i], bound[i]>> \in Agreed
      BY <1>1, <2>1 DEF Aligned
    <3> QED BY <3>1, <3>2, Zenon
  <2>2. CASE i > Len(bound)
    <3>0. i - Len(bound) \in 1 .. Len(values)
      BY <1>1, <2>0, <2>2
    <3>1. PICK k \in 1 .. Len(values) : k = i - Len(bound)
      BY <3>0
    <3>2. (placed \o added)[i] = added[k] /\ (bound \o values)[i] = values[k]
      BY <1>1, <1>2, <1>3, <2>2, <3>1
    <3>3. Len(bound) + k = i
      BY <1>1, <3>1
    <3> QED BY <3>2, <3>3, Zenon
  <2>3. i <= Len(bound) \/ i > Len(bound)
    BY <1>1, <2>0
  <2> QED BY <2>1, <2>2, <2>3, Zenon
<1> QED BY <1>1, <1>2, <1>3, <1>4 DEF Aligned

LEMMA AppendSlots ==
  ASSUME NEW P, NEW placed \in Seq(P), NEW added \in Seq(P)
  PROVE  SlotsIn(placed \o added) = SlotsIn(placed) \union SlotsIn(added)
<1> DEFINE whole == placed \o added
<1>1. /\ whole \in Seq(P) /\ Len(whole) = Len(placed) + Len(added)
      /\ Len(placed) \in Nat /\ Len(added) \in Nat
      /\ \A i \in 1 .. Len(placed) + Len(added) :
           whole[i] = IF i <= Len(placed) THEN placed[i] ELSE added[i - Len(placed)]
  BY Concatenation
<1> HIDE DEF whole
<1>2. /\ DOMAIN whole = 1 .. Len(placed) + Len(added)
      /\ DOMAIN placed = 1 .. Len(placed) /\ DOMAIN added = 1 .. Len(added)
  BY <1>1
<1>3. ASSUME NEW i \in DOMAIN whole
      PROVE  whole[i].slot \in SlotsIn(placed) \union SlotsIn(added)
  <2>1. CASE i <= Len(placed)
    BY <1>1, <1>2, <2>1 DEF SlotsIn
  <2>2. CASE i > Len(placed)
    <3>1. i - Len(placed) \in DOMAIN added /\ whole[i] = added[i - Len(placed)]
      BY <1>1, <1>2, <2>2
    <3> QED BY <3>1 DEF SlotsIn
  <2> QED BY <1>1, <1>2, <2>1, <2>2
<1>4. ASSUME NEW i \in DOMAIN placed PROVE placed[i].slot \in SlotsIn(whole)
  <2>1. i \in DOMAIN whole /\ whole[i] = placed[i]
    BY <1>1, <1>2
  <2> QED BY <2>1 DEF SlotsIn
<1>5. ASSUME NEW i \in DOMAIN added PROVE added[i].slot \in SlotsIn(whole)
  <2>1. Len(placed) + i \in DOMAIN whole /\ whole[Len(placed) + i] = added[i]
    BY <1>1, <1>2
  <2> QED BY <2>1, Zenon DEF SlotsIn
<1>6. SlotsIn(whole) \subseteq SlotsIn(placed) \union SlotsIn(added)
  BY <1>3 DEF SlotsIn
<1>7. SlotsIn(placed) \subseteq SlotsIn(whole) /\ SlotsIn(added) \subseteq SlotsIn(whole)
  BY <1>4, <1>5 DEF SlotsIn
<1> QED BY <1>6, <1>7 DEF whole

\* What a placeholder is, if these are the clauses.
SlotPlaceholder(clauses) == [slot : clauses \X Nat \X Nat \X Nat, number : Nat]

\* The placeholders of n values: one for each, at its slot, numbered from first.
Slotting(clause, item, part, n, first) ==
  [p \in 1 .. n |-> [slot |-> <<clause, item, part, p>>, number |-> first + p - 1]]

\* The slots of these.
ItemSlots(clause, item, part, n) == {<<clause, item, part, p>> : p \in 1 .. n}

LEMMA SlottingShape ==
  ASSUME NEW clauses, NEW clause \in clauses, NEW item \in Nat, NEW part \in Nat,
         NEW n \in Nat, NEW first \in Nat \ {0}
  PROVE  /\ Slotting(clause, item, part, n, first) \in Seq(SlotPlaceholder(clauses))
         /\ Len(Slotting(clause, item, part, n, first)) = n
         /\ SlotsIn(Slotting(clause, item, part, n, first)) = ItemSlots(clause, item, part, n)
<1> DEFINE new == Slotting(clause, item, part, n, first)
           placeholder(p) == [slot |-> <<clause, item, part, p>>, number |-> first + p - 1]
           P == SlotPlaceholder(clauses)
<1>1. \A p \in 1 .. n : placeholder(p) \in P
  BY DEF SlotPlaceholder
<1>2. new = [p \in 1 .. n |-> placeholder(p)]
  BY DEF Slotting
<1>3. ASSUME NEW p \in 1 .. n
      PROVE  new[p].slot = <<clause, item, part, p>> /\ new[p].number = first + p - 1
  <2>1. new[p] = placeholder(p)
    BY <1>2
  <2> QED BY <2>1
<1> HIDE DEF placeholder
<1>4. new \in [1 .. n -> P]
  BY <1>1, <1>2
<1> HIDE DEF P, new
<1>5. new \in Seq(P) /\ Len(new) = n /\ DOMAIN new = 1 .. n
  BY <1>4, Listed
<1>6. SlotsIn(new) = ItemSlots(clause, item, part, n)
  BY <1>3, <1>5 DEF SlotsIn, ItemSlots
<1> QED BY <1>5, <1>6 DEF new, P
-----------------------------------------------------------------------------
\* Induction over a set.
LEMMA NatSetInduction ==
  ASSUME NEW S, 0 \in S, \A n \in Nat : n \in S => n + 1 \in S
  PROVE  Nat \subseteq S
<1> DEFINE R == OpToRel(<, Nat)
           T == Nat \ S
<1>1. IsWellFoundedOn(R, Nat)
  BY NatLessThanWellFounded
<1>2. \A m, n \in Nat : m < n => <<m, n>> \in R
  BY DEF OpToRel
<1> HIDE DEF R
<1>3. SUFFICES ASSUME T # {} PROVE FALSE
  OBVIOUS
<1>4. T \subseteq Nat
  OBVIOUS
<1> HIDE DEF T
<1>5. PICK n \in T : \A m \in T : ~(<<m, n>> \in R)
  BY <1>1, <1>3, <1>4, WFMin
<1>6. n # 0 /\ n \in Nat /\ n \notin S
  BY DEF T
<1>7. n - 1 \in Nat /\ n - 1 < n /\ (n - 1) + 1 = n
  BY <1>6
<1>8. n - 1 \notin T
  BY <1>2, <1>5, <1>6, <1>7
<1>9. n - 1 \in S
  BY <1>7, <1>8 DEF T
<1> QED BY <1>6, <1>7, <1>9

LEMMA SmallestExists ==
  ASSUME NEW S, S # {}, S \subseteq Nat
  PROVE  \E n \in S : \A m \in S : n <= m
<1> DEFINE R == OpToRel(<, Nat)
<1>1. IsWellFoundedOn(R, Nat)
  BY NatLessThanWellFounded
<1>2. \A m, n \in Nat : m < n => <<m, n>> \in R
  BY DEF OpToRel
<1>3. S \subseteq Nat /\ S # {}
  OBVIOUS
<1> HIDE DEF R
<1>4. PICK n \in S : \A m \in S : ~(<<m, n>> \in R)
  BY <1>1, <1>3, WFMin
<1>5. \A m \in S : n <= m
  <2> TAKE m \in S
  <2>1. m \in Nat /\ n \in Nat
    BY <1>3
  <2>2. ~(m < n)
    BY <1>2, <1>4, <2>1
  <2> QED BY <2>1, <2>2
<1> QED BY <1>5

\* Induction over the rank of the elements of a set.
LEMMA RankInduction ==
  ASSUME NEW S, NEW rank \in [S -> Nat], NEW P,
         \A x \in S : (\A y \in S : rank[y] < rank[x] => y \in P) => x \in P
  PROVE  S \subseteq P
<1> DEFINE N == {n \in Nat : \A x \in S : rank[x] < n => x \in P}
<1>1. \A x \in S : rank[x] \in Nat
  OBVIOUS
<1>2. 0 \in N
  BY <1>1
<1>3. ASSUME NEW n \in Nat, n \in N PROVE n + 1 \in N
  <2>1. ASSUME NEW x \in S, rank[x] < n + 1 PROVE x \in P
    <3>1. \A y \in S : rank[y] < rank[x] => rank[y] < n
      BY <1>1, <2>1
    <3> QED BY <1>3, <3>1
  <2> QED BY <2>1
<1> HIDE DEF N
<1>4. Nat \subseteq N
  BY <1>2, <1>3, NatSetInduction
<1>5. \A x \in S : rank[x] + 1 \in Nat /\ rank[x] < rank[x] + 1
  BY <1>1
<1> QED BY <1>4, <1>5 DEF N

\* G is the body of a recursive definition of a function from S to V: what it
\* makes of a function at x depends on the function below x only.
Recursion(G, S, V, rank) ==
  /\ V # {} /\ rank \in [S -> Nat] /\ G \in [[S -> V] -> [S -> V]]
  /\ \A g, h \in [S -> V] : \A x \in S :
       (\A y \in S : rank[y] < rank[x] => g[y] = h[y]) => G[g][x] = G[h][x]

Defines(G, S, V) == \E f \in [S -> V] : f = G[f]

LEMMA RecursionExists ==
  ASSUME NEW G, NEW S, NEW V, NEW rank, Recursion(G, S, V, rank)
  PROVE  Defines(G, S, V)
<1>a. /\ rank \in [S -> Nat] /\ G \in [[S -> V] -> [S -> V]]
      /\ \A g, h \in [S -> V] : \A x \in S :
           (\A y \in S : rank[y] < rank[x] => g[y] = h[y]) => G[g][x] = G[h][x]
  BY DEF Recursion
<1> USE <1>a
<1>0. PICK v : v \in V
  BY DEF Recursion
<1> DEFINE Below(g, n) == \A x \in S : rank[x] < n => g[x] = G[g][x]
<1>1. ASSUME NEW n \in Nat PROVE \E g \in [S -> V] : Below(g, n)
  <2> DEFINE N == {k \in Nat : \E g \in [S -> V] : Below(g, k)}
  <2>1. 0 \in N
    <3>1. [x \in S |-> v] \in [S -> V]
      BY <1>0
    <3>2. \A x \in S : ~(rank[x] < 0)
      OBVIOUS
    <3>3. PICK g \in [S -> V] : Below(g, 0)
      BY <3>1, <3>2, Zenon
    <3> HIDE DEF Below
    <3> QED BY <3>3
  <2>2. ASSUME NEW k \in Nat, k \in N PROVE k + 1 \in N
    <3>1. PICK g \in [S -> V] : Below(g, k)
      BY <2>2
    <3>2. G[g] \in [S -> V]
      OBVIOUS
    <3>3. PICK h \in [S -> V] : h = G[g]
      BY <3>2
    <3>4. ASSUME NEW x \in S, rank[x] < k + 1 PROVE h[x] = G[h][x]
      <4>1. ASSUME NEW y \in S, rank[y] < rank[x] PROVE g[y] = h[y]
        <5>1. rank[y] \in Nat /\ rank[x] \in Nat
          OBVIOUS
        <5>2. rank[y] < k
          BY <3>4, <4>1, <5>1
        <5> QED BY <3>1, <3>3, <5>2
      <4>2. G[g][x] = G[h][x]
        BY <4>1
      <4> QED BY <3>3, <4>2
    <3>5. Below(h, k + 1)
      BY <3>4
    <3> HIDE DEF Below
    <3> QED BY <3>5
  <2> HIDE DEF N
  <2>3. Nat \subseteq N
    BY <2>1, <2>2, NatSetInduction
  <2> QED BY <2>3 DEF N
<1>2. ASSUME NEW n \in Nat
      PROVE  \A g, h \in [S -> V] : Below(g, n) /\ Below(h, n) =>
               \A x \in S : rank[x] < n => g[x] = h[x]
  <2> DEFINE Same(k) == \A g, h \in [S -> V] : Below(g, k) /\ Below(h, k) =>
               \A x \in S : rank[x] < k => g[x] = h[x]
             N == {k \in Nat : Same(k)}
  <2>1. 0 \in N
    <3>1. \A x \in S : rank[x] \in Nat
      OBVIOUS
    <3> QED BY <3>1
  <2>2. ASSUME NEW k \in Nat, k \in N PROVE k + 1 \in N
    <3>1. ASSUME NEW g \in [S -> V], NEW h \in [S -> V], Below(g, k + 1), Below(h, k + 1),
                 NEW x \in S, rank[x] < k + 1
          PROVE  g[x] = h[x]
      <4>0. \A y \in S : rank[y] \in Nat
        OBVIOUS
      <4>1. Below(g, k) /\ Below(h, k)
        BY <3>1, <4>0
      <4>2. Same(k)
        BY <2>2
      <4>3. \A y \in S : rank[y] < k => g[y] = h[y]
        BY <4>1, <4>2
      <4>4. \A y \in S : rank[y] < rank[x] => g[y] = h[y]
        BY <3>1, <4>0, <4>3
      <4>5. G[g][x] = G[h][x]
        BY <4>4
      <4> QED BY <3>1, <4>5
    <3>2. Same(k + 1)
      BY <3>1
    <3> HIDE DEF Same
    <3> QED BY <3>2
  <2> HIDE DEF N
  <2>3. Nat \subseteq N
    BY <2>1, <2>2, NatSetInduction
  <2>4. Same(n)
    BY <2>3 DEF N
  <2> QED BY <2>4
<1> DEFINE At(n) == CHOOSE g \in [S -> V] : Below(g, n)
           f == [x \in S |-> At(rank[x] + 1)[x]]
<1>3. \A n \in Nat : At(n) \in [S -> V] /\ Below(At(n), n)
  <2> HIDE DEF Below
  <2> QED BY <1>1
<1>4. \A x \in S : rank[x] \in Nat /\ rank[x] + 1 \in Nat
  OBVIOUS
<1>5. f \in [S -> V]
  <2> HIDE DEF At
  <2> QED BY <1>3, <1>4
<1>6. ASSUME NEW x \in S PROVE f[x] = G[f][x]
  <2> DEFINE g == At(rank[x] + 1)
  <2>1. g \in [S -> V] /\ Below(g, rank[x] + 1)
    BY <1>3, <1>4
  <2>2. f[x] = g[x]
    OBVIOUS
  <2> HIDE DEF g
  <2>3. ASSUME NEW y \in S, rank[y] < rank[x] PROVE g[y] = f[y]
    <3> DEFINE h == At(rank[y] + 1)
    <3>1. h \in [S -> V] /\ Below(h, rank[y] + 1)
      BY <1>3, <1>4
    <3>2. f[y] = h[y]
      OBVIOUS
    <3> HIDE DEF h
    <3>3. Below(g, rank[y] + 1)
      BY <1>4, <2>1, <2>3
    <3>4. rank[y] < rank[y] + 1
      BY <1>4
    <3> HIDE DEF Below, f
    <3>5. g[y] = h[y]
      BY <1>2, <1>4, <2>1, <3>1, <3>3, <3>4
    <3> QED BY <3>2, <3>5
  <2> HIDE DEF f
  <2>4. G[g][x] = G[f][x]
    BY <1>5, <2>1, <2>3
  <2>5. g[x] = G[g][x]
    BY <1>4, <2>1
  <2> QED BY <2>2, <2>4, <2>5
<1> HIDE DEF f
<1>7. G[f] \in [S -> V]
  BY <1>5
<1>8. f = G[f]
  BY <1>5, <1>6, <1>7
<1> QED BY <1>5, <1>8 DEF Defines

\* f starts with base and goes one step at a time.
Walks(f, n, base, step) ==
  f = [k \in 0 .. n |-> IF k = 0 THEN base ELSE step[k][f[k - 1]]]

\* A walk of n steps from base, each of which stays within V.
LEMMA WalkExists ==
  ASSUME NEW V, NEW n \in Nat, NEW base \in V, NEW step \in [1 .. n -> [V -> V]]
  PROVE  \E f \in [0 .. n -> V] : Walks(f, n, base, step)
<1> DEFINE S == 0 .. n
           Body(g, k) == IF k = 0 THEN base ELSE step[k][g[k - 1]]
           G == [g \in [S -> V] |-> [k \in S |-> Body(g, k)]]
           rank == [k \in S |-> k]
<1>1. \A k \in S : k # 0 => k \in 1 .. n /\ k - 1 \in S /\ rank[k - 1] < rank[k]
  OBVIOUS
<1>2. \A g \in [S -> V] : \A k \in S : Body(g, k) \in V
  <2> TAKE g \in [S -> V]
  <2> TAKE k \in S
  <2>1. CASE k = 0
    BY <2>1
  <2>2. CASE k # 0
    <3>1. k \in 1 .. n /\ g[k - 1] \in V
      BY <1>1, <2>2
    <3>2. step[k] \in [V -> V]
      BY <3>1
    <3> QED BY <2>2, <3>1, <3>2
  <2> QED BY <2>1, <2>2
<1>3. \A g, h \in [S -> V] : \A k \in S :
        (\A j \in S : rank[j] < rank[k] => g[j] = h[j]) => Body(g, k) = Body(h, k)
  BY <1>1
<1>4. rank \in [S -> Nat] /\ V # {}
  OBVIOUS
<1> HIDE DEF S, Body, rank
<1>5. Recursion(G, S, V, rank)
  <2>1. \A g \in [S -> V] : G[g] = [k \in S |-> Body(g, k)]
    OBVIOUS
  <2>2. \A g \in [S -> V] : G[g] \in [S -> V] /\ \A k \in S : G[g][k] = Body(g, k)
    BY <1>2, <2>1
  <2>3. DOMAIN G = [S -> V] /\ G = [g \in [S -> V] |-> G[g]]
    OBVIOUS
  <2> HIDE DEF G
  <2>4. G \in [[S -> V] -> [S -> V]]
    BY <2>2, <2>3
  <2>5. \A g, h \in [S -> V] : \A k \in S :
          (\A j \in S : rank[j] < rank[k] => g[j] = h[j]) => G[g][k] = G[h][k]
    BY <1>3, <2>2
  <2> QED BY <1>4, <2>4, <2>5 DEF Recursion
<1> HIDE DEF G
<1>6. PICK f \in [S -> V] : f = G[f]
  BY <1>5, RecursionExists DEF Defines
<1>7. f = [k \in S |-> Body(f, k)]
  BY <1>6 DEF G
<1>8. Walks(f, n, base, step)
  BY <1>7, Zenon DEF S, Body, Walks
<1>9. f \in [0 .. n -> V]
  BY DEF S
<1> QED BY <1>8, <1>9
-----------------------------------------------------------------------------
(***************************************************************************)
(* FlattenSeq.                                                             *)
(***************************************************************************)
\* The running concatenation of a list of sequences.
Chain(seqs, f) ==
  /\ DOMAIN f = DOMAIN seqs
  /\ \A i \in DOMAIN seqs : f[i] = IF i = 1 THEN seqs[1] ELSE f[i - 1] \o seqs[i]

LEMMA FlattenChain ==
  ASSUME NEW T, NEW seqs \in Seq(Seq(T)), seqs # <<>>
  PROVE  \E f \in [1 .. Len(seqs) -> Seq(T)] : Chain(seqs, f) /\ FlattenSeq(seqs) = f[Len(seqs)]
<1> DEFINE S == 1 .. Len(seqs)
           V == Seq(T)
           G == [g \in [S -> V] |-> [i \in S |-> IF i = 1 THEN seqs[i] ELSE g[i - 1] \o seqs[i]]]
           rank == [i \in S |-> i]
           flatten == CHOOSE f : f = [i \in S |-> IF i = 1 THEN seqs[i] ELSE f[i - 1] \o seqs[i]]
<1>1. /\ Len(seqs) \in Nat /\ Len(seqs) > 0 /\ DOMAIN seqs = S
      /\ \A i \in S : seqs[i] \in V
  OBVIOUS
<1>2. <<>> \in V /\ rank \in [S -> Nat]
  OBVIOUS
<1>3. G \in [[S -> V] -> [S -> V]]
  <2>1. ASSUME NEW g \in [S -> V], NEW i \in S
        PROVE  (IF i = 1 THEN seqs[i] ELSE g[i - 1] \o seqs[i]) \in V
    <3>1. i # 1 => i - 1 \in S
      BY <1>1
    <3>2. i # 1 => g[i - 1] \in V
      BY <3>1
    <3> HIDE DEF S
    <3> QED BY <1>1, <3>2
  <2> HIDE DEF V, S
  <2> QED BY <2>1
<1>4. ASSUME NEW g \in [S -> V], NEW h \in [S -> V], NEW x \in S,
             \A y \in S : rank[y] < rank[x] => g[y] = h[y]
      PROVE  G[g][x] = G[h][x]
  <2>1. x # 1 => x - 1 \in S /\ rank[x - 1] < rank[x]
    BY <1>1
  <2>2. x # 1 => g[x - 1] = h[x - 1]
    BY <1>4, <2>1
  <2>3. /\ G[g][x] = IF x = 1 THEN seqs[x] ELSE g[x - 1] \o seqs[x]
        /\ G[h][x] = IF x = 1 THEN seqs[x] ELSE h[x - 1] \o seqs[x]
    <3> HIDE DEF S, V
    <3> QED OBVIOUS
  <2> QED BY <2>2, <2>3
<1>5. PICK f \in [S -> V] : f = G[f]
  <2> HIDE DEF S, V, G, rank
  <2>1. Recursion(G, S, V, rank)
    BY <1>2, <1>3, <1>4 DEF Recursion
  <2>2. Defines(G, S, V)
    BY <2>1, RecursionExists
  <2> QED BY <2>2 DEF Defines
<1>6. f = [i \in S |-> IF i = 1 THEN seqs[i] ELSE f[i - 1] \o seqs[i]]
  <2> HIDE DEF S, V
  <2> QED BY <1>5
<1>7. flatten = [i \in S |-> IF i = 1 THEN seqs[i] ELSE flatten[i - 1] \o seqs[i]]
  <2> HIDE DEF S
  <2> QED BY <1>6, Zenon
<1>8. FlattenSeq(seqs) = flatten[Len(seqs)]
  BY <1>1 DEF FlattenSeq
<1>9. flatten \in [S -> V]
  <2>1. flatten \in [S -> V] <=> \A i \in S : flatten[i] \in V
    <3> HIDE DEF S, V
    <3>1. DOMAIN flatten = S
      <4> HIDE DEF flatten
      <4> QED BY <1>7
    <3>2. flatten = [i \in S |-> flatten[i]]
      <4> HIDE DEF flatten
      <4> QED BY <1>7, <3>1
    <3> HIDE DEF flatten
    <3> QED BY <3>2
  <2> DEFINE N == {k \in Nat : k \in S => flatten[k] \in V}
  <2> HIDE DEF flatten, V
  <2>2. 0 \in N
    OBVIOUS
  <2>3. ASSUME NEW k \in Nat, k \in N PROVE k + 1 \in N
    <3>1. CASE k + 1 \notin S
      BY <3>1
    <3>2. CASE k = 0
      BY <1>1, <1>7, <3>2
    <3>3. CASE k + 1 \in S /\ k # 0
      <4>1. k \in S /\ (k + 1) - 1 = k /\ k + 1 # 1
        BY <1>1, <3>3
      <4>2. flatten[k] \in V /\ seqs[k + 1] \in V
        BY <1>1, <2>3, <3>3, <4>1
      <4>3. flatten[k + 1] = flatten[k] \o seqs[k + 1]
        <5> HIDE DEF S
        <5> QED BY <1>7, <3>3, <4>1
      <4>4. flatten[k + 1] \in V
        BY <4>2, <4>3, Concatenation DEF V
      <4> QED BY <4>4
    <3> QED BY <3>1, <3>2, <3>3
  <2> HIDE DEF N
  <2>4. Nat \subseteq N
    BY <2>2, <2>3, NatSetInduction
  <2>5. \A i \in S : flatten[i] \in V
    BY <2>4 DEF N
  <2> QED BY <2>1, <2>5
<1>10. Chain(seqs, flatten)
  <2> HIDE DEF flatten
  <2>1. DOMAIN flatten = S /\ \A i \in S : flatten[i] = IF i = 1 THEN seqs[i] ELSE flatten[i - 1] \o seqs[i]
    <3> HIDE DEF S
    <3> QED BY <1>7
  <2> QED BY <1>1, <2>1 DEF Chain
<1> HIDE DEF flatten
<1> QED BY <1>8, <1>9, <1>10

\* Two chains agree as long as their lists do.
Begins(more, seqs) ==
  Len(seqs) <= Len(more) /\ \A i \in 1 .. Len(seqs) : more[i] = seqs[i]

LEMMA ChainAgrees ==
  ASSUME NEW T, NEW seqs \in Seq(Seq(T)), NEW more \in Seq(Seq(T)),
         Begins(more, seqs), NEW f, NEW g, Chain(seqs, f), Chain(more, g)
  PROVE  \A i \in 1 .. Len(seqs) : g[i] = f[i]
<1> DEFINE N == {k \in Nat : k \in 1 .. Len(seqs) => g[k] = f[k]}
<1>1. /\ Len(seqs) \in Nat /\ Len(more) \in Nat
      /\ DOMAIN seqs = 1 .. Len(seqs) /\ DOMAIN more = 1 .. Len(more)
      /\ Len(seqs) <= Len(more) /\ \A i \in 1 .. Len(seqs) : more[i] = seqs[i]
  BY DEF Begins
<1>2. 0 \in N
  OBVIOUS
<1>3. ASSUME NEW k \in Nat, k \in N PROVE k + 1 \in N
  <2>1. CASE k + 1 \in 1 .. Len(seqs)
    <3>1. k + 1 \in DOMAIN seqs /\ k + 1 \in DOMAIN more /\ (k + 1) - 1 = k
      BY <1>1, <2>1
    <3>2. k = 0 \/ k \in 1 .. Len(seqs)
      BY <1>1, <2>1
    <3>3. k # 0 => g[k] = f[k] /\ k + 1 # 1
      BY <1>3, <3>2
    <3>4. /\ f[k + 1] = IF k + 1 = 1 THEN seqs[1] ELSE f[k] \o seqs[k + 1]
          /\ g[k + 1] = IF k + 1 = 1 THEN more[1] ELSE g[k] \o more[k + 1]
      BY <3>1, Zenon DEF Chain
    <3>5. more[k + 1] = seqs[k + 1]
      BY <1>1, <2>1
    <3>6. more[1] = seqs[1]
      BY <1>1, <2>1
    <3>7. g[k + 1] = f[k + 1]
      BY <3>3, <3>4, <3>5, <3>6
    <3> QED BY <3>7
  <2> QED BY <2>1
<1> HIDE DEF N
<1>4. Nat \subseteq N
  BY <1>2, <1>3, NatSetInduction
<1> QED BY <1>1, <1>4 DEF N

LEMMA FlattenAppend ==
  ASSUME NEW T, NEW seqs \in Seq(Seq(T)), NEW s \in Seq(T)
  PROVE  /\ FlattenSeq(seqs) \in Seq(T)
         /\ FlattenSeq(Append(seqs, s)) = FlattenSeq(seqs) \o s
<1> DEFINE more == Append(seqs, s)
<1>1. /\ more \in Seq(Seq(T)) /\ more # <<>> /\ Len(more) = Len(seqs) + 1 /\ Len(seqs) \in Nat
      /\ \A i \in 1 .. Len(seqs) : more[i] = seqs[i]
      /\ more[Len(seqs) + 1] = s
      /\ DOMAIN more = 1 .. Len(more)
  <2>1. seqs \in Seq(Seq(T)) /\ s \in Seq(T)
    OBVIOUS
  <2> DEFINE S == Seq(T)
  <2>2. seqs \in Seq(S) /\ s \in S
    OBVIOUS
  <2> HIDE DEF S
  <2>3. /\ more \in Seq(S) /\ more # <<>> /\ Len(more) = Len(seqs) + 1 /\ Len(seqs) \in Nat
        /\ \A i \in 1 .. Len(seqs) : more[i] = seqs[i]
        /\ more[Len(seqs) + 1] = s
        /\ DOMAIN more = 1 .. Len(more)
    BY <2>2
  <2> QED BY <2>3 DEF S
<1> HIDE DEF more
<1>2. PICK g \in [1 .. Len(more) -> Seq(T)] : Chain(more, g) /\ FlattenSeq(more) = g[Len(more)]
  BY <1>1, FlattenChain
<1>3. CASE seqs = <<>>
  <2>1. FlattenSeq(seqs) = <<>>
    BY <1>3 DEF FlattenSeq
  <2>2. g[1] = s
    BY <1>1, <1>2, <1>3 DEF Chain
  <2>3. <<>> \in Seq(T) /\ <<>> \o s = s
    OBVIOUS
  <2>4. FlattenSeq(more) = s
    BY <1>1, <1>2, <1>3, <2>2
  <2> QED BY <2>1, <2>3, <2>4 DEF more
<1>4. CASE seqs # <<>>
  <2>1. PICK f \in [1 .. Len(seqs) -> Seq(T)] : Chain(seqs, f) /\ FlattenSeq(seqs) = f[Len(seqs)]
    BY <1>4, FlattenChain
  <2>2. Len(seqs) \in 1 .. Len(seqs) /\ Len(seqs) + 1 # 1 /\ Len(seqs) + 1 \in DOMAIN more
        /\ (Len(seqs) + 1) - 1 = Len(seqs) /\ Len(seqs) <= Len(more)
    BY <1>1, <1>4
  <2>3. g[Len(seqs)] = f[Len(seqs)]
    <3>1. Chain(seqs, f) /\ Chain(more, g) /\ more \in Seq(Seq(T)) /\ Begins(more, seqs)
      BY <1>1, <1>2, <2>1, <2>2 DEF Begins
    <3>2. \A i \in 1 .. Len(seqs) : g[i] = f[i]
      BY <3>1, ChainAgrees
    <3> QED BY <2>2, <3>2
  <2>4. g[Len(seqs) + 1] = g[Len(seqs)] \o more[Len(seqs) + 1]
    BY <1>2, <2>2, Zenon DEF Chain
  <2>5. FlattenSeq(seqs) \in Seq(T)
    BY <2>1, <2>2
  <2>6. FlattenSeq(more) = FlattenSeq(seqs) \o s
    BY <1>1, <1>2, <2>1, <2>3, <2>4
  <2> QED BY <2>5, <2>6 DEF more
<1> QED BY <1>3, <1>4

\* Induction over the sequences in a set.
LEMMA AppendInduction ==
  ASSUME NEW T, NEW P, <<>> \in P, \A s \in Seq(T) : \A e \in T : s \in P => Append(s, e) \in P
  PROVE  Seq(T) \subseteq P
<1> DEFINE N == {n \in Nat : \A s \in Seq(T) : Len(s) = n => s \in P}
<1>1. 0 \in N
  <2>1. \A s \in Seq(T) : Len(s) = 0 => s = <<>>
    OBVIOUS
  <2> QED BY <2>1
<1>2. ASSUME NEW n \in Nat, n \in N PROVE n + 1 \in N
  <2>1. ASSUME NEW s \in Seq(T), Len(s) = n + 1 PROVE s \in P
    <3> DEFINE front == SubSeq(s, 1, n)
    <3>1. /\ front \in Seq(T) /\ Len(front) = n /\ s[n + 1] \in T
          /\ \A i \in 1 .. n : front[i] = s[i]
      BY <2>1
    <3> HIDE DEF front
    <3>2. s = Append(front, s[n + 1])
      <4>1. /\ Append(front, s[n + 1]) \in Seq(T) /\ Len(Append(front, s[n + 1])) = n + 1
            /\ \A i \in 1 .. n + 1 : Append(front, s[n + 1])[i] = s[i]
        BY <3>1
      <4>2. \A i \in 1 .. Len(s) : s[i] = Append(front, s[n + 1])[i]
        BY <2>1, <4>1
      <4> HIDE DEF front
      <4> QED BY <2>1, <4>1, <4>2, SeqEqual
    <3>3. front \in P
      BY <1>2, <3>1
    <3> QED BY <3>1, <3>2, <3>3
  <2> QED BY <2>1
<1> HIDE DEF N
<1>3. Nat \subseteq N
  BY <1>1, <1>2, NatSetInduction
<1>4. \A s \in Seq(T) : Len(s) \in Nat
  OBVIOUS
<1> QED BY <1>3, <1>4 DEF N

LEMMA FlattenConcat ==
  ASSUME NEW T, NEW a \in Seq(Seq(T)), NEW b \in Seq(Seq(T))
  PROVE  FlattenSeq(a \o b) = FlattenSeq(a) \o FlattenSeq(b)
<1> DEFINE P == {c \in Seq(Seq(T)) : FlattenSeq(a \o c) = FlattenSeq(a) \o FlattenSeq(c)}
<1>1. <<>> \in P
  <2>1. a \o <<>> = a /\ <<>> \in Seq(Seq(T))
    OBVIOUS
  <2>2. FlattenSeq(<<>>) = <<>>
    BY DEF FlattenSeq
  <2>3. FlattenSeq(a) \in Seq(T)
    BY FlattenAppend, <2>1
  <2>4. FlattenSeq(a) \o <<>> = FlattenSeq(a)
    BY <2>3
  <2> QED BY <2>1, <2>2, <2>4
<1>2. ASSUME NEW c \in Seq(Seq(T)), NEW s \in Seq(T), c \in P PROVE Append(c, s) \in P
  <2>1. a \o c \in Seq(Seq(T)) /\ a \o Append(c, s) = Append(a \o c, s)
    OBVIOUS
  <2>2. FlattenSeq(Append(a \o c, s)) = FlattenSeq(a \o c) \o s
    BY <2>1, FlattenAppend
  <2>3. FlattenSeq(Append(c, s)) = FlattenSeq(c) \o s /\ FlattenSeq(c) \in Seq(T)
        /\ FlattenSeq(a) \in Seq(T)
    BY FlattenAppend
  <2>4. (FlattenSeq(a) \o FlattenSeq(c)) \o s = FlattenSeq(a) \o (FlattenSeq(c) \o s)
    <3> DEFINE u == FlattenSeq(a)
               v == FlattenSeq(c)
    <3>1. u \in Seq(T) /\ v \in Seq(T) /\ s \in Seq(T)
      BY <2>3
    <3> HIDE DEF u, v
    <3>2. (u \o v) \o s = u \o (v \o s)
      BY <3>1, ConcatAssociative
    <3> QED BY <3>2 DEF u, v
  <2>5. Append(c, s) \in Seq(Seq(T))
    OBVIOUS
  <2> QED BY <1>2, <2>1, <2>2, <2>3, <2>4, <2>5
<1> HIDE DEF P
<1>3. Seq(Seq(T)) \subseteq P
  BY <1>1, <1>2, AppendInduction
<1> QED BY <1>3 DEF P
=============================================================================
