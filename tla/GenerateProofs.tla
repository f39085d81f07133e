---------------------------- MODULE GenerateProofs ----------------------------
(***************************************************************************)
(* Proofs about Generate, for any database whose definitions are well      *)
(* formed (CatalogAssumption) and any changes that other sessions make to  *)
(* it while it is read.                                                    *)
(***************************************************************************)
EXTENDS Generate, SequenceLemmas, FiniteSetTheorems

-----------------------------------------------------------------------------
(***************************************************************************)
(* Those.                                                                  *)
(***************************************************************************)

\* What one element contributes.
Part(x, S) == IF x \in S THEN <<x>> ELSE <<>>

LEMMA ThoseType ==
  ASSUME NEW T, NEW S, NEW s \in Seq(T)
  PROVE  Those(s, S) \in Seq(T)
<1> DEFINE V == Seq(T)
           parts == [i \in DOMAIN s |-> Part(s[i], S)]
<1>1. DOMAIN s = 1 .. Len(s) /\ Len(s) \in Nat /\ \A i \in DOMAIN s : s[i] \in T
  OBVIOUS
<1>2. \A i \in DOMAIN s : Part(s[i], S) \in V
  BY <1>1 DEF Part
<1>3. parts \in Seq(V)
  <2> HIDE DEF V
  <2> QED BY <1>1, <1>2
<1>4. FlattenSeq(parts) \in Seq(T)
  <2> HIDE DEF parts
  <2> QED BY <1>3, FlattenAppend
<1> QED BY <1>4 DEF Those, Part

LEMMA ThoseAppend ==
  ASSUME NEW T, NEW S, NEW s \in Seq(T), NEW x \in T
  PROVE  Those(Append(s, x), S) = IF x \in S THEN Append(Those(s, S), x) ELSE Those(s, S)
<1> DEFINE V == Seq(T)
           more == Append(s, x)
           parts == [i \in DOMAIN s |-> Part(s[i], S)]
           all == [i \in DOMAIN more |-> Part(more[i], S)]
<1>1. DOMAIN s = 1 .. Len(s) /\ Len(s) \in Nat /\ \A i \in DOMAIN s : s[i] \in T
  OBVIOUS
<1>2. \A y \in T : Part(y, S) \in V
  BY DEF Part
<1>3. parts \in Seq(V) /\ Len(parts) = Len(s) /\ \A i \in 1 .. Len(s) : parts[i] = Part(s[i], S)
  <2> HIDE DEF V
  <2> QED BY <1>1, <1>2
<1>4. /\ more \in Seq(T) /\ Len(more) = Len(s) + 1 /\ more[Len(s) + 1] = x
      /\ \A i \in 1 .. Len(s) : more[i] = s[i]
  OBVIOUS
<1>5. /\ all \in Seq(V) /\ Len(all) = Len(s) + 1
      /\ \A i \in 1 .. Len(s) + 1 : all[i] = Part(more[i], S)
  <2> HIDE DEF V, more
  <2>1. DOMAIN more = 1 .. Len(s) + 1 /\ \A i \in DOMAIN more : more[i] \in T
    BY <1>1, <1>4
  <2> QED BY <1>1, <1>2, <2>1
<1>6. Part(x, S) \in V
  BY <1>2
<1>7. all = Append(parts, Part(x, S))
  <2> HIDE DEF V, more, parts, all
  <2> DEFINE one == Part(x, S)
  <2>1. one \in V
    BY <1>6
  <2>2. \A i \in 1 .. Len(s) : all[i] = parts[i]
    BY <1>1, <1>3, <1>4, <1>5
  <2>3. all[Len(s) + 1] = one
    BY <1>1, <1>4, <1>5
  <2> HIDE DEF one
  <2>4. /\ Append(parts, one) \in Seq(V) /\ Len(Append(parts, one)) = Len(s) + 1
        /\ \A i \in 1 .. Len(s) : Append(parts, one)[i] = parts[i]
        /\ Append(parts, one)[Len(s) + 1] = one
    BY <1>1, <1>3, <2>1
  <2>5. \A i \in 1 .. Len(all) : all[i] = Append(parts, one)[i]
    BY <1>1, <1>5, <2>2, <2>3, <2>4
  <2>6. all = Append(parts, one)
    BY <1>5, <2>4, <2>5, SeqEqual
  <2> QED BY <2>6 DEF one
<1>8. FlattenSeq(all) = FlattenSeq(parts) \o Part(x, S) /\ FlattenSeq(parts) \in Seq(T)
  <2> HIDE DEF parts, all
  <2>1. parts \in Seq(Seq(T)) /\ Part(x, S) \in Seq(T)
    BY <1>3, <1>6
  <2>2. FlattenSeq(Append(parts, Part(x, S))) = FlattenSeq(parts) \o Part(x, S)
    BY <2>1, FlattenAppend
  <2>3. FlattenSeq(parts) \in Seq(T)
    BY <2>1, FlattenAppend
  <2> QED BY <1>7, <2>2, <2>3
<1>9. Those(more, S) = FlattenSeq(all) /\ Those(s, S) = FlattenSeq(parts)
  BY DEF Those, Part
<1> HIDE DEF all, parts, more
<1>10. Those(more, S) = Those(s, S) \o Part(x, S) /\ Those(s, S) \in Seq(T)
  BY <1>8, <1>9
<1>11. Those(s, S) \o Part(x, S) = IF x \in S THEN Append(Those(s, S), x) ELSE Those(s, S)
  <2> DEFINE old == Those(s, S)
  <2>1. old \in Seq(T)
    BY <1>10
  <2> HIDE DEF old
  <2>2. old \o <<x>> = Append(old, x) /\ old \o <<>> = old
    BY <2>1
  <2> QED BY <2>2 DEF old, Part
<1> QED BY <1>10, <1>11 DEF more

LEMMA ThoseEmpty == ASSUME NEW S PROVE Those(<<>>, S) = <<>>
BY DEF Those, FlattenSeq

\* What Those picks is from s and in S, and all of that.
Picked(s, S, picked) ==
  /\ \A i \in DOMAIN picked : picked[i] \in S /\ \E j \in DOMAIN s : s[j] = picked[i]
  /\ \A j \in DOMAIN s : s[j] \in S => \E i \in DOMAIN picked : picked[i] = s[j]
  /\ IsInjective(s) => IsInjective(picked)

LEMMA ThosePicked ==
  ASSUME NEW T, NEW S, NEW s \in Seq(T)
  PROVE  Picked(s, S, Those(s, S))
<1> DEFINE P == {r \in Seq(T) : Picked(r, S, Those(r, S))}
<1>1. <<>> \in P
  <2>1. Picked(<<>>, S, <<>>)
    BY DEF Picked, IsInjective
  <2> QED BY <2>1, ThoseEmpty
<1>2. ASSUME NEW r \in Seq(T), NEW x \in T, r \in P PROVE Append(r, x) \in P
  <2> DEFINE more == Append(r, x)
             old == Those(r, S)
             new == Those(more, S)
  <2>1. /\ more \in Seq(T) /\ Len(r) \in Nat /\ Len(more) = Len(r) + 1 /\ more[Len(r) + 1] = x
        /\ \A j \in 1 .. Len(r) : more[j] = r[j]
        /\ DOMAIN r = 1 .. Len(r) /\ DOMAIN more = 1 .. Len(r) + 1
    OBVIOUS
  <2> SUFFICES Picked(more, S, new)
    BY <2>1
  <2>2. old \in Seq(T) /\ Picked(r, S, old)
    BY <1>2, ThoseType
  <2>3. new = IF x \in S THEN Append(old, x) ELSE old
    BY ThoseAppend
  <2> HIDE DEF more, old, new
  <2>4. IsInjective(more) => IsInjective(r) /\ \A j \in DOMAIN r : r[j] # x
    BY SMTT(30), <2>1 DEF IsInjective
  <2>5. \A j \in DOMAIN r : j \in DOMAIN more /\ more[j] = r[j]
    BY <2>1
  <2>6. Len(r) + 1 \in DOMAIN more
    BY <2>1
  <2>7. \A j \in DOMAIN more : j \in DOMAIN r \/ more[j] = x
    BY <2>1
  <2>8. CASE x \notin S
    <3>1. new = old
      BY <2>3, <2>8
    <3> QED BY <2>2, <2>4, <2>5, <2>7, <2>8, <3>1 DEF Picked
  <2>9. CASE x \in S
    <3>1. /\ Len(old) \in Nat /\ DOMAIN old = 1 .. Len(old) /\ DOMAIN new = 1 .. Len(old) + 1
          /\ \A i \in 1 .. Len(old) : new[i] = old[i]
          /\ new[Len(old) + 1] = x
      BY <2>2, <2>3, <2>9
    <3>2. \A i \in DOMAIN new : i \in DOMAIN old \/ (i = Len(old) + 1 /\ new[i] = x)
      BY <3>1
    <3>3. \A i \in DOMAIN old : i \in DOMAIN new /\ new[i] = old[i]
      BY <3>1
    <3>4. Len(old) + 1 \in DOMAIN new
      BY <3>1
    <3>5. \A i \in DOMAIN new : new[i] \in S /\ \E j \in DOMAIN more : more[j] = new[i]
      BY <2>1, <2>2, <2>5, <2>6, <2>9, <3>2, <3>3 DEF Picked
    <3>6. \A j \in DOMAIN more : more[j] \in S => \E i \in DOMAIN new : new[i] = more[j]
      BY <2>2, <2>5, <2>7, <3>1, <3>3, <3>4 DEF Picked
    <3>7. IsInjective(more) => IsInjective(new)
      <4>1. IsInjective(more) => IsInjective(old) /\ \A i \in DOMAIN old : old[i] # x
        BY <2>2, <2>4 DEF Picked
      <4> QED BY <3>2, <3>3, <4>1 DEF IsInjective
    <3> QED BY <3>5, <3>6, <3>7 DEF Picked
  <2> QED BY <2>8, <2>9
<1> HIDE DEF P
<1>3. Seq(T) \subseteq P
  BY <1>1, <1>2, AppendInduction
<1> QED BY <1>3 DEF P
-----------------------------------------------------------------------------
(***************************************************************************)
(* The rows that the catalog queries return.                               *)
(***************************************************************************)
LEMMA FlattenType ==
  ASSUME NEW T, NEW n \in Nat, NEW f \in [1 .. n -> Seq(T)]
  PROVE  FlattenSeq(f) \in Seq(T)
<1> DEFINE V == Seq(T)
<1>1. f \in Seq(V)
  <2>1. f \in [1 .. n -> V]
    OBVIOUS
  <2> HIDE DEF V
  <2> QED BY <2>1, Listed
<1> QED BY <1>1, FlattenAppend

LEMMA InCatalogTables ==
  ASSUME IsDatabase(catalog)
  PROVE  /\ InCatalog(catalog) \in Seq(TableNames)
         /\ \A i \in DOMAIN InCatalog(catalog) : InCatalog(catalog)[i] \in DOMAIN catalog
         /\ \A t \in DOMAIN catalog : \E i \in DOMAIN InCatalog(catalog) : InCatalog(catalog)[i] = t
         /\ IsInjective(InCatalog(catalog))
<1>1. TableOrder \in Seq(TableNames) /\ IsInjective(TableOrder)
      /\ \A t \in TableNames : \E i \in DOMAIN TableOrder : TableOrder[i] = t
  BY CatalogAssumption DEF TableNames, ToSet
<1>2. Those(TableOrder, DOMAIN catalog) \in Seq(TableNames)
  BY <1>1, ThoseType
<1>3. Picked(TableOrder, DOMAIN catalog, Those(TableOrder, DOMAIN catalog))
  BY <1>1, ThosePicked
<1>4. \A t \in DOMAIN catalog : t \in TableNames
  BY DEF IsDatabase
<1> QED BY <1>1, <1>2, <1>3, <1>4 DEF InCatalog, Picked

LEMMA KeysOfType ==
  ASSUME NEW definition \in DefinitionType, NEW kinds
  PROVE  /\ KeysOf(definition, kinds) \in Seq(KeyDefinition)
         /\ \A i \in DOMAIN KeysOf(definition, kinds) : KeysOf(definition, kinds)[i].kind \in kinds
<1> DEFINE keys == definition.keys
           S == {k \in ToSet(keys) : k.kind \in kinds}
<1>1. keys \in Seq(KeyDefinition)
  BY DEF DefinitionType
<1> HIDE DEF keys
<1>2. Those(keys, S) \in Seq(KeyDefinition) /\ Picked(keys, S, Those(keys, S))
  <2> HIDE DEF S
  <2> QED BY <1>1, ThoseType, ThosePicked
<1>3. KeysOf(definition, kinds) = Those(keys, S)
  BY DEF KeysOf, keys
<1>4. \A k \in S : k.kind \in kinds
  OBVIOUS
<1> HIDE DEF S
<1> QED BY <1>2, <1>3, <1>4 DEF Picked

KeyKinds == {"PRIMARY KEY", "UNIQUE"}
KeyRow == [table : TableNames, name : Identifier, kind : KeyKinds, column : Identifier]

LEMMA ConcatSet ==
  ASSUME NEW T, NEW a \in Seq(T), NEW b \in Seq(T)
  PROVE  /\ a \o b \in Seq(T)
         /\ \A e : e \in ToSet(a \o b) <=> e \in ToSet(a) \/ e \in ToSet(b)
<1> DEFINE whole == a \o b
<1>1. /\ whole \in Seq(T) /\ Len(whole) = Len(a) + Len(b) /\ Len(a) \in Nat /\ Len(b) \in Nat
      /\ \A i \in 1 .. Len(a) + Len(b) :
           whole[i] = IF i <= Len(a) THEN a[i] ELSE b[i - Len(a)]
  BY Concatenation
<1> HIDE DEF whole
<1>2. /\ DOMAIN whole = 1 .. Len(a) + Len(b) /\ DOMAIN a = 1 .. Len(a) /\ DOMAIN b = 1 .. Len(b)
  BY <1>1
<1>3. \A i \in DOMAIN a : i \in DOMAIN whole /\ whole[i] = a[i]
  BY <1>1, <1>2
<1>4. \A i \in DOMAIN b : Len(a) + i \in DOMAIN whole /\ whole[Len(a) + i] = b[i]
  BY <1>1, <1>2
<1>5. \A i \in DOMAIN whole :
        (i \in DOMAIN a /\ whole[i] = a[i])
        \/ (i - Len(a) \in DOMAIN b /\ whole[i] = b[i - Len(a)])
  BY <1>1, <1>2
<1>6. \A e : e \in ToSet(whole) <=> e \in ToSet(a) \/ e \in ToSet(b)
  BY <1>3, <1>4, <1>5 DEF ToSet
<1> QED BY <1>1, <1>6 DEF whole

\* A concatenation has what its parts have.
LEMMA FlattenCovers ==
  ASSUME NEW T, NEW seqs \in Seq(Seq(T))
  PROVE  \A e : e \in ToSet(FlattenSeq(seqs)) <=> \E i \in DOMAIN seqs : e \in ToSet(seqs[i])
<1> DEFINE V == Seq(T)
           Covers(parts) == \A e : e \in ToSet(FlattenSeq(parts)) <=>
                                   \E i \in DOMAIN parts : e \in ToSet(parts[i])
           P == {parts \in Seq(V) : Covers(parts)}
<1>1. Covers(<<>>)
  <2>1. FlattenSeq(<<>>) = <<>>
    BY DEF FlattenSeq
  <2>2. \A i \in DOMAIN <<>> : FALSE
    OBVIOUS
  <2> QED BY <2>1, <2>2 DEF ToSet
<1>2. ASSUME NEW parts \in Seq(V), NEW s \in V, Covers(parts)
      PROVE  Covers(Append(parts, s))
  <2> DEFINE more == Append(parts, s)
             whole == FlattenSeq(parts)
             end == Len(parts) + 1
  <2>1. whole \in Seq(T) /\ FlattenSeq(more) = whole \o s /\ s \in Seq(T)
    BY <1>2, FlattenAppend
  <2>2. \A e : e \in ToSet(whole \o s) <=> e \in ToSet(whole) \/ e \in ToSet(s)
    <3> HIDE DEF whole
    <3> QED BY <2>1, ConcatSet
  <2>3. /\ DOMAIN parts = 1 .. Len(parts) /\ DOMAIN more = 1 .. end /\ Len(parts) \in Nat
        /\ \A i \in DOMAIN parts : more[i] = parts[i]
        /\ more[end] = s
    <3> HIDE DEF V
    <3> QED BY <1>2
  <2>4. \A e : (\E i \in DOMAIN more : e \in ToSet(more[i])) <=>
               (\E i \in DOMAIN parts : e \in ToSet(parts[i])) \/ e \in ToSet(s)
    <3>1. \A i : i \in DOMAIN more <=> i \in DOMAIN parts \/ i = end
      BY <2>3
    <3> HIDE DEF more, end
    <3> QED BY <2>3, <3>1
  <2> HIDE DEF more, whole
  <2> QED BY <1>2, <2>1, <2>2, <2>4 DEF whole, more
<1> HIDE DEF Covers
<1>3. \A parts \in Seq(V) : \A s \in V : parts \in P => Append(parts, s) \in P
  <2>1. \A parts \in Seq(V) : \A s \in V : Append(parts, s) \in Seq(V)
    <3> HIDE DEF V
    <3> QED OBVIOUS
  <2> QED BY <1>2, <2>1
<1>4. <<>> \in P
  <2>1. <<>> \in Seq(V)
    <3> HIDE DEF V
    <3> QED OBVIOUS
  <2> QED BY <1>1, <2>1
<1> HIDE DEF P, V
<1>5. Seq(V) \subseteq P
  BY <1>3, <1>4, AppendInduction
<1>6. seqs \in P
  BY <1>5 DEF V
<1> QED BY <1>6 DEF P, Covers

\* Merging two column lists loses no column and invents none.
LEMMA MergedColumns ==
  ASSUME NEW a \in ColumnList, NEW b \in ColumnList
  PROVE  Merged(a, b) \in ColumnList /\ ToSet(Merged(a, b)) = ToSet(a) \union ToSet(b)
<1> DEFINE T == Identifier
           V == Seq(T)
           n == Len(a) + Len(b)
           part(i) == AtPlace(a, i) \o AtPlace(b, i)
           parts == [i \in 1 .. n |-> part(i)]
<1>1. /\ a \in Seq(T) /\ b \in Seq(T) /\ n \in Nat /\ a # <<>>
      /\ DOMAIN a = 1 .. Len(a) /\ DOMAIN b = 1 .. Len(b)
      /\ Len(a) \in Nat /\ Len(b) \in Nat /\ 1 \in DOMAIN a
  BY DEF ColumnList
<1> HIDE DEF T
<1>2. ASSUME NEW c \in Seq(T), NEW i
      PROVE  AtPlace(c, i) \in Seq(T)
             /\ \A e : e \in ToSet(AtPlace(c, i)) <=> i \in DOMAIN c /\ e = c[i]
  <2>1. CASE i \in DOMAIN c
    <3> DEFINE x == c[i]
    <3>1. x \in T /\ AtPlace(c, i) = <<x>>
      BY <2>1 DEF AtPlace
    <3> HIDE DEF x
    <3>2. <<x>> \in Seq(T) /\ \A e : e \in ToSet(<<x>>) <=> e = x
      BY <3>1 DEF ToSet
    <3> QED BY <2>1, <3>1, <3>2 DEF x
  <2>2. CASE i \notin DOMAIN c
    <3>1. AtPlace(c, i) = <<>>
      BY <2>2 DEF AtPlace
    <3>2. \A j \in DOMAIN <<>> : FALSE
      OBVIOUS
    <3>3. <<>> \in Seq(T) /\ \A e : e \notin ToSet(<<>>)
      BY <3>2 DEF ToSet
    <3> QED BY <2>2, <3>1, <3>3
  <2> QED BY <2>1, <2>2
<1>3. ASSUME NEW i
      PROVE  part(i) \in V
             /\ \A e : e \in ToSet(part(i)) <=>
                       (i \in DOMAIN a /\ e = a[i]) \/ (i \in DOMAIN b /\ e = b[i])
  <2> DEFINE u == AtPlace(a, i)
             v == AtPlace(b, i)
  <2>1. /\ u \in Seq(T) /\ v \in Seq(T)
        /\ \A e : e \in ToSet(u) <=> i \in DOMAIN a /\ e = a[i]
        /\ \A e : e \in ToSet(v) <=> i \in DOMAIN b /\ e = b[i]
    BY <1>1, <1>2
  <2> HIDE DEF u, v
  <2>2. u \o v \in Seq(T) /\ \A e : e \in ToSet(u \o v) <=> e \in ToSet(u) \/ e \in ToSet(v)
    BY <2>1, ConcatSet
  <2> QED BY <2>1, <2>2 DEF u, v
<1> HIDE DEF part, V
<1>4. parts \in Seq(V) /\ DOMAIN parts = 1 .. n /\ \A i \in 1 .. n : parts[i] = part(i)
  <2>1. parts \in [1 .. n -> V]
    BY <1>3
  <2>2. \A i \in 1 .. n : parts[i] = part(i)
    OBVIOUS
  <2> HIDE DEF parts
  <2> QED BY <1>1, <2>1, <2>2, Listed
<1> HIDE DEF parts
<1>5. \A e : e \in ToSet(FlattenSeq(parts)) <=> \E i \in DOMAIN parts : e \in ToSet(parts[i])
  BY <1>4, FlattenCovers DEF V
<1>6. Merged(a, b) = FlattenSeq(parts)
  BY DEF Merged, parts, part
<1>7. DOMAIN a \subseteq 1 .. n /\ DOMAIN b \subseteq 1 .. n
  BY <1>1
<1>8. \A e : e \in ToSet(Merged(a, b)) <=>
             (\E i \in DOMAIN a : e = a[i]) \/ (\E i \in DOMAIN b : e = b[i])
  <2> HIDE DEF n
  <2> QED BY <1>3, <1>4, <1>5, <1>6, <1>7
<1>9. ToSet(Merged(a, b)) = ToSet(a) \union ToSet(b)
  BY <1>8 DEF ToSet
<1>10. Merged(a, b) \in Seq(T)
  <2>1. FlattenSeq(parts) \in Seq(T)
    BY <1>4, FlattenAppend DEF V
  <2> QED BY <1>6, <2>1
<1>11. Merged(a, b) # <<>>
  <2>1. a[1] \in ToSet(Merged(a, b))
    BY <1>1, <1>8
  <2>2. \A j \in DOMAIN <<>> : FALSE
    OBVIOUS
  <2>3. ToSet(<<>>) = {}
    BY <2>2 DEF ToSet
  <2> QED BY <2>1, <2>3
<1> QED BY <1>9, <1>10, <1>11 DEF ColumnList, T

\* What key_column_usage has for a key: its columns, with those of the foreign
\* key of its name when there is one.
LEMMA ColumnsUsed ==
  ASSUME IsDatabase(catalog), NEW t \in DOMAIN catalog, NEW k \in KeyDefinition,
         k.kind \in KeyKinds
  PROVE  /\ UsedColumns(t, k) \in ColumnList
         /\ Namesakes(catalog[t], k) = {} => UsedColumns(t, k) = k.columns
         /\ Namesakes(catalog[t], k) # {} =>
              ToSet(UsedColumns(t, k)) =
                ToSet(k.columns) \union UNION {ToSet(f.columns) : f \in Namesakes(catalog[t], k)}
<1> DEFINE others == Namesakes(catalog[t], k)
           f == CHOOSE f \in others : TRUE
<1>1. k.columns \in ColumnList
  BY DEF KeyDefinition, ColumnList, KeyKinds
<1>2. CASE others = {}
  BY <1>1, <1>2 DEF UsedColumns
<1>3. CASE others # {}
  <2>1. /\ catalog[t].foreignKeys \in Seq(ForeignKeyDefinition)
        /\ ReferencesDiffer(catalog[t].foreignKeys)
    BY DEF IsDatabase, DefinitionType
  <2>2. \A g \in others : \E i \in DOMAIN catalog[t].foreignKeys :
           catalog[t].foreignKeys[i] = g /\ g.name = k.name
    BY DEF Namesakes, ToSet
  <2>3. f \in others
    BY <1>3
  <2>4. UsedColumns(t, k) = Merged(k.columns, f.columns)
    BY <1>3 DEF UsedColumns
  <2> HIDE DEF f, others
  <2>5. \A g \in others : g = f
    <3> SUFFICES ASSUME NEW g \in others PROVE g = f
      OBVIOUS
    <3>1. PICK i \in DOMAIN catalog[t].foreignKeys :
             catalog[t].foreignKeys[i] = g /\ g.name = k.name
      BY <2>2
    <3>2. PICK j \in DOMAIN catalog[t].foreignKeys :
             catalog[t].foreignKeys[j] = f /\ f.name = k.name
      BY <2>2, <2>3
    <3>3. i = j
      BY <2>1, <3>1, <3>2 DEF ReferencesDiffer
    <3> QED BY <3>1, <3>2, <3>3
  <2>6. f \in ForeignKeyDefinition
    <3> DEFINE F == ForeignKeyDefinition
               list == catalog[t].foreignKeys
    <3>1. list \in Seq(F)
      BY <2>1
    <3> HIDE DEF F, list
    <3>2. \A i \in DOMAIN list : list[i] \in F
      BY <3>1
    <3> QED BY <2>2, <2>3, <3>2 DEF F, list
  <2>7. f.columns \in ColumnList
    BY <2>6 DEF ForeignKeyDefinition
  <2>8. UNION {ToSet(g.columns) : g \in others} = ToSet(f.columns)
    <3>1. others = {f}
      BY <2>3, <2>5
    <3> QED BY <3>1
  <2>9. /\ Merged(k.columns, f.columns) \in ColumnList
        /\ ToSet(Merged(k.columns, f.columns)) = ToSet(k.columns) \union ToSet(f.columns)
    BY <1>1, <2>7, MergedColumns
  <2> QED BY <1>3, <2>4, <2>8, <2>9 DEF others
<1> QED BY <1>2, <1>3

\* The rows of one key.
RowsOfKey(t, k) ==
  LET used == UsedColumns(t, k)
  IN [j \in DOMAIN used |->
        [table |-> t, name |-> k.name, kind |-> k.kind, column |-> used[j]]]
RowsOfTable(t) ==
  LET keys == KeysOf(catalog[t], KeyKinds)
  IN FlattenSeq([i \in DOMAIN keys |-> RowsOfKey(t, keys[i])])

LEMMA RowsOfKeyType ==
  ASSUME IsDatabase(catalog), NEW t \in DOMAIN catalog, NEW k \in KeyDefinition,
         k.kind \in KeyKinds
  PROVE  RowsOfKey(t, k) \in Seq(KeyRow)
<1> DEFINE used == UsedColumns(t, k)
<1>1. used \in Seq(Identifier) /\ k.name \in Identifier /\ t \in TableNames
  BY ColumnsUsed DEF KeyDefinition, IsDatabase, ColumnList
<1> HIDE DEF used
<1>2. \A j \in DOMAIN used :
        [table |-> t, name |-> k.name, kind |-> k.kind, column |-> used[j]] \in KeyRow
  BY <1>1 DEF KeyRow
<1>3. DOMAIN used = 1 .. Len(used) /\ Len(used) \in Nat
  BY <1>1
<1>4. RowsOfKey(t, k) \in [1 .. Len(used) -> KeyRow]
  BY <1>2, <1>3 DEF RowsOfKey, used
<1> QED BY <1>3, <1>4, Listed

LEMMA RowsOfTableType ==
  ASSUME IsDatabase(catalog), NEW t \in DOMAIN catalog
  PROVE  RowsOfTable(t) \in Seq(KeyRow)
<1> DEFINE keys == KeysOf(catalog[t], KeyKinds)
<1>1. t \in TableNames /\ catalog[t] \in DefinitionType
  BY DEF IsDatabase
<1>2. keys \in Seq(KeyDefinition) /\ \A i \in DOMAIN keys : keys[i].kind \in KeyKinds
  BY <1>1, KeysOfType
<1> HIDE DEF keys
<1>3. /\ Len(keys) \in Nat /\ DOMAIN keys = 1 .. Len(keys)
      /\ \A i \in DOMAIN keys : keys[i] \in KeyDefinition
  BY <1>2
<1>4. \A i \in DOMAIN keys : RowsOfKey(t, keys[i]) \in Seq(KeyRow)
  BY <1>1, <1>2, <1>3, RowsOfKeyType
<1>5. FlattenSeq([i \in DOMAIN keys |-> RowsOfKey(t, keys[i])]) \in Seq(KeyRow)
  <2> DEFINE V == Seq(KeyRow)
             f == [i \in DOMAIN keys |-> RowsOfKey(t, keys[i])]
  <2>1. f \in [1 .. Len(keys) -> V]
    <3> HIDE DEF V
    <3> QED BY <1>3, <1>4 DEF V
  <2> HIDE DEF f
  <2>2. FlattenSeq(f) \in Seq(KeyRow)
    BY <1>3, <2>1, FlattenType
  <2> QED BY <2>2 DEF f
<1> QED BY <1>5 DEF RowsOfTable, keys

LEMMA KeyRowsType ==
  ASSUME IsDatabase(catalog)
  PROVE  /\ KeyRows = Rows(catalog, RowsOfTable)
         /\ KeyRows \in Seq(KeyRow)
<1> DEFINE found == InCatalog(catalog)
<1>1. /\ found \in Seq(TableNames) /\ Len(found) \in Nat /\ DOMAIN found = 1 .. Len(found)
      /\ \A i \in DOMAIN found : found[i] \in DOMAIN catalog
  BY InCatalogTables
<1>2. KeyRows = FlattenSeq([i \in DOMAIN found |-> RowsOfTable(found[i])])
  BY DEF KeyRows, Rows, RowsOfTable, RowsOfKey, KeyKinds
<1>3. \A i \in DOMAIN found : RowsOfTable(found[i]) \in Seq(KeyRow)
  BY <1>1, RowsOfTableType
<1> HIDE DEF found
<1> DEFINE V == Seq(KeyRow)
           f == [i \in DOMAIN found |-> RowsOfTable(found[i])]
<1>4. f \in [1 .. Len(found) -> V]
  <2> HIDE DEF V
  <2> QED BY <1>1, <1>3 DEF V
<1>5. FlattenSeq(f) \in Seq(KeyRow)
  <2> HIDE DEF f
  <2> QED BY <1>1, <1>4, FlattenType
<1>6. Rows(catalog, RowsOfTable) = FlattenSeq(f)
  BY DEF Rows, found
<1> QED BY <1>2, <1>5, <1>6

ForeignRow ==
  [table : TableNames, name : Identifier, column : Identifier, schema : Schemas,
   refTable : Identifier, refColumn : Identifier]

LEMMA ForeignRowType ==
  ASSUME NEW t \in TableNames, NEW name \in Identifier, NEW column \in Identifier,
         NEW schema \in Schemas, NEW refTable \in Identifier, NEW refColumn \in Identifier
  PROVE  ForeignKeyRow(t, name, column, schema, refTable, refColumn) \in ForeignRow
BY DEF ForeignKeyRow, ForeignRow

RowsOfReference(t, k) ==
  [j \in DOMAIN k.columns |->
     ForeignKeyRow(t, k.name, k.columns[j], k.schema, k.table, k.referencedColumns[j])]
ReferencesOfTable(t) ==
  LET keys == catalog[t].foreignKeys
  IN FlattenSeq([i \in DOMAIN keys |-> RowsOfReference(t, keys[i])])

LEMMA RowsOfReferenceType ==
  ASSUME NEW t \in TableNames, NEW k \in ForeignKeyDefinition
  PROVE  RowsOfReference(t, k) \in Seq(ForeignRow)
<1>1. /\ k.columns \in Seq(Identifier) /\ k.referencedColumns \in Seq(Identifier)
      /\ Len(k.columns) = Len(k.referencedColumns)
      /\ k.name \in Identifier /\ k.schema \in Schemas /\ k.table \in Identifier
  BY DEF ForeignKeyDefinition, ColumnList
<1>2. /\ Len(k.columns) \in Nat /\ DOMAIN k.columns = 1 .. Len(k.columns)
      /\ \A j \in DOMAIN k.columns :
           k.columns[j] \in Identifier /\ k.referencedColumns[j] \in Identifier
  BY <1>1
<1>3. \A j \in DOMAIN k.columns :
        ForeignKeyRow(t, k.name, k.columns[j], k.schema, k.table, k.referencedColumns[j])
          \in ForeignRow
  BY <1>1, <1>2, ForeignRowType
<1>4. RowsOfReference(t, k) \in [1 .. Len(k.columns) -> ForeignRow]
  BY <1>2, <1>3 DEF RowsOfReference
<1> QED BY <1>2, <1>4, Listed

LEMMA ReferencesOfTableType ==
  ASSUME IsDatabase(catalog), NEW t \in DOMAIN catalog
  PROVE  ReferencesOfTable(t) \in Seq(ForeignRow)
<1> DEFINE keys == catalog[t].foreignKeys
<1>1. t \in TableNames /\ keys \in Seq(ForeignKeyDefinition)
  BY DEF IsDatabase, DefinitionType
<1> HIDE DEF keys
<1>2. /\ Len(keys) \in Nat /\ DOMAIN keys = 1 .. Len(keys)
      /\ \A i \in DOMAIN keys : keys[i] \in ForeignKeyDefinition
  BY <1>1
<1>3. \A i \in DOMAIN keys : RowsOfReference(t, keys[i]) \in Seq(ForeignRow)
  BY <1>1, <1>2, RowsOfReferenceType
<1> DEFINE V == Seq(ForeignRow)
           f == [i \in DOMAIN keys |-> RowsOfReference(t, keys[i])]
<1>4. f \in [1 .. Len(keys) -> V]
  <2> HIDE DEF V
  <2> QED BY <1>2, <1>3 DEF V
<1>5. FlattenSeq(f) \in Seq(ForeignRow)
  <2> HIDE DEF f
  <2> QED BY <1>2, <1>4, FlattenType
<1> QED BY <1>5 DEF ReferencesOfTable, keys

LEMMA MySQLRowsType ==
  ASSUME IsDatabase(catalog)
  PROVE  MySQLForeignKeyRows \in Seq(ForeignRow)
<1> DEFINE found == InCatalog(catalog)
<1>1. /\ found \in Seq(TableNames) /\ Len(found) \in Nat /\ DOMAIN found = 1 .. Len(found)
      /\ \A i \in DOMAIN found : found[i] \in DOMAIN catalog
  BY InCatalogTables
<1>2. MySQLForeignKeyRows = FlattenSeq([i \in DOMAIN found |-> ReferencesOfTable(found[i])])
  BY DEF MySQLForeignKeyRows, Rows, ReferencesOfTable, RowsOfReference
<1>3. \A i \in DOMAIN found : ReferencesOfTable(found[i]) \in Seq(ForeignRow)
  BY <1>1, ReferencesOfTableType
<1> HIDE DEF found
<1> DEFINE V == Seq(ForeignRow)
           f == [i \in DOMAIN found |-> ReferencesOfTable(found[i])]
<1>4. f \in [1 .. Len(found) -> V]
  <2> HIDE DEF V
  <2> QED BY <1>1, <1>3 DEF V
<1>5. FlattenSeq(f) \in Seq(ForeignRow)
  <2> HIDE DEF f
  <2> QED BY <1>1, <1>4, FlattenType
<1> QED BY <1>2, <1>5

\* What f makes of a finite set covers a finite set only.
LEMMA FiniteCover ==
  ASSUME NEW S, IsFiniteSet(S), NEW f, NEW T, \A y \in T : \E x \in S : f[x] = y
  PROVE  IsFiniteSet(T)
<1> DEFINE P == {x \in S : f[x] \in T}
           g == [x \in P |-> f[x]]
<1>1. IsFiniteSet(P)
  BY FS_Subset
<1>2. g \in Surjection(P, T)
  BY DEF Surjection
<1> QED BY <1>1, <1>2, FS_Surjection

LEMMA FiniteRange ==
  ASSUME NEW T, NEW s \in Seq(T)
  PROVE  IsFiniteSet(DOMAIN s) /\ IsFiniteSet(ToSet(s))
<1>1. DOMAIN s = 1 .. Len(s) /\ Len(s) \in Nat
  OBVIOUS
<1>2. IsFiniteSet(DOMAIN s)
  BY <1>1, FS_Interval
<1>3. \A y \in ToSet(s) : \E x \in DOMAIN s : s[x] = y
  BY DEF ToSet
<1> QED BY <1>2, <1>3, FiniteCover

\* The union of finitely many finite sets, f[x] for each x.
LEMMA FiniteUnion ==
  ASSUME NEW S, IsFiniteSet(S), NEW f, \A x \in S : IsFiniteSet(f[x])
  PROVE  IsFiniteSet(UNION {f[x] : x \in S})
<1> DEFINE R == {f[x] : x \in S}
<1>1. \A y \in R : \E x \in S : f[x] = y
  OBVIOUS
<1>2. \A y \in R : IsFiniteSet(y)
  OBVIOUS
<1> HIDE DEF R
<1>3. IsFiniteSet(R)
  BY <1>1, FiniteCover
<1>4. IsFiniteSet(UNION R)
  BY <1>2, <1>3, FS_UNION
<1> QED BY <1>4 DEF R

LEMMA NamesAreText == TableNames \subseteq Identifier /\ Own \in Schemas
<1>1. \A i \in DOMAIN TableOrder : TableOrder[i] \in Identifier
  BY CatalogAssumption
<1>2. TableNames \subseteq Identifier
  BY <1>1 DEF TableNames, ToSet
<1> QED BY <1>2 DEF Schemas

LEMMA CatalogIsFinite ==
  ASSUME IsDatabase(catalog)
  PROVE  /\ IsFiniteSet(References(catalog))
         /\ IsFiniteSet(KeyConstraints(catalog) \union Elsewhere)
         /\ \A r \in References(catalog) : r.table \in TableNames /\ r.fk \in ForeignKeyDefinition
         /\ \A k \in KeyConstraints(catalog) \union Elsewhere :
              /\ k.schema \in Schemas /\ k.table \in Identifier /\ k.name \in Identifier
              /\ k.columns \in ColumnList
<1>1. IsFiniteSet(DOMAIN catalog) /\ IsFiniteSet(Elsewhere)
  <2>1. IsFiniteSet(TableNames)
    BY CatalogAssumption, FiniteRange DEF TableNames
  <2>2. DOMAIN catalog \in SUBSET TableNames
    BY DEF IsDatabase
  <2> QED BY <2>1, <2>2, FS_Subset, CatalogAssumption
<1>2. ASSUME NEW t \in DOMAIN catalog
      PROVE  /\ t \in TableNames
             /\ catalog[t].keys \in Seq(KeyDefinition)
             /\ catalog[t].foreignKeys \in Seq(ForeignKeyDefinition)
  BY DEF IsDatabase, DefinitionType
<1>3. IsFiniteSet(References(catalog))
  <2> DEFINE of == [t \in DOMAIN catalog |->
                      {[table |-> t, fk |-> f] : f \in ToSet(catalog[t].foreignKeys)}]
  <2>1. ASSUME NEW t \in DOMAIN catalog PROVE IsFiniteSet(of[t])
    <3> DEFINE keys == ToSet(catalog[t].foreignKeys)
               g == [f \in keys |-> [table |-> t, fk |-> f]]
    <3>1. IsFiniteSet(keys)
      BY <1>2, FiniteRange
    <3>2. \A y \in of[t] : \E x \in keys : g[x] = y
      OBVIOUS
    <3> HIDE DEF keys, g, of
    <3> QED BY <3>1, <3>2, FiniteCover
  <2>2. References(catalog) = UNION {of[t] : t \in DOMAIN catalog}
    BY DEF References
  <2> HIDE DEF of
  <2>3. IsFiniteSet(UNION {of[t] : t \in DOMAIN catalog})
    BY <1>1, <2>1, FiniteUnion
  <2> QED BY <2>2, <2>3
<1>4. IsFiniteSet(KeyConstraints(catalog))
  <2> DEFINE kept(t) == {x \in ToSet(catalog[t].keys) : x.kind \in {"PRIMARY KEY", "UNIQUE"}}
             of == [t \in DOMAIN catalog |-> {Constraint(t, k) : k \in kept(t)}]
  <2>1. ASSUME NEW t \in DOMAIN catalog PROVE IsFiniteSet(of[t])
    <3> DEFINE keys == kept(t)
               g == [k \in keys |-> Constraint(t, k)]
    <3>1. IsFiniteSet(keys)
      <4>1. IsFiniteSet(ToSet(catalog[t].keys))
        BY <1>2, FiniteRange
      <4>2. keys \in SUBSET ToSet(catalog[t].keys)
        OBVIOUS
      <4> QED BY <4>1, <4>2, FS_Subset
    <3>2. \A y \in of[t] : \E x \in keys : g[x] = y
      OBVIOUS
    <3> HIDE DEF keys, g, of
    <3> QED BY <3>1, <3>2, FiniteCover
  <2>2. KeyConstraints(catalog) = UNION {of[t] : t \in DOMAIN catalog}
    BY DEF KeyConstraints
  <2> HIDE DEF of
  <2>3. IsFiniteSet(UNION {of[t] : t \in DOMAIN catalog})
    BY <1>1, <2>1, FiniteUnion
  <2> QED BY <2>2, <2>3
<1>5. IsFiniteSet(KeyConstraints(catalog) \union Elsewhere)
  BY <1>1, <1>4, FS_Union
<1>6. ASSUME NEW r \in References(catalog)
      PROVE  r.table \in TableNames /\ r.fk \in ForeignKeyDefinition
  <2>1. PICK t \in DOMAIN catalog : \E f \in ToSet(catalog[t].foreignKeys) :
          r = [table |-> t, fk |-> f]
    BY DEF References
  <2>2. PICK f \in ToSet(catalog[t].foreignKeys) : r = [table |-> t, fk |-> f]
    BY <2>1
  <2>3. f \in ForeignKeyDefinition
    BY <1>2 DEF ToSet
  <2> QED BY <1>2, <2>2, <2>3
<1>7. ASSUME NEW k \in KeyConstraints(catalog) \union Elsewhere
      PROVE  /\ k.schema \in Schemas /\ k.table \in Identifier /\ k.name \in Identifier
             /\ k.columns \in ColumnList
  <2>1. CASE k \in Elsewhere
    BY <2>1, CatalogAssumption DEF Schemas
  <2>2. CASE k \in KeyConstraints(catalog)
    <3>1. PICK t \in DOMAIN catalog : \E x \in ToSet(catalog[t].keys) :
            x.kind \in {"PRIMARY KEY", "UNIQUE"} /\ k = Constraint(t, x)
      BY <2>2 DEF KeyConstraints
    <3>2. PICK x \in ToSet(catalog[t].keys) :
            x.kind \in {"PRIMARY KEY", "UNIQUE"} /\ k = Constraint(t, x)
      BY <3>1
    <3>3. x \in KeyDefinition
      BY <1>2 DEF ToSet
    <3>4. x.columns \in ColumnList /\ x.name \in Identifier
      BY <3>2, <3>3 DEF KeyDefinition, ColumnList
    <3>5. t \in Identifier /\ Own \in Schemas
      BY <1>2, NamesAreText
    <3>6. k.schema = Own /\ k.table = t /\ k.name = x.name /\ k.columns = x.columns
      BY <3>2 DEF Constraint
    <3> QED BY <3>4, <3>5, <3>6
  <2> QED BY <2>1, <2>2
<1> QED BY <1>3, <1>5, <1>6, <1>7

LEMMA UsageIsFinite ==
  ASSUME IsDatabase(catalog)
  PROVE  /\ IsFiniteSet(KeyUsage)
         /\ \A u \in KeyUsage : u.column \in Identifier /\ u.ordinal \in Nat
<1> DEFINE Keys == KeyConstraints(catalog) \union Elsewhere
           of(k) == {[schema |-> k.schema, table |-> k.table, name |-> k.name, ordinal |-> i,
                      column |-> k.columns[i], position |-> 0] : i \in DOMAIN k.columns}
           place(r, i) == LET k == CHOOSE k \in KeyConstraints(catalog) \union Elsewhere :
                                     k.schema = r.fk.schema /\ k.table = r.fk.table
                                       /\ k.name = r.fk.key
                          IN Place(r.fk.referencedColumns[i], k.columns)
           by(r) == {[schema |-> Own, table |-> r.table, name |-> r.fk.name, ordinal |-> i,
                      column |-> r.fk.columns[i], position |-> place(r, i)] :
                       i \in DOMAIN r.fk.columns}
           A == UNION {of(k) : k \in Keys}
           B == UNION {by(r) : r \in References(catalog)}
<1>1. KeyUsage = A \union B
  BY DEF KeyUsage
<1> HIDE DEF place
<1>2. ASSUME NEW k \in Keys
      PROVE  IsFiniteSet(of(k)) /\ \A u \in of(k) : u.column \in Identifier /\ u.ordinal \in Nat
  <2>1. k.columns \in Seq(Identifier)
    BY CatalogIsFinite DEF ColumnList
  <2>2. /\ IsFiniteSet(DOMAIN k.columns)
        /\ \A i \in DOMAIN k.columns : k.columns[i] \in Identifier /\ i \in Nat
    BY <2>1, FiniteRange
  <2> DEFINE g == [i \in DOMAIN k.columns |->
                     [schema |-> k.schema, table |-> k.table, name |-> k.name, ordinal |-> i,
                      column |-> k.columns[i], position |-> 0]]
  <2>3. \A y \in of(k) : \E x \in DOMAIN k.columns : g[x] = y
    OBVIOUS
  <2>4. \A u \in of(k) : u.column \in Identifier /\ u.ordinal \in Nat
    BY <2>2
  <2> HIDE DEF g, of
  <2>5. IsFiniteSet(of(k))
    BY <2>2, <2>3, FiniteCover
  <2> QED BY <2>4, <2>5
<1>3. ASSUME NEW r \in References(catalog)
      PROVE  IsFiniteSet(by(r)) /\ \A u \in by(r) : u.column \in Identifier /\ u.ordinal \in Nat
  <2>1. r.fk.columns \in Seq(Identifier)
    BY CatalogIsFinite DEF ForeignKeyDefinition, ColumnList
  <2>2. /\ IsFiniteSet(DOMAIN r.fk.columns)
        /\ \A i \in DOMAIN r.fk.columns : r.fk.columns[i] \in Identifier /\ i \in Nat
    BY <2>1, FiniteRange
  <2> DEFINE g == [i \in DOMAIN r.fk.columns |->
                     [schema |-> Own, table |-> r.table, name |-> r.fk.name, ordinal |-> i,
                      column |-> r.fk.columns[i], position |-> place(r, i)]]
  <2>3. \A y \in by(r) : \E x \in DOMAIN r.fk.columns : g[x] = y
    OBVIOUS
  <2>4. \A u \in by(r) : u.column \in Identifier /\ u.ordinal \in Nat
    BY <2>2
  <2> HIDE DEF g, by
  <2>5. IsFiniteSet(by(r))
    BY <2>2, <2>3, FiniteCover
  <2> QED BY <2>4, <2>5
<1>4. IsFiniteSet(Keys) /\ IsFiniteSet(References(catalog))
  BY CatalogIsFinite
<1> HIDE DEF Keys, of, by
<1>5. IsFiniteSet(UNION {of(k) : k \in Keys})
  <2> DEFINE f == [k \in Keys |-> of(k)]
  <2>1. {of(k) : k \in Keys} = {f[k] : k \in Keys} /\ \A k \in Keys : f[k] = of(k)
    OBVIOUS
  <2> HIDE DEF f
  <2>2. IsFiniteSet(UNION {f[k] : k \in Keys})
    BY <1>2, <1>4, <2>1, FiniteUnion
  <2> QED BY <2>1, <2>2
<1>6. IsFiniteSet(UNION {by(r) : r \in References(catalog)})
  <2> DEFINE f == [r \in References(catalog) |-> by(r)]
  <2>1. /\ {by(r) : r \in References(catalog)} = {f[r] : r \in References(catalog)}
        /\ \A r \in References(catalog) : f[r] = by(r)
    OBVIOUS
  <2> HIDE DEF f
  <2>2. IsFiniteSet(UNION {f[r] : r \in References(catalog)})
    BY <1>3, <1>4, <2>1, FiniteUnion
  <2> QED BY <2>1, <2>2
<1>7. /\ \A u \in A : u.column \in Identifier /\ u.ordinal \in Nat
      /\ \A u \in B : u.column \in Identifier /\ u.ordinal \in Nat
  BY <1>2, <1>3
<1>8. IsFiniteSet(A) /\ IsFiniteSet(B)
  BY <1>5, <1>6
<1> HIDE DEF A, B
<1>9. IsFiniteSet(KeyUsage)
  BY <1>1, <1>8, FS_Union
<1> QED BY <1>1, <1>7, <1>9

LEMMA ConstraintsAreFinite ==
  ASSUME IsDatabase(catalog)
  PROVE  /\ IsFiniteSet(Constraints)
         /\ \A c \in Constraints : c.schema \in Schemas /\ c.table \in Identifier
<1> DEFINE Keys == KeyConstraints(catalog) \union Elsewhere
           ofKeys == {[schema |-> k.schema, table |-> k.table, name |-> k.name] : k \in Keys}
           ofReferences == {[schema |-> Own, table |-> r.table, name |-> r.fk.name] :
                              r \in References(catalog)}
<1>1. Constraints = ofKeys \union ofReferences
  BY DEF Constraints
<1>2. IsFiniteSet(ofKeys)
  <2> DEFINE f == [k \in Keys |-> [schema |-> k.schema, table |-> k.table, name |-> k.name]]
  <2>1. \A y \in ofKeys : \E k \in Keys : f[k] = y
    OBVIOUS
  <2>2. IsFiniteSet(Keys)
    BY CatalogIsFinite
  <2> HIDE DEF f, ofKeys, Keys
  <2> QED BY <2>1, <2>2, FiniteCover
<1>3. IsFiniteSet(ofReferences)
  <2> DEFINE f == [r \in References(catalog) |->
                     [schema |-> Own, table |-> r.table, name |-> r.fk.name]]
  <2>1. \A y \in ofReferences : \E r \in References(catalog) : f[r] = y
    OBVIOUS
  <2>2. IsFiniteSet(References(catalog))
    BY CatalogIsFinite
  <2> HIDE DEF f, ofReferences
  <2> QED BY <2>1, <2>2, FiniteCover
<1>4. \A c \in ofKeys : c.schema \in Schemas /\ c.table \in Identifier
  BY CatalogIsFinite
<1>5. \A c \in ofReferences : c.schema \in Schemas /\ c.table \in Identifier
  <2>1. \A r \in References(catalog) : r.table \in Identifier
    BY CatalogIsFinite, NamesAreText
  <2> QED BY <2>1, NamesAreText
<1> HIDE DEF ofKeys, ofReferences
<1> QED BY <1>1, <1>2, <1>3, <1>4, <1>5, FS_Union

JoinElement(x) ==
  /\ x.from.fk.table \in TableNames /\ x.from.fk.fk.name \in Identifier
  /\ x.from.fkc.column \in Identifier /\ x.from.fkc.ordinal \in Nat
  /\ x.to.pk.schema \in Schemas /\ x.to.pk.table \in Identifier
  /\ x.to.pkc.column \in Identifier

LEMMA JoinIsFinite ==
  ASSUME IsDatabase(catalog)
  PROVE  IsFiniteSet(PostgresJoin) /\ \A x \in PostgresJoin : JoinElement(x)
<1> DEFINE R == References(catalog)
           U == KeyUsage
           C == Constraints
<1>1. IsFiniteSet(R) /\ IsFiniteSet(U) /\ IsFiniteSet(C)
  BY CatalogIsFinite, UsageIsFinite, ConstraintsAreFinite
<1>2. \A x \in Referencing : x.fk \in R /\ x.fkc \in U /\ x = [fk |-> x.fk, fkc |-> x.fkc]
  BY DEF Referencing
<1>3. \A x \in Referenced : /\ x.rc \in R /\ x.pk \in C /\ x.pkc \in U
                            /\ x = [rc |-> x.rc, pk |-> x.pk, pkc |-> x.pkc]
  BY DEF Referenced
<1>4. \A x \in PostgresJoin : x.from \in Referencing /\ x.to \in Referenced
                              /\ x = [from |-> x.from, to |-> x.to]
  BY DEF PostgresJoin
<1>5. IsFiniteSet(Referencing)
  <2> DEFINE f == [p \in R \X U |-> [fk |-> p[1], fkc |-> p[2]]]
  <2>1. \A y \in Referencing : \E p \in R \X U : f[p] = y
    <3> TAKE y \in Referencing
    <3>1. <<y.fk, y.fkc>> \in R \X U
      BY <1>2
    <3>2. f[<<y.fk, y.fkc>>] = y
      BY <1>2, <3>1
    <3> QED BY <3>1, <3>2
  <2>2. IsFiniteSet(R \X U)
    BY <1>1, FS_Product
  <2> HIDE DEF f
  <2> QED BY <2>1, <2>2, FiniteCover
<1>6. IsFiniteSet(Referenced)
  <2> DEFINE f == [p \in R \X (C \X U) |-> [rc |-> p[1], pk |-> p[2][1], pkc |-> p[2][2]]]
  <2>1. \A y \in Referenced : \E p \in R \X (C \X U) : f[p] = y
    <3> TAKE y \in Referenced
    <3>1. <<y.rc, <<y.pk, y.pkc>>>> \in R \X (C \X U)
      BY <1>3
    <3>2. f[<<y.rc, <<y.pk, y.pkc>>>>] = y
      BY <1>3, <3>1
    <3> QED BY <3>1, <3>2
  <2>2. IsFiniteSet(C \X U)
    BY <1>1, FS_Product
  <2>3. IsFiniteSet(R \X (C \X U))
    BY <1>1, <2>2, FS_Product
  <2> HIDE DEF f
  <2> QED BY <2>1, <2>3, FiniteCover
<1>7. IsFiniteSet(PostgresJoin)
  <2> DEFINE A == Referencing
             B == Referenced
             f == [p \in A \X B |-> [from |-> p[1], to |-> p[2]]]
  <2>1. \A y \in PostgresJoin : \E p \in A \X B : f[p] = y
    <3> TAKE y \in PostgresJoin
    <3>1. <<y.from, y.to>> \in A \X B
      BY <1>4
    <3>2. f[<<y.from, y.to>>] = y
      BY <1>4, <3>1
    <3> QED BY <3>1, <3>2
  <2>2. IsFiniteSet(A \X B)
    BY <1>5, <1>6, FS_Product
  <2> HIDE DEF f
  <2> QED BY <2>1, <2>2, FiniteCover
<1>8. ASSUME NEW x \in PostgresJoin PROVE JoinElement(x)
  <2>1. x.from \in Referencing /\ x.to \in Referenced
    BY <1>4
  <2>2. x.from.fk \in R /\ x.from.fkc \in U /\ x.to.pk \in C /\ x.to.pkc \in U
    BY <1>2, <1>3, <2>1
  <2>3. x.from.fk.table \in TableNames /\ x.from.fk.fk \in ForeignKeyDefinition
    BY <2>2, CatalogIsFinite
  <2>4. /\ x.from.fkc.column \in Identifier /\ x.from.fkc.ordinal \in Nat
        /\ x.to.pkc.column \in Identifier
    BY <2>2, UsageIsFinite
  <2>5. x.to.pk.schema \in Schemas /\ x.to.pk.table \in Identifier
    BY <2>2, ConstraintsAreFinite
  <2> QED BY <2>3, <2>4, <2>5 DEF JoinElement, ForeignKeyDefinition
<1> QED BY <1>7, <1>8

\* A finite set of joined rows has a first one.
LEMMA FirstExists ==
  ASSUME IsDatabase(catalog), NEW S \in SUBSET PostgresJoin, S # {}
  PROVE  First(S) \in S /\ \A y \in S : First(S).from.fkc.ordinal <= y.from.fkc.ordinal
<1> DEFINE ordinals == {x.from.fkc.ordinal : x \in S}
<1>1. \A x \in S : x.from.fkc.ordinal \in Nat
  BY JoinIsFinite DEF JoinElement
<1>2. \E n \in ordinals : \A m \in ordinals : n <= m
  <2>1. ordinals # {} /\ ordinals \subseteq Nat
    BY <1>1
  <2> HIDE DEF ordinals
  <2> QED BY <2>1, SmallestExists
<1>3. \E x \in S : \A y \in S : x.from.fkc.ordinal <= y.from.fkc.ordinal
  BY <1>2
<1> QED BY <1>3 DEF First

\* The row that the query makes of joined rows, and what sorts a set of them.
JoinedRow(x) ==
  ForeignKeyRow(x.from.fk.table, x.from.fk.fk.name, x.from.fkc.column,
                x.to.pk.schema, x.to.pk.table, x.to.pkc.column)
JoinedRows(rows) == [i \in DOMAIN rows |-> JoinedRow(rows[i])]
Sorts(sorted) ==
  \A S \in SUBSET PostgresJoin :
    /\ sorted[S] \in Seq(PostgresJoin)
    /\ sorted[S] = IF S = {} THEN <<>> ELSE <<First(S)>> \o sorted[S \ {First(S)}]

LEMMA PostgresRowsSorted ==
  ASSUME IsDatabase(catalog)
  PROVE  \E sorted : Sorts(sorted) /\ PostgresForeignKeyRows = JoinedRows(sorted[PostgresJoin])
<1> DEFINE J == PostgresJoin
           D == SUBSET J
           V == Seq(J)
           Body(g, S) == IF S = {} THEN <<>> ELSE <<First(S)>> \o g[S \ {First(S)}]
           G == [g \in [D -> V] |-> [S \in D |-> Body(g, S)]]
           rank == [S \in D |-> Cardinality(S)]
           sorted == CHOOSE f : f = [S \in D |-> Body(f, S)]
<1>1. ASSUME NEW S \in D, S # {}
      PROVE  /\ First(S) \in J /\ S \ {First(S)} \in D
             /\ Cardinality(S) \in Nat
             /\ Cardinality(S \ {First(S)}) \in Nat
             /\ Cardinality(S \ {First(S)}) < Cardinality(S)
  <2>1. First(S) \in S
    BY <1>1, FirstExists
  <2>2. IsFiniteSet(S)
    BY JoinIsFinite, FS_Subset
  <2>3. Cardinality(S) \in Nat /\ Cardinality(S \ {First(S)}) = Cardinality(S) - 1
        /\ IsFiniteSet(S \ {First(S)})
    BY <2>1, <2>2, FS_RemoveElement, FS_CardinalityType
  <2>4. Cardinality(S \ {First(S)}) \in Nat
    BY <2>3, FS_CardinalityType
  <2> QED BY <2>1, <2>3, <2>4
<1>2. rank \in [D -> Nat] /\ \A S \in D : rank[S] = Cardinality(S)
  <2>1. \A S \in D : Cardinality(S) \in Nat
    BY JoinIsFinite, FS_Subset, FS_CardinalityType
  <2> QED BY <2>1
<1>3. \A g \in [D -> V] : \A S \in D : Body(g, S) \in V
  <2> TAKE g \in [D -> V]
  <2> TAKE S \in D
  <2>1. CASE S = {}
    BY <2>1
  <2>2. CASE S # {}
    <3>1. S \ {First(S)} \in D /\ First(S) \in J
      BY <1>1, <2>2
    <3>2. g[S \ {First(S)}] \in V
      BY <3>1
    <3>3. <<First(S)>> \in V
      BY <3>1
    <3> HIDE DEF J, D
    <3>4. <<First(S)>> \o g[S \ {First(S)}] \in V
      BY <3>2, <3>3
    <3> QED BY <2>2, <3>4
  <2> QED BY <2>1, <2>2
<1>4. \A g, h \in [D -> V] : \A S \in D :
        (\A R \in D : rank[R] < rank[S] => g[R] = h[R]) => Body(g, S) = Body(h, S)
  BY <1>1, <1>2
<1>0. <<>> \in V
  OBVIOUS
<1> HIDE DEF J, D, Body, rank
<1>5. Recursion(G, D, V, rank)
  <2>1. \A g \in [D -> V] : G[g] = [S \in D |-> Body(g, S)]
    OBVIOUS
  <2>2. \A g \in [D -> V] : G[g] \in [D -> V] /\ \A S \in D : G[g][S] = Body(g, S)
    BY <1>3, <2>1
  <2>3. DOMAIN G = [D -> V] /\ G = [g \in [D -> V] |-> G[g]]
    OBVIOUS
  <2> HIDE DEF G
  <2>4. G \in [[D -> V] -> [D -> V]]
    BY <2>2, <2>3
  <2>5. \A g, h \in [D -> V] : \A S \in D :
          (\A R \in D : rank[R] < rank[S] => g[R] = h[R]) => G[g][S] = G[h][S]
    <3> HIDE DEF V
    <3> TAKE g, h \in [D -> V]
    <3> TAKE S \in D
    <3> HAVE \A R \in D : rank[R] < rank[S] => g[R] = h[R]
    <3>1. Body(g, S) = Body(h, S)
      BY <1>4
    <3> QED BY <2>2, <3>1
  <2>6. V # {}
    BY <1>0
  <2> HIDE DEF V
  <2> QED BY <1>2, <2>4, <2>5, <2>6 DEF Recursion
<1>6. PICK f \in [D -> V] : f = [S \in D |-> Body(f, S)]
  <2>1. \A g \in [D -> V] : G[g] = [S \in D |-> Body(g, S)]
    OBVIOUS
  <2> HIDE DEF G, V
  <2>2. PICK g \in [D -> V] : g = G[g]
    BY <1>5, RecursionExists DEF Defines
  <2> QED BY <2>1, <2>2
<1>7. sorted = [S \in D |-> Body(sorted, S)]
  BY <1>6, Zenon
<1> HIDE DEF sorted
<1>8. \A S \in D : sorted[S] \in V
  <2> DEFINE P == {S \in D : sorted[S] \in V}
  <2>1. ASSUME NEW S \in D, \A R \in D : rank[R] < rank[S] => R \in P PROVE S \in P
    <3>1. sorted[S] = Body(sorted, S)
      BY <1>7
    <3>2. CASE S = {}
      BY <1>0, <3>1, <3>2 DEF Body
    <3>3. CASE S # {}
      <4>1. First(S) \in J /\ S \ {First(S)} \in D /\ rank[S \ {First(S)}] < rank[S]
        BY <1>1, <1>2, <3>3 DEF D, J
      <4>2. sorted[S \ {First(S)}] \in V
        BY <2>1, <4>1
      <4>3. <<First(S)>> \in V
        BY <4>1
      <4>4. <<First(S)>> \o sorted[S \ {First(S)}] \in V
        BY <4>2, <4>3
      <4> QED BY <3>1, <3>3, <4>4 DEF Body
    <3> QED BY <3>2, <3>3
  <2> HIDE DEF P
  <2>2. D \subseteq P
    BY <1>2, <2>1, RankInduction
  <2> QED BY <2>2 DEF P
<1>9. Sorts(sorted)
  BY <1>7, <1>8, Zenon DEF Sorts, D, J, V, Body
<1>10. PostgresForeignKeyRows = JoinedRows(sorted[J])
  BY DEF PostgresForeignKeyRows, JoinedRows, JoinedRow, sorted, J, D, Body
<1> QED BY <1>9, <1>10 DEF J

LEMMA JoinedRowType ==
  ASSUME IsDatabase(catalog)
  PROVE  \A x \in PostgresJoin : JoinedRow(x) \in ForeignRow
BY JoinIsFinite, ForeignRowType DEF JoinElement, JoinedRow

LEMMA JoinedRowsType ==
  ASSUME IsDatabase(catalog), NEW rows \in Seq(PostgresJoin)
  PROVE  JoinedRows(rows) \in Seq(ForeignRow) /\ Len(JoinedRows(rows)) = Len(rows)
<1> DEFINE J == PostgresJoin
<1>1. rows \in Seq(J) /\ \A x \in J : JoinedRow(x) \in ForeignRow
  BY JoinedRowType
<1> HIDE DEF J
<1>2. DOMAIN rows = 1 .. Len(rows) /\ Len(rows) \in Nat /\ \A i \in DOMAIN rows : rows[i] \in J
  BY <1>1
<1>3. JoinedRows(rows) \in [1 .. Len(rows) -> ForeignRow]
  BY <1>1, <1>2 DEF JoinedRows
<1> QED BY <1>2, <1>3, Listed

LEMMA PostgresRowsType ==
  ASSUME IsDatabase(catalog)
  PROVE  PostgresForeignKeyRows \in Seq(ForeignRow)
<1>1. PICK sorted : Sorts(sorted) /\ PostgresForeignKeyRows = JoinedRows(sorted[PostgresJoin])
  BY PostgresRowsSorted
<1>2. sorted[PostgresJoin] \in Seq(PostgresJoin)
  BY <1>1 DEF Sorts
<1> QED BY <1>1, <1>2, JoinedRowsType

LEMMA ForeignKeyRowsType ==
  ASSUME IsDatabase(catalog)
  PROVE  ForeignKeyRows \in Seq(ForeignRow)
BY MySQLRowsType, PostgresRowsType DEF ForeignKeyRows
-----------------------------------------------------------------------------
(***************************************************************************)
(* The tables that were read.                                              *)
(***************************************************************************)
ColumnRead ==
  [name : Identifier, nullable : BOOLEAN, default : BOOLEAN, generated : BOOLEAN,
   identity : BOOLEAN]

\* A referenced column that SQLite leaves out has no name.
KeyRead ==
  {k \in [columns : ColumnList, schema : Schemas, table : Identifier,
          referencedColumns : Seq(Identifier \union {""})] :
     Len(k.columns) = Len(k.referencedColumns)}
PrimaryKeyRead == {k \in Seq(ColumnList) : Len(k) <= 1}
TableRead ==
  [name : TableNames, columns : Seq(ColumnRead), primaryKey : PrimaryKeyRead,
   uniqueKeys : Seq(ColumnList), foreignKeys : Seq(KeyRead)]

\* Every foreign key names the columns that it references.
WholeTable(table) == \A j \in DOMAIN table.foreignKeys : ~Missing(table.foreignKeys[j])
Whole(tables) == \A i \in DOMAIN tables : WholeTable(tables[i])

\* The same tables, whatever was added to them.
SameTables(tables, new) ==
  Len(new) = Len(tables) /\ \A i \in DOMAIN tables : new[i].name = tables[i].name

LEMMA ReplaceTable ==
  ASSUME NEW tables \in Seq(TableRead), NEW i \in DOMAIN tables, NEW t \in TableRead,
         t.name = tables[i].name
  PROVE  LET new == [tables EXCEPT ![i] = t]
         IN /\ new \in Seq(TableRead) /\ SameTables(tables, new)
            /\ new[i] = t /\ \A j \in DOMAIN tables : j # i => new[j] = tables[j]
<1> DEFINE T == TableRead
           new == [tables EXCEPT ![i] = t]
<1>1. tables \in Seq(T) /\ t \in T
  OBVIOUS
<1> HIDE DEF T
<1>2. /\ new \in Seq(T) /\ Len(new) = Len(tables) /\ DOMAIN new = DOMAIN tables
      /\ new[i] = t /\ \A j \in DOMAIN tables : j # i => new[j] = tables[j]
  BY <1>1
<1> HIDE DEF new
<1> QED BY <1>1, <1>2 DEF T, new, SameTables

LEMMA SetPrimaryKeyType ==
  ASSUME NEW tables \in Seq(TableRead), NEW i \in DOMAIN tables, NEW columns \in ColumnList
  PROVE  LET new == SetPrimaryKey(tables, i, columns)
         IN /\ new \in Seq(TableRead) /\ SameTables(tables, new)
            /\ Whole(tables) => Whole(new)
<1> DEFINE t == [tables[i] EXCEPT !.primaryKey = <<columns>>]
           new == [tables EXCEPT ![i] = t]
<1>1. tables[i] \in TableRead /\ <<columns>> \in PrimaryKeyRead
  <2>1. <<columns>> \in Seq(ColumnList) /\ Len(<<columns>>) = 1
    OBVIOUS
  <2> QED BY <2>1 DEF PrimaryKeyRead
<1>2. t \in TableRead /\ t.name = tables[i].name /\ t.foreignKeys = tables[i].foreignKeys
  BY <1>1 DEF TableRead
<1> HIDE DEF t
<1>3. /\ new \in Seq(TableRead) /\ SameTables(tables, new)
      /\ new[i] = t /\ \A j \in DOMAIN tables : j # i => new[j] = tables[j]
  BY <1>2, ReplaceTable
<1>4. DOMAIN new = DOMAIN tables
  OBVIOUS
<1>5. SetPrimaryKey(tables, i, columns) = new
  BY DEF SetPrimaryKey, t
<1> HIDE DEF new
<1>6. Whole(tables) => Whole(new)
  BY <1>2, <1>3, <1>4 DEF Whole, WholeTable
<1> QED BY <1>3, <1>5, <1>6

LEMMA AddUniqueKeyType ==
  ASSUME NEW tables \in Seq(TableRead), NEW i \in DOMAIN tables, NEW columns \in ColumnList
  PROVE  LET new == AddUniqueKey(tables, i, columns)
         IN /\ new \in Seq(TableRead) /\ SameTables(tables, new)
            /\ Whole(tables) => Whole(new)
<1> DEFINE t == [tables[i] EXCEPT !.uniqueKeys = Append(@, columns)]
           new == [tables EXCEPT ![i] = t]
<1>1. tables[i] \in TableRead
  OBVIOUS
<1>2. Append(tables[i].uniqueKeys, columns) \in Seq(ColumnList)
  BY <1>1 DEF TableRead
<1>3. t \in TableRead /\ t.name = tables[i].name /\ t.foreignKeys = tables[i].foreignKeys
  BY <1>1, <1>2 DEF TableRead
<1> HIDE DEF t
<1>4. /\ new \in Seq(TableRead) /\ SameTables(tables, new)
      /\ new[i] = t /\ \A j \in DOMAIN tables : j # i => new[j] = tables[j]
  BY <1>3, ReplaceTable
<1>5. DOMAIN new = DOMAIN tables
  OBVIOUS
<1>6. AddUniqueKey(tables, i, columns) = new
  BY DEF AddUniqueKey, t
<1> HIDE DEF new
<1>7. Whole(tables) => Whole(new)
  BY <1>3, <1>4, <1>5 DEF Whole, WholeTable
<1> QED BY <1>4, <1>6, <1>7

LEMMA AddForeignKeyType ==
  ASSUME NEW tables \in Seq(TableRead), NEW i \in DOMAIN tables, NEW k \in KeyRead
  PROVE  LET new == AddForeignKey(tables, i, k)
         IN /\ new \in Seq(TableRead) /\ SameTables(tables, new)
            /\ Whole(tables) /\ ~Missing(k) => Whole(new)
<1> DEFINE keys == Append(tables[i].foreignKeys, k)
           t == [tables[i] EXCEPT !.foreignKeys = keys]
           new == [tables EXCEPT ![i] = t]
<1>1. tables[i] \in TableRead
  OBVIOUS
<1>2. /\ keys \in Seq(KeyRead)
      /\ \A j \in DOMAIN keys : keys[j] = k \/ (j \in DOMAIN tables[i].foreignKeys
                                                /\ keys[j] = tables[i].foreignKeys[j])
  BY <1>1 DEF TableRead
<1> HIDE DEF keys
<1>3. t \in TableRead /\ t.name = tables[i].name /\ t.foreignKeys = keys
  BY <1>1, <1>2 DEF TableRead
<1> HIDE DEF t
<1>4. /\ new \in Seq(TableRead) /\ SameTables(tables, new)
      /\ new[i] = t /\ \A j \in DOMAIN tables : j # i => new[j] = tables[j]
  BY <1>3, ReplaceTable
<1>5. DOMAIN new = DOMAIN tables
  OBVIOUS
<1>6. AddForeignKey(tables, i, k) = new
  BY DEF AddForeignKey, t, keys
<1> HIDE DEF new
<1>7. Whole(tables) /\ ~Missing(k) => Whole(new)
  BY <1>2, <1>3, <1>4, <1>5 DEF Whole, WholeTable
<1> QED BY <1>4, <1>6, <1>7

LEMMA IndexInDomain ==
  ASSUME NEW T, NEW tables \in Seq(T), tables # <<>>, NEW name
  PROVE  Index(tables, name) \in DOMAIN tables
<1>1. 1 \in DOMAIN tables
  OBVIOUS
<1> QED BY <1>1 DEF Index

\* A group has the rows of one constraint, and at least one.
LEMMA GroupRows ==
  ASSUME NEW T, NEW rows \in Seq(T), NEW id \in Groups(rows)
  PROVE  /\ Group(rows, id) \in Seq(T) /\ Group(rows, id) # <<>>
         /\ \A i \in DOMAIN Group(rows, id) : ID(Group(rows, id)[i]) = id
<1> DEFINE S == {row \in ToSet(rows) : ID(row) = id}
           group == Those(rows, S)
<1>1. Group(rows, id) = group
  BY DEF Group
<1>2. group \in Seq(T) /\ Picked(rows, S, group)
  <2> HIDE DEF S
  <2> QED BY ThoseType, ThosePicked
<1>3. PICK j \in DOMAIN rows : ID(rows[j]) = id
  BY DEF Groups
<1>4. rows[j] \in S
  BY <1>3 DEF ToSet
<1>5. \A row \in S : ID(row) = id
  OBVIOUS
<1> HIDE DEF S, group
<1>6. PICK i \in DOMAIN group : group[i] = rows[j]
  BY <1>2, <1>4 DEF Picked
<1>7. group # <<>>
  BY <1>6
<1> QED BY <1>1, <1>2, <1>5, <1>7 DEF Picked

LEMMA AddKeyType ==
  ASSUME NEW rows \in Seq(KeyRow), NEW id \in Groups(rows),
         NEW tables \in Seq(TableRead), tables # <<>>
  PROVE  LET new == AddKey(rows, tables, id)
         IN /\ new \in Seq(TableRead) /\ SameTables(tables, new)
            /\ Whole(tables) => Whole(new)
<1> DEFINE group == Group(rows, id)
           columns == ColumnsIn(group)
           i == Index(tables, group[1].table)
<1>1. group \in Seq(KeyRow) /\ group # <<>>
  BY GroupRows
<1> HIDE DEF group
<1>2. columns \in ColumnList
  <2>1. /\ Len(group) \in Nat /\ Len(group) > 0 /\ DOMAIN group = 1 .. Len(group)
        /\ \A j \in DOMAIN group : group[j] \in KeyRow
    BY <1>1
  <2>2. \A j \in DOMAIN group : group[j].column \in Identifier
    BY <2>1 DEF KeyRow
  <2>3. columns \in [1 .. Len(group) -> Identifier]
    BY <2>1, <2>2 DEF ColumnsIn
  <2>4. columns \in Seq(Identifier) /\ Len(columns) = Len(group)
    BY <2>1, <2>3, Listed
  <2> QED BY <2>1, <2>4 DEF ColumnList
<1>3. i \in DOMAIN tables
  BY IndexInDomain
<1>4. AddKey(rows, tables, id) = IF group[1].kind = "PRIMARY KEY"
                                 THEN SetPrimaryKey(tables, i, columns)
                                 ELSE AddUniqueKey(tables, i, columns)
  BY DEF AddKey, group
<1> HIDE DEF columns, i
<1> QED BY <1>2, <1>3, <1>4, SetPrimaryKeyType, AddUniqueKeyType

LEMMA AddReferenceType ==
  ASSUME NEW rows \in Seq(ForeignRow), NEW id \in Groups(rows),
         NEW tables \in Seq(TableRead), tables # <<>>
  PROVE  LET new == AddReference(rows, tables, id)
         IN /\ new \in Seq(TableRead) /\ SameTables(tables, new)
            /\ Whole(tables) => Whole(new)
<1> DEFINE group == Group(rows, id)
           columns == ColumnsIn(group)
           referenced == [j \in DOMAIN group |-> group[j].refColumn]
           key == ForeignKey(columns, group[1].schema, group[1].refTable, referenced)
           i == Index(tables, group[1].table)
<1>1. group \in Seq(ForeignRow) /\ group # <<>>
  BY GroupRows
<1> HIDE DEF group
<1>2. /\ Len(group) \in Nat /\ Len(group) > 0 /\ DOMAIN group = 1 .. Len(group)
      /\ \A j \in DOMAIN group : group[j] \in ForeignRow
  BY <1>1
<1>3. \A j \in DOMAIN group : group[j].column \in Identifier /\ group[j].refColumn \in Identifier
  BY <1>2 DEF ForeignRow
<1>4. group[1].schema \in Schemas /\ group[1].refTable \in Identifier
  BY <1>2 DEF ForeignRow
<1>5. columns \in ColumnList /\ Len(columns) = Len(group)
  <2>1. columns \in [1 .. Len(group) -> Identifier]
    BY <1>2, <1>3 DEF ColumnsIn
  <2>2. columns \in Seq(Identifier) /\ Len(columns) = Len(group)
    BY <1>2, <2>1, Listed
  <2> QED BY <1>2, <2>2 DEF ColumnList
<1>6. /\ referenced \in Seq(Identifier \union {""}) /\ Len(referenced) = Len(group)
      /\ \A j \in DOMAIN referenced : referenced[j] # ""
  <2> DEFINE Named == Identifier \union {""}
  <2>1. referenced \in [1 .. Len(group) -> Named]
    BY <1>2, <1>3
  <2>2. \A j \in DOMAIN referenced : referenced[j] # ""
    BY <1>3 DEF Identifier
  <2> HIDE DEF Named, referenced
  <2>3. referenced \in Seq(Named) /\ Len(referenced) = Len(group)
    BY <1>2, <2>1, Listed
  <2> QED BY <2>2, <2>3 DEF Named
<1>7. key \in KeyRead /\ ~Missing(key)
  <2> HIDE DEF columns, referenced
  <2>1. key.columns = columns /\ key.referencedColumns = referenced
    BY DEF ForeignKey
  <2>2. key \in KeyRead
    BY <1>4, <1>5, <1>6 DEF KeyRead, ForeignKey
  <2> QED BY <1>6, <2>1, <2>2 DEF Missing, ToSet
<1>8. i \in DOMAIN tables
  BY IndexInDomain
<1>9. AddReference(rows, tables, id) = AddForeignKey(tables, i, key)
  BY DEF AddReference, group
<1> HIDE DEF key, i
<1> QED BY <1>7, <1>8, <1>9, AddForeignKeyType

\* What tables can become by adding keys: the same tables, that miss nothing
\* when they did not before.
Alike(tables) ==
  {t \in Seq(TableRead) : SameTables(tables, t) /\ (Whole(tables) => Whole(t))}

LEMMA AlikeStep ==
  ASSUME NEW tables \in Seq(TableRead), tables # <<>>, NEW t \in Alike(tables)
  PROVE  /\ t \in Seq(TableRead) /\ t # <<>>
         /\ \A new \in Seq(TableRead) :
              SameTables(t, new) /\ (Whole(t) => Whole(new)) => new \in Alike(tables)
<1> DEFINE T == TableRead
<1>1. tables \in Seq(T) /\ t \in Seq(T) /\ SameTables(tables, t) /\ (Whole(tables) => Whole(t))
  BY DEF Alike
<1>2. t # <<>> /\ DOMAIN t = DOMAIN tables
  <2> HIDE DEF T
  <2>1. Len(t) = Len(tables)
    BY <1>1 DEF SameTables
  <2> QED BY <1>1, <2>1
<1>3. ASSUME NEW new \in Seq(T), SameTables(t, new) PROVE SameTables(tables, new)
  BY <1>1, <1>2, <1>3 DEF SameTables
<1> QED BY <1>1, <1>2, <1>3 DEF Alike

\* The walk over the map of keys: f[n] is what it has made of tables after n
\* of them.
KeysWalk(f, rows, tables, order) ==
  /\ f[0] = tables
  /\ \A n \in 1 .. Len(order) : f[n] = AddKey(rows, f[n - 1], order[n])
  /\ \A n \in 0 .. Len(order) : f[n] \in Alike(tables)

LEMMA KeysAdded ==
  ASSUME NEW rows \in Seq(KeyRow), NEW tables \in Seq(TableRead), tables # <<>> \/ rows = <<>>,
         NEW order \in Seq(Groups(rows))
  PROVE  LET after[n \in 0 .. Len(order)] ==
               IF n = 0 THEN tables ELSE AddKey(rows, after[n - 1], order[n])
         IN KeysWalk(after, rows, tables, order)
<1> DEFINE S == 0 .. Len(order)
           V == Alike(tables)
           Equation(f) ==
             f = [n \in S |-> IF n = 0 THEN tables ELSE AddKey(rows, f[n - 1], order[n])]
           after == CHOOSE f : Equation(f)
           step == [n \in 1 .. Len(order) |-> [t \in V |-> AddKey(rows, t, order[n])]]
<1>1. Len(order) \in Nat /\ \A n \in 1 .. Len(order) : order[n] \in Groups(rows)
  OBVIOUS
<1>2. tables \in V
  BY DEF Alike, SameTables
<1>3. \A t \in V, id \in Groups(rows) : AddKey(rows, t, id) \in V
  <2> TAKE t \in V, id \in Groups(rows)
  <2>0. tables # <<>>
    <3>1. rows # <<>>
      BY DEF Groups
    <3> QED BY <3>1
  <2>1. t \in Seq(TableRead) /\ t # <<>>
    BY <2>0, AlikeStep
  <2>2. LET new == AddKey(rows, t, id)
        IN new \in Seq(TableRead) /\ SameTables(t, new) /\ (Whole(t) => Whole(new))
    BY <2>1, AddKeyType
  <2> QED BY <2>0, <2>2, AlikeStep
<1> HIDE DEF V
<1>4. PICK g \in [S -> V] : g = [n \in S |-> IF n = 0 THEN tables ELSE step[n][g[n - 1]]]
  <2>1. step \in [1 .. Len(order) -> [V -> V]]
    BY <1>1, <1>3
  <2> DEFINE count == Len(order)
  <2>2. count \in Nat /\ step \in [1 .. count -> [V -> V]]
    BY <1>1, <2>1
  <2> HIDE DEF step, count
  <2>3. \E f \in [0 .. count -> V] : Walks(f, count, tables, step)
    BY <1>2, <2>2, WalkExists
  <2> QED BY <2>3, Zenon DEF count, Walks
<1>5. \A n \in S : n # 0 => n \in 1 .. Len(order) /\ n - 1 \in S
  BY <1>1
<1>6. Equation(g)
  <2>1. \A n \in S : n # 0 => step[n][g[n - 1]] = AddKey(rows, g[n - 1], order[n])
    BY <1>4, <1>5
  <2> HIDE DEF step
  <2> QED BY <1>4, <2>1
<1>7. Equation(after)
  <2> HIDE DEF Equation
  <2> QED BY <1>6
<1> HIDE DEF after
<1>8. /\ after[0] = tables
      /\ \A n \in S : n # 0 => after[n] = AddKey(rows, after[n - 1], order[n])
  <2>1. 0 \in S
    BY <1>1
  <2> QED BY <1>7, <2>1
<1>9. \A n \in S : after[n] \in V
  <2> DEFINE P == {n \in Nat : n \in S => after[n] \in V}
  <2>1. 0 \in P
    BY <1>2, <1>8
  <2>2. \A n \in Nat : n \in P => n + 1 \in P
    <3> SUFFICES ASSUME NEW n \in Nat, n \in P, n + 1 \in S PROVE after[n + 1] \in V
      OBVIOUS
    <3>1. n \in S /\ n + 1 # 0 /\ n + 1 \in 1 .. Len(order) /\ (n + 1) - 1 = n
      BY <1>1
    <3>2. after[n] \in V /\ order[n + 1] \in Groups(rows)
      BY <1>1, <3>1
    <3>3. after[n + 1] = AddKey(rows, after[n], order[n + 1])
      BY <1>8, <3>1
    <3> QED BY <1>3, <3>2, <3>3
  <2> HIDE DEF P
  <2>3. Nat \subseteq P
    BY <2>1, <2>2, NatSetInduction
  <2> QED BY <1>1, <2>3 DEF P
<1>10. \A n \in 1 .. Len(order) : after[n] = AddKey(rows, after[n - 1], order[n])
  <2>1. \A n \in 1 .. Len(order) : n \in S /\ n # 0
    BY <1>1
  <2> QED BY <1>8, <2>1
<1>11. KeysWalk(after, rows, tables, order)
  BY <1>8, <1>9, <1>10, Zenon DEF KeysWalk, V
<1> QED BY <1>11, Zenon DEF after

\* The walk over the map of foreign keys, likewise.
ReferencesWalk(f, rows, tables, order) ==
  /\ f[0] = tables
  /\ \A n \in 1 .. Len(order) : f[n] = AddReference(rows, f[n - 1], order[n])
  /\ \A n \in 0 .. Len(order) : f[n] \in Alike(tables)

LEMMA ReferencesAdded ==
  ASSUME NEW rows \in Seq(ForeignRow), NEW tables \in Seq(TableRead), tables # <<>> \/ rows = <<>>,
         NEW order \in Seq(Groups(rows))
  PROVE  LET after[n \in 0 .. Len(order)] ==
               IF n = 0 THEN tables ELSE AddReference(rows, after[n - 1], order[n])
         IN ReferencesWalk(after, rows, tables, order)
<1> DEFINE S == 0 .. Len(order)
           V == Alike(tables)
           Equation(f) ==
             f = [n \in S |-> IF n = 0 THEN tables ELSE AddReference(rows, f[n - 1], order[n])]
           after == CHOOSE f : Equation(f)
           step == [n \in 1 .. Len(order) |-> [t \in V |-> AddReference(rows, t, order[n])]]
<1>1. Len(order) \in Nat /\ \A n \in 1 .. Len(order) : order[n] \in Groups(rows)
  OBVIOUS
<1>2. tables \in V
  BY DEF Alike, SameTables
<1>3. \A t \in V, id \in Groups(rows) : AddReference(rows, t, id) \in V
  <2> TAKE t \in V, id \in Groups(rows)
  <2>0. tables # <<>>
    <3>1. rows # <<>>
      BY DEF Groups
    <3> QED BY <3>1
  <2>1. t \in Seq(TableRead) /\ t # <<>>
    BY <2>0, AlikeStep
  <2>2. LET new == AddReference(rows, t, id)
        IN new \in Seq(TableRead) /\ SameTables(t, new) /\ (Whole(t) => Whole(new))
    BY <2>1, AddReferenceType
  <2> QED BY <2>0, <2>2, AlikeStep
<1> HIDE DEF V
<1>4. PICK g \in [S -> V] : g = [n \in S |-> IF n = 0 THEN tables ELSE step[n][g[n - 1]]]
  <2>1. step \in [1 .. Len(order) -> [V -> V]]
    BY <1>1, <1>3
  <2> DEFINE count == Len(order)
  <2>2. count \in Nat /\ step \in [1 .. count -> [V -> V]]
    BY <1>1, <2>1
  <2> HIDE DEF step, count
  <2>3. \E f \in [0 .. count -> V] : Walks(f, count, tables, step)
    BY <1>2, <2>2, WalkExists
  <2> QED BY <2>3, Zenon DEF count, Walks
<1>5. \A n \in S : n # 0 => n \in 1 .. Len(order) /\ n - 1 \in S
  BY <1>1
<1>6. Equation(g)
  <2>1. \A n \in S : n # 0 => step[n][g[n - 1]] = AddReference(rows, g[n - 1], order[n])
    BY <1>4, <1>5
  <2> HIDE DEF step
  <2> QED BY <1>4, <2>1
<1>7. Equation(after)
  <2> HIDE DEF Equation
  <2> QED BY <1>6
<1> HIDE DEF after
<1>8. /\ after[0] = tables
      /\ \A n \in S : n # 0 => after[n] = AddReference(rows, after[n - 1], order[n])
  <2>1. 0 \in S
    BY <1>1
  <2> QED BY <1>7, <2>1
<1>9. \A n \in S : after[n] \in V
  <2> DEFINE P == {n \in Nat : n \in S => after[n] \in V}
  <2>1. 0 \in P
    BY <1>2, <1>8
  <2>2. \A n \in Nat : n \in P => n + 1 \in P
    <3> SUFFICES ASSUME NEW n \in Nat, n \in P, n + 1 \in S PROVE after[n + 1] \in V
      OBVIOUS
    <3>1. n \in S /\ n + 1 # 0 /\ n + 1 \in 1 .. Len(order) /\ (n + 1) - 1 = n
      BY <1>1
    <3>2. after[n] \in V /\ order[n + 1] \in Groups(rows)
      BY <1>1, <3>1
    <3>3. after[n + 1] = AddReference(rows, after[n], order[n + 1])
      BY <1>8, <3>1
    <3> QED BY <1>3, <3>2, <3>3
  <2> HIDE DEF P
  <2>3. Nat \subseteq P
    BY <2>1, <2>2, NatSetInduction
  <2> QED BY <1>1, <2>3 DEF P
<1>10. \A n \in 1 .. Len(order) : after[n] = AddReference(rows, after[n - 1], order[n])
  <2>1. \A n \in 1 .. Len(order) : n \in S /\ n # 0
    BY <1>1
  <2> QED BY <1>8, <2>1
<1>11. ReferencesWalk(after, rows, tables, order)
  BY <1>8, <1>9, <1>10, Zenon DEF ReferencesWalk, V
<1> QED BY <1>11, Zenon DEF after

LEMMA OrdersOf ==
  ASSUME NEW T, NEW rows \in Seq(T), NEW order \in SetToSeqs(Groups(rows))
  PROVE  order \in Seq(Groups(rows))
<1>1. IsFiniteSet(Groups(rows))
  <2> DEFINE f == [i \in DOMAIN rows |-> ID(rows[i])]
  <2>1. \A id \in Groups(rows) : \E i \in DOMAIN rows : f[i] = id
    BY DEF Groups
  <2>2. IsFiniteSet(DOMAIN rows)
    BY FiniteRange
  <2> HIDE DEF f
  <2> QED BY <2>1, <2>2, FiniteCover
<1>2. Cardinality(Groups(rows)) \in Nat
  BY <1>1, FS_CardinalityType
<1>3. order \in [1 .. Cardinality(Groups(rows)) -> Groups(rows)]
  BY DEF SetToSeqs
<1> QED BY <1>2, <1>3, Listed

LEMMA ReadKeysStep ==
  ASSUME IsDatabase(catalog), result \in Seq(TableRead), ReadKeys
  PROVE  /\ pc = "keys" /\ UNCHANGED <<names, indexes>>
         /\ result' \in Alike(result)
         /\ pc' \in {"foreign", "panicked"}
         /\ pc' = "foreign" =>
              \E order \in SetToSeqs(Groups(KeyRows)) : \E f :
                KeysWalk(f, KeyRows, result, order) /\ result' = f[Len(order)]
<1> DEFINE rows == KeyRows
<1>1. rows \in Seq(KeyRow)
  BY KeyRowsType
<1>2. /\ pc = "keys" /\ UNCHANGED <<names, indexes>>
      /\ \/ pc' = "panicked" /\ UNCHANGED result
         \/ /\ result # <<>> \/ rows = <<>>
            /\ \E order \in SetToSeqs(Groups(rows)) :
                 LET after[n \in 0 .. Len(order)] ==
                       IF n = 0 THEN result ELSE AddKey(rows, after[n - 1], order[n])
                 IN result' = after[Len(order)]
            /\ pc' = "foreign"
  BY Zenon DEF ReadKeys, Collect, rows
<1> HIDE DEF rows
<1>3. CASE pc' = "panicked" /\ UNCHANGED result
  BY <1>2, <1>3 DEF Alike, SameTables
<1>4. CASE ~(pc' = "panicked" /\ UNCHANGED result)
  <2>1. PICK order \in SetToSeqs(Groups(rows)) :
          LET after[n \in 0 .. Len(order)] ==
                IF n = 0 THEN result ELSE AddKey(rows, after[n - 1], order[n])
          IN result' = after[Len(order)]
    BY <1>2, <1>4, Zenon
  <2>2. order \in Seq(Groups(rows))
    BY <1>1, OrdersOf
  <2>3. result # <<>> \/ rows = <<>>
    BY <1>2, <1>4
  <2>4. LET after[n \in 0 .. Len(order)] ==
              IF n = 0 THEN result ELSE AddKey(rows, after[n - 1], order[n])
        IN KeysWalk(after, rows, result, order)
    BY <1>1, <2>2, <2>3, KeysAdded, Zenon
  <2>5. \E f : KeysWalk(f, rows, result, order) /\ result' = f[Len(order)]
    BY <2>1, <2>4, Zenon
  <2>6. result' \in Alike(result)
    <3>1. Len(order) \in 0 .. Len(order)
      BY <2>2
    <3> QED BY <2>5, <3>1 DEF KeysWalk
  <2> QED BY <1>2, <1>4, <2>5, <2>6 DEF rows
<1> QED BY <1>3, <1>4

LEMMA ReadForeignKeysStep ==
  ASSUME IsDatabase(catalog), result \in Seq(TableRead), ReadForeignKeys
  PROVE  /\ pc = "foreign" /\ UNCHANGED <<names, indexes>>
         /\ result' \in Alike(result)
         /\ pc' \in {"introspected", "panicked"}
         /\ pc' = "introspected" =>
              \E order \in SetToSeqs(Groups(ForeignKeyRows)) : \E f :
                ReferencesWalk(f, ForeignKeyRows, result, order) /\ result' = f[Len(order)]
<1> DEFINE rows == ForeignKeyRows
<1>1. rows \in Seq(ForeignRow)
  BY ForeignKeyRowsType
<1>2. /\ pc = "foreign" /\ UNCHANGED <<names, indexes>>
      /\ \/ pc' = "panicked" /\ UNCHANGED result
         \/ /\ result # <<>> \/ rows = <<>>
            /\ \E order \in SetToSeqs(Groups(rows)) :
                 LET after[n \in 0 .. Len(order)] ==
                       IF n = 0 THEN result ELSE AddReference(rows, after[n - 1], order[n])
                 IN result' = after[Len(order)]
            /\ pc' = "introspected"
  BY Zenon DEF ReadForeignKeys, Collect, rows
<1> HIDE DEF rows
<1>3. CASE pc' = "panicked" /\ UNCHANGED result
  BY <1>2, <1>3 DEF Alike, SameTables
<1>4. CASE ~(pc' = "panicked" /\ UNCHANGED result)
  <2>1. PICK order \in SetToSeqs(Groups(rows)) :
          LET after[n \in 0 .. Len(order)] ==
                IF n = 0 THEN result ELSE AddReference(rows, after[n - 1], order[n])
          IN result' = after[Len(order)]
    BY <1>2, <1>4, Zenon
  <2>2. order \in Seq(Groups(rows))
    BY <1>1, OrdersOf
  <2>3. result # <<>> \/ rows = <<>>
    BY <1>2, <1>4
  <2>4. LET after[n \in 0 .. Len(order)] ==
              IF n = 0 THEN result ELSE AddReference(rows, after[n - 1], order[n])
        IN ReferencesWalk(after, rows, result, order)
    BY <1>1, <2>2, <2>3, ReferencesAdded, Zenon
  <2>5. \E f : ReferencesWalk(f, rows, result, order) /\ result' = f[Len(order)]
    BY <2>1, <2>4, Zenon
  <2>6. result' \in Alike(result)
    <3>1. Len(order) \in 0 .. Len(order)
      BY <2>2
    <3> QED BY <2>5, <3>1 DEF ReferencesWalk
  <2> QED BY <1>2, <1>4, <2>5, <2>6 DEF rows
<1> QED BY <1>3, <1>4
-----------------------------------------------------------------------------
(***************************************************************************)
(* The inductive invariant.                                                *)
(***************************************************************************)

\* SQLite is within a table, the first of names and the last of result.
Inside == {"indexes", "index", "references"}
Unread ==
  IF pc = "table" THEN names ELSE IF pc \in Inside THEN Tail(names) ELSE <<>>

Typed ==
  /\ IsDatabase(catalog)
  /\ result \in Seq(TableRead)
  /\ names \in Seq(TableNames) /\ indexes \in Seq(Identifier)

Placed ==
  /\ names # <<>> => pc \in {"table", "failed"} \union Inside
  /\ indexes # <<>> => pc \in {"index", "failed"}
  /\ pc \in Inside => names # <<>> /\ result # <<>>
  /\ pc \in {"columns", "names"} => result = <<>>

\* No table is read twice: those that were read differ from each other and
\* from those that are still to read.
OnceEach(tables, unread) ==
  /\ \A i, j \in DOMAIN tables : tables[i].name = tables[j].name => i = j
  /\ IsInjective(unread)
  /\ \A i \in DOMAIN tables, j \in DOMAIN unread : tables[i].name # unread[j]

\* SQLite's keys may lack referenced columns until they are resolved.
Resolved == pc \in {"keys", "foreign", "introspected", "generated"} => Whole(result)

Accepted == pc = "generated" => GenerateOK(Own, result) /\ source = Source(Own, result)

IInv == Typed /\ Placed /\ OnceEach(result, Unread) /\ Resolved /\ Accepted

LEMMA InitInvariant == Init => IInv
<1> SUFFICES ASSUME Init PROVE IInv
  OBVIOUS
<1>1. /\ IsDatabase(catalog)
      /\ pc \in {"columns", "names"} /\ result = <<>> /\ names = <<>> /\ indexes = <<>>
  BY CatalogAssumption DEF Init, CatalogInit, IntrospectInit
<1>2. <<>> \in Seq(TableRead) /\ <<>> \in Seq(TableNames) /\ <<>> \in Seq(Identifier)
  OBVIOUS
<1>3. Unread = <<>>
  BY <1>1 DEF Unread, Inside
<1>4. OnceEach(result, Unread)
  BY <1>1, <1>3 DEF OnceEach, IsInjective
<1> QED BY <1>1, <1>2, <1>4 DEF IInv, Typed, Placed, Inside, Resolved, Accepted

\* Another session leaves a database.
LEMMA DDLDatabase ==
  ASSUME IsDatabase(catalog), DDL
  PROVE  IsDatabase(catalog')
<1>1. PICK t \in TableNames : Drop(t) \/ \E definition \in Definitions[t] : Define(t, definition)
  BY DEF DDL
<1>2. CASE Drop(t)
  <2>1. catalog' = [u \in DOMAIN catalog \ {t} |-> catalog[u]]
    BY <1>2 DEF Drop, Change
  <2> QED BY <2>1 DEF IsDatabase
<1>3. ASSUME NEW definition \in Definitions[t], Define(t, definition) PROVE IsDatabase(catalog')
  <2>1. catalog' = [u \in DOMAIN catalog \union {t} |-> IF u = t THEN definition ELSE catalog[u]]
    BY <1>3 DEF Define, Change
  <2>2. definition \in DefinitionType
    BY CatalogAssumption
  <2> QED BY <2>1, <2>2 DEF IsDatabase
<1> QED BY <1>1, <1>2, <1>3

LEMMA SameOnce ==
  ASSUME NEW tables \in Seq(TableRead), NEW new \in Seq(TableRead), SameTables(tables, new),
         NEW unread, OnceEach(tables, unread)
  PROVE  OnceEach(new, unread) /\ (tables # <<>> => new # <<>>)
<1> DEFINE T == TableRead
<1>1. tables \in Seq(T) /\ new \in Seq(T) /\ Len(new) = Len(tables)
  BY DEF SameTables
<1> HIDE DEF T
<1>2. DOMAIN new = DOMAIN tables /\ (tables # <<>> => new # <<>>)
  BY <1>1
<1>3. \A i \in DOMAIN tables : new[i].name = tables[i].name
  BY DEF SameTables
<1> QED BY <1>2, <1>3 DEF OnceEach

LEMMA NextOnce ==
  ASSUME NEW tables \in Seq(TableRead), NEW unread \in Seq(TableNames), unread # <<>>,
         OnceEach(tables, unread), NEW t \in TableRead, t.name = Head(unread)
  PROVE  /\ Append(tables, t) \in Seq(TableRead) /\ Append(tables, t) # <<>>
         /\ OnceEach(Append(tables, t), Tail(unread))
<1> DEFINE T == TableRead
           new == Append(tables, t)
           rest == Tail(unread)
<1>1. /\ tables \in Seq(T) /\ t \in T
      /\ Len(unread) \in Nat /\ Len(unread) > 0 /\ DOMAIN unread = 1 .. Len(unread)
      /\ DOMAIN rest = 1 .. Len(unread) - 1
      /\ \A j \in DOMAIN rest : rest[j] = unread[j + 1]
      /\ Head(unread) = unread[1]
  OBVIOUS
<1> HIDE DEF T
<1>2. /\ new \in Seq(T) /\ new # <<>>
      /\ DOMAIN new = 1 .. Len(tables) + 1 /\ DOMAIN tables = 1 .. Len(tables) /\ Len(tables) \in Nat
      /\ \A i \in DOMAIN tables : new[i] = tables[i]
      /\ new[Len(tables) + 1] = t
  BY <1>1
<1> HIDE DEF new, rest
<1>3. \A i \in DOMAIN new : i \in DOMAIN tables \/ i = Len(tables) + 1
  BY <1>2
<1>4. 1 \in DOMAIN unread
      /\ \A j \in DOMAIN rest : j + 1 \in DOMAIN unread /\ j + 1 # 1
  BY <1>1
<1>5. \A i, j \in DOMAIN new : new[i].name = new[j].name => i = j
  BY <1>1, <1>2, <1>3, <1>4 DEF OnceEach
<1>6. IsInjective(rest)
  <2> SUFFICES ASSUME NEW i \in DOMAIN rest, NEW j \in DOMAIN rest, rest[i] = rest[j]
               PROVE  i = j
    BY DEF IsInjective
  <2>1. i + 1 = j + 1
    BY <1>1, <1>4 DEF OnceEach, IsInjective
  <2> QED BY <1>1, <2>1
<1>7. \A i \in DOMAIN new, j \in DOMAIN rest : new[i].name # rest[j]
  <2> TAKE i \in DOMAIN new, j \in DOMAIN rest
  <2>1. CASE i \in DOMAIN tables
    BY <1>1, <1>2, <1>4, <2>1 DEF OnceEach
  <2>2. CASE i = Len(tables) + 1
    BY <1>1, <1>2, <1>4, <2>2 DEF OnceEach, IsInjective
  <2> QED BY <1>3, <2>1, <2>2
<1> QED BY <1>2, <1>5, <1>6, <1>7 DEF OnceEach, T, new, rest
-----------------------------------------------------------------------------
(***************************************************************************)
(* Every step keeps the invariant.                                         *)
(***************************************************************************)

LEMMA ChangeKeeps ==
  ASSUME IInv, DDL, UNCHANGED <<introspectVars, source>>
  PROVE  IInv'
<1>1. IsDatabase(catalog')
  BY DDLDatabase DEF IInv, Typed
<1>2. UNCHANGED <<pc, result, names, indexes, source>>
  BY DEF introspectVars
<1> QED BY <1>1, <1>2
  DEF IInv, Typed, Placed, OnceEach, Unread, Inside, Resolved, Accepted, Whole, WholeTable, Missing

LEMMA ReadFailsKeeps ==
  ASSUME IInv, ReadFails, UNCHANGED <<catalogVars, source>>
  PROVE  IInv'
<1>1. pc' = "failed" /\ UNCHANGED <<catalog, result, names, indexes, source>>
  BY DEF ReadFails, catalogVars
<1>2. Unread' = <<>>
  BY <1>1 DEF Unread, Inside
<1>3. OnceEach(result, Unread)'
  BY <1>1, <1>2 DEF IInv, OnceEach, IsInjective
<1> QED BY <1>1, <1>3 DEF IInv, Typed, Placed, Inside, Resolved, Accepted

\* A table as the column queries report it.
LEMMA TableType ==
  ASSUME NEW t \in TableNames, NEW columns \in Seq(ColumnRead)
  PROVE  Table(t, columns) \in TableRead /\ WholeTable(Table(t, columns))
<1>1. <<>> \in PrimaryKeyRead /\ <<>> \in Seq(ColumnList) /\ <<>> \in Seq(KeyRead)
  BY DEF PrimaryKeyRead
<1> QED BY <1>1 DEF Table, TableRead, WholeTable

LEMMA ColumnsType ==
  ASSUME NEW definition \in DefinitionType
  PROVE  Columns(definition) \in Seq(ColumnRead)
<1> DEFINE columns == definition.columns
<1>1. columns \in Seq(ColumnDefinition)
  BY DEF DefinitionType
<1> HIDE DEF columns
<1>2. /\ Len(columns) \in Nat /\ DOMAIN columns = 1 .. Len(columns)
      /\ \A i \in DOMAIN columns : columns[i] \in ColumnDefinition
  BY <1>1
<1>3. \A c \in ColumnDefinition : Column(c) \in ColumnRead
  BY DEF ColumnDefinition, Column, ColumnRead, ReportedGenerated
<1>4. [i \in DOMAIN columns |-> Column(columns[i])] \in [1 .. Len(columns) -> ColumnRead]
  BY <1>2, <1>3
<1>5. [i \in DOMAIN columns |-> Column(columns[i])] \in Seq(ColumnRead)
  BY <1>2, <1>4, Listed
<1> QED BY <1>5 DEF Columns, columns

LEMMA ReadColumnsKeeps ==
  ASSUME IInv, ReadColumns, UNCHANGED <<catalogVars, source>>
  PROVE  IInv'
<1> DEFINE found == InCatalog(catalog)
           new == [i \in DOMAIN found |-> Table(found[i], Columns(catalog[found[i]]))]
<1>1. /\ pc = "columns" /\ pc' = "keys" /\ result' = new
      /\ UNCHANGED <<catalog, names, indexes, source>>
  BY DEF ReadColumns, catalogVars
<1>2. /\ found \in Seq(TableNames) /\ Len(found) \in Nat /\ DOMAIN found = 1 .. Len(found)
      /\ \A i \in DOMAIN found : found[i] \in DOMAIN catalog /\ found[i] \in TableNames
      /\ IsInjective(found)
  BY InCatalogTables DEF IInv, Typed
<1>3. \A i \in DOMAIN found : Columns(catalog[found[i]]) \in Seq(ColumnRead)
  BY <1>2, ColumnsType DEF IInv, Typed, IsDatabase
<1> HIDE DEF found
<1>4. \A i \in DOMAIN found :
        /\ Table(found[i], Columns(catalog[found[i]])) \in TableRead
        /\ WholeTable(Table(found[i], Columns(catalog[found[i]])))
        /\ Table(found[i], Columns(catalog[found[i]])).name = found[i]
  BY <1>2, <1>3, TableType DEF Table
<1>5. new \in Seq(TableRead)
  <2>1. new \in [1 .. Len(found) -> TableRead]
    BY <1>2, <1>4
  <2> HIDE DEF new
  <2> QED BY <1>2, <2>1, Listed
<1>6. DOMAIN new = DOMAIN found /\ \A i \in DOMAIN found : new[i].name = found[i] /\ WholeTable(new[i])
  BY <1>4
<1> HIDE DEF new
<1>7. Whole(new)
  BY <1>6 DEF Whole
<1>8. Unread' = <<>>
  BY <1>1 DEF Unread, Inside
<1>9. OnceEach(new, <<>>)
  BY <1>2, <1>6 DEF OnceEach, IsInjective
<1>10. names = <<>> /\ indexes = <<>>
  BY <1>1 DEF IInv, Placed, Inside
<1>11. Typed'
  BY <1>1, <1>5 DEF IInv, Typed
<1>12. Placed'
  BY <1>1, <1>10 DEF Placed, Inside
<1>13. Resolved' /\ Accepted'
  BY <1>1, <1>7 DEF Resolved, Accepted, Whole, WholeTable, Missing
<1>14. OnceEach(result, Unread)'
  BY <1>1, <1>8, <1>9 DEF OnceEach
<1> QED BY <1>11, <1>12, <1>13, <1>14 DEF IInv

\* What the keys queries add.
LEMMA AddedKeeps ==
  ASSUME IInv, pc \in {"keys", "foreign"}, pc' \in {"foreign", "introspected", "panicked"},
         result' \in Alike(result), UNCHANGED <<names, indexes, catalogVars, source>>
  PROVE  IInv'
<1>1. UNCHANGED <<catalog, names, indexes, source>> /\ result \in Seq(TableRead) /\ Whole(result)
  BY DEF catalogVars, IInv, Typed, Resolved
<1>2. result' \in Seq(TableRead) /\ SameTables(result, result') /\ Whole(result')
  BY <1>1 DEF Alike
<1>3. Unread = <<>> /\ Unread' = <<>>
  BY DEF Unread, Inside
<1>4. OnceEach(result', <<>>)
  BY <1>1, <1>2, <1>3, SameOnce DEF IInv
<1>5. names = <<>> /\ indexes = <<>>
  BY DEF IInv, Placed, Inside
<1>6. Typed' /\ Placed'
  BY <1>1, <1>2, <1>5 DEF IInv, Typed, Placed, Inside
<1>7. Resolved' /\ Accepted'
  BY <1>2 DEF Resolved, Accepted, Whole, WholeTable, Missing
<1>8. OnceEach(result, Unread)'
  BY <1>3, <1>4 DEF OnceEach
<1> QED BY <1>6, <1>7, <1>8 DEF IInv

LEMMA ReadKeysKeeps ==
  ASSUME IInv, ReadKeys \/ ReadForeignKeys, UNCHANGED <<catalogVars, source>>
  PROVE  IInv'
<1>1. IsDatabase(catalog) /\ result \in Seq(TableRead)
  BY DEF IInv, Typed
<1>2. CASE ReadKeys
  <2>1. /\ pc = "keys" /\ UNCHANGED <<names, indexes>> /\ result' \in Alike(result)
        /\ pc' \in {"foreign", "panicked"}
    BY <1>1, <1>2, ReadKeysStep
  <2> QED BY <2>1, AddedKeeps
<1>3. CASE ReadForeignKeys
  <2>1. /\ pc = "foreign" /\ UNCHANGED <<names, indexes>> /\ result' \in Alike(result)
        /\ pc' \in {"introspected", "panicked"}
    BY <1>1, <1>3, ReadForeignKeysStep
  <2> QED BY <2>1, AddedKeeps
<1> QED BY <1>2, <1>3
-----------------------------------------------------------------------------
(***************************************************************************)
(* The steps of SQLite's reader.                                           *)
(***************************************************************************)

LEMMA ReadTableNamesKeeps ==
  ASSUME IInv, ReadTableNames, UNCHANGED <<catalogVars, source>>
  PROVE  IInv'
<1>1. /\ pc = "names" /\ pc' = "table" /\ names' = InCatalog(catalog)
      /\ UNCHANGED <<catalog, result, indexes, source>>
  BY DEF ReadTableNames, catalogVars
<1>2. names' \in Seq(TableNames) /\ IsInjective(names')
  BY <1>1, InCatalogTables DEF IInv, Typed
<1>3. result = <<>> /\ indexes = <<>>
  BY <1>1 DEF IInv, Placed, Inside
<1>4. Unread' = names'
  BY <1>1 DEF Unread
<1>5. OnceEach(result, Unread)'
  BY <1>1, <1>2, <1>3, <1>4 DEF OnceEach
<1> QED BY <1>1, <1>2, <1>3, <1>5 DEF IInv, Typed, Placed, Inside, Resolved, Accepted

\* Definition of a table that is gone is a definition, too.
LEMMA DefinitionInType ==
  ASSUME IsDatabase(catalog), NEW t
  PROVE  Definition(t) \in DefinitionType
<1>1. <<>> \in Seq(ColumnDefinition) /\ <<>> \in Seq(KeyDefinition)
      /\ <<>> \in Seq(ForeignKeyDefinition)
  OBVIOUS
<1>2. KeysDiffer(<<>>) /\ ReferencesDiffer(<<>>)
  <2>1. \A i \in DOMAIN <<>> : FALSE
    OBVIOUS
  <2> QED BY <2>1, Zenon DEF KeysDiffer, ReferencesDiffer
<1>3. [columns |-> <<>>, keys |-> <<>>, foreignKeys |-> <<>>] \in DefinitionType
  BY <1>1, <1>2 DEF DefinitionType
<1> QED BY <1>3 DEF Definition, IsDatabase

\* The state within a table follows from that before it.
LEMMA InsideNames ==
  ASSUME IInv, pc \in Inside \/ (pc = "table" /\ names # <<>>)
  PROVE  /\ names # <<>> /\ Head(names) \in TableNames /\ Tail(names) \in Seq(TableNames)
         /\ Definition(Head(names)) \in DefinitionType
<1>1. names \in Seq(TableNames) /\ names # <<>> /\ IsDatabase(catalog)
  BY DEF IInv, Typed, Placed
<1> QED BY <1>1, DefinitionInType

LEMMA ReadTableKeeps ==
  ASSUME IInv, ReadTable, UNCHANGED <<catalogVars, source>>
  PROVE  IInv'
<1> DEFINE definition == Definition(Head(names))
           primary == KeysOf(definition, {"PRIMARY KEY"})
           keyColumns == IF primary = <<>> THEN <<>> ELSE primary[1].columns
           ColumnOf(c) ==
             [name |-> c.name, nullable |-> c.nullable /\ c.name \notin ToSet(keyColumns),
              default |-> c.kind \in {"default", "expression"},
              generated |-> c.kind = "generated",
              identity |-> c.kind = "identity" /\ keyColumns = <<c.name>>]
           columns == [i \in DOMAIN definition.columns |-> ColumnOf(definition.columns[i])]
           table == Table(Head(names), columns)
           read == IF primary = <<>> THEN table ELSE [table EXCEPT !.primaryKey = <<keyColumns>>]
<1>1. /\ pc = "table" /\ names # <<>> /\ pc' = "indexes"
      /\ UNCHANGED <<catalog, names, indexes, source>>
  BY DEF ReadTable, catalogVars
<1>2. result' = Append(result, read)
  BY Zenon DEF ReadTable
<1>3. /\ names \in Seq(TableNames) /\ Head(names) \in TableNames
      /\ definition \in DefinitionType
  BY <1>1, InsideNames DEF IInv, Typed
<1> HIDE DEF definition
<1>4. primary # <<>> => keyColumns \in ColumnList
  <2> SUFFICES ASSUME primary # <<>> PROVE primary[1].columns \in ColumnList
    OBVIOUS
  <2>1. primary \in Seq(KeyDefinition)
    BY <1>3, KeysOfType
  <2>2. \A i \in DOMAIN primary : primary[i].kind = "PRIMARY KEY"
    BY <1>3, KeysOfType
  <2> HIDE DEF primary
  <2>3. 1 \in DOMAIN primary
    BY <2>1
  <2>4. primary[1] \in KeyDefinition
    BY <2>1, <2>3
  <2>5. primary[1].kind = "PRIMARY KEY"
    BY <2>2, <2>3
  <2> QED BY <2>4, <2>5 DEF KeyDefinition, ColumnList
<1> HIDE DEF primary
<1> HIDE DEF keyColumns
<1>5. columns \in Seq(ColumnRead)
  <2> DEFINE defined == definition.columns
  <2>1. defined \in Seq(ColumnDefinition)
    BY <1>3 DEF DefinitionType
  <2>2. \A c \in ColumnDefinition : ColumnOf(c) \in ColumnRead
    <3> TAKE c \in ColumnDefinition
    <3>1. c.name \in Identifier /\ c.nullable \in BOOLEAN
      BY DEF ColumnDefinition
    <3> QED BY <3>1 DEF ColumnRead
  <2> HIDE DEF defined, ColumnOf
  <2>3. /\ Len(defined) \in Nat /\ DOMAIN defined = 1 .. Len(defined)
        /\ \A i \in DOMAIN defined : defined[i] \in ColumnDefinition
    BY <2>1
  <2>4. [i \in DOMAIN defined |-> ColumnOf(defined[i])] \in [1 .. Len(defined) -> ColumnRead]
    BY <2>2, <2>3
  <2>5. [i \in DOMAIN defined |-> ColumnOf(defined[i])] \in Seq(ColumnRead)
    BY <2>3, <2>4, Listed
  <2> QED BY <2>5 DEF defined
<1> HIDE DEF columns
<1>6. read \in TableRead /\ read.name = Head(names)
  <2>1. table \in TableRead /\ table.name = Head(names)
    BY <1>3, <1>5, TableType DEF Table
  <2>2. primary # <<>> => <<keyColumns>> \in PrimaryKeyRead
    <3>1. primary # <<>> => <<keyColumns>> \in Seq(ColumnList) /\ Len(<<keyColumns>>) = 1
      BY <1>4
    <3> QED BY <3>1 DEF PrimaryKeyRead
  <2> HIDE DEF table
  <2> QED BY <2>1, <2>2 DEF TableRead
<1> HIDE DEF read
<1>7. result \in Seq(TableRead) /\ OnceEach(result, names)
  BY <1>1 DEF IInv, Typed, Unread
<1>8. result' \in Seq(TableRead) /\ result' # <<>> /\ OnceEach(result', Tail(names))
  BY <1>1, <1>2, <1>3, <1>6, <1>7, NextOnce
<1>9. Unread' = Tail(names)
  BY <1>1 DEF Unread, Inside
<1>10. OnceEach(result, Unread)'
  BY <1>8, <1>9 DEF OnceEach
<1>11. Typed' /\ Placed'
  BY <1>1, <1>8 DEF IInv, Typed, Placed, Inside
<1> QED BY SMTT(30), <1>1, <1>10, <1>11 DEF IInv, Resolved, Accepted

LEMMA ReadIndexListKeeps ==
  ASSUME IInv, ReadIndexList, UNCHANGED <<catalogVars, source>>
  PROVE  IInv'
<1> DEFINE keys == UniqueIndexes(Definition(Head(names)))
<1>1. /\ pc = "indexes" /\ pc' = "index" /\ indexes' = [i \in DOMAIN keys |-> keys[i].name]
      /\ UNCHANGED <<catalog, result, names, source>>
  BY DEF ReadIndexList, catalogVars
<1>2. keys \in Seq(KeyDefinition)
  BY <1>1, InsideNames, KeysOfType DEF UniqueIndexes, Inside
<1> HIDE DEF keys
<1>3. /\ Len(keys) \in Nat /\ DOMAIN keys = 1 .. Len(keys)
      /\ \A i \in DOMAIN keys : keys[i] \in KeyDefinition
  BY <1>2
<1>4. indexes' \in [1 .. Len(keys) -> Identifier]
  BY <1>1, <1>3 DEF KeyDefinition
<1>5. indexes' \in Seq(Identifier)
  BY <1>3, <1>4, Listed
<1>6. Unread' = Unread
  BY <1>1 DEF Unread, Inside
<1> QED BY <1>1, <1>5, <1>6 DEF IInv, Typed, Placed, Inside, OnceEach, Resolved, Accepted

\* Within a table, result may change as long as the tables are the same.
LEMMA InsideKeeps ==
  ASSUME IInv, pc \in Inside, result' \in Seq(TableRead), SameTables(result, result'),
         UNCHANGED <<catalogVars, source>>
  PROVE  OnceEach(result', Tail(names)) /\ result' # <<>>
<1>1. Unread = Tail(names) /\ result \in Seq(TableRead) /\ result # <<>>
  BY DEF Unread, Inside, IInv, Typed, Placed
<1> QED BY <1>1, SameOnce DEF IInv

LEMMA IndexColumnsType ==
  ASSUME IsDatabase(catalog), NEW t, NEW index
  PROVE  IndexColumns(t, index) \in Seq(Identifier)
<1> DEFINE keys == Definition(t).keys
           S == {k \in ToSet(keys) : k.name = index}
           found == Those(keys, S)
<1>1. keys \in Seq(KeyDefinition)
  BY DefinitionInType DEF DefinitionType
<1> HIDE DEF keys
<1>2. found \in Seq(KeyDefinition)
  <2> HIDE DEF S
  <2> QED BY <1>1, ThoseType
<1>3. IndexColumns(t, index) =
        IF found = <<>> \/ found[1].kind = "EXPRESSION" THEN <<>> ELSE found[1].columns
  BY DEF IndexColumns, keys
<1> HIDE DEF found
<1>4. found # <<>> => found[1] \in KeyDefinition
  BY <1>2
<1>5. found # <<>> => found[1].columns \in Seq(Identifier)
  BY <1>4 DEF KeyDefinition
<1> QED BY <1>3, <1>5

LEMMA ReadIndexColumnsKeeps ==
  ASSUME IInv, ReadIndexColumns, UNCHANGED <<catalogVars, source>>
  PROVE  IInv'
<1> DEFINE columns == IndexColumns(Head(names), Head(indexes))
<1>1. /\ pc = "index" /\ indexes # <<>> /\ result' = WithIndex(result, Len(result), columns)
      /\ indexes' = Tail(indexes) /\ UNCHANGED <<pc, catalog, names, source>>
  BY DEF ReadIndexColumns, current, catalogVars
<1>2. columns \in Seq(Identifier)
  BY IndexColumnsType DEF IInv, Typed
<1> HIDE DEF columns
<1>3. result \in Seq(TableRead) /\ result # <<>> /\ indexes \in Seq(Identifier)
  BY <1>1 DEF IInv, Typed, Placed, Inside
<1>4. Len(result) \in DOMAIN result
  <2> DEFINE T == TableRead
  <2>1. result \in Seq(T)
    BY <1>3
  <2> HIDE DEF T
  <2> QED BY <1>3, <2>1
<1>5. result' \in Seq(TableRead) /\ SameTables(result, result')
  <2>1. CASE columns = <<>>
    BY <1>1, <1>3, <2>1 DEF WithIndex, SameTables
  <2>2. CASE columns # <<>>
    <3>1. columns \in ColumnList
      BY <1>2, <2>2 DEF ColumnList
    <3>2. result' = AddUniqueKey(result, Len(result), columns)
      BY <1>1, <2>2 DEF WithIndex
    <3> QED BY <1>3, <1>4, <3>1, <3>2, AddUniqueKeyType
  <2> QED BY <2>1, <2>2
<1>6. OnceEach(result', Tail(names)) /\ result' # <<>>
  BY <1>1, <1>5, InsideKeeps DEF Inside
<1>7. indexes' \in Seq(Identifier)
  BY <1>1, <1>3
<1>8. Unread' = Tail(names)
  BY <1>1 DEF Unread, Inside
<1>9. OnceEach(result, Unread)'
  BY <1>6, <1>8 DEF OnceEach
<1>10. Typed' /\ Placed'
  BY <1>1, <1>5, <1>6, <1>7 DEF IInv, Typed, Placed, Inside
<1> QED BY <1>1, <1>9, <1>10 DEF IInv, Resolved, Accepted

LEMMA FinishIndexesKeeps ==
  ASSUME IInv, FinishIndexes, UNCHANGED <<catalogVars, source>>
  PROVE  IInv'
<1>1. /\ pc = "index" /\ indexes = <<>> /\ pc' = "references"
      /\ UNCHANGED <<catalog, result, names, indexes, source>>
  BY DEF FinishIndexes, catalogVars
<1>2. Unread' = Unread
  BY <1>1 DEF Unread, Inside
<1> QED BY <1>1, <1>2 DEF IInv, Typed, Placed, Inside, OnceEach, Resolved, Accepted

LEMMA SeqWidens ==
  ASSUME NEW A, NEW B, A \subseteq B, NEW s \in Seq(A)
  PROVE  s \in Seq(B)
<1>1. Len(s) \in Nat /\ DOMAIN s = 1 .. Len(s) /\ \A i \in DOMAIN s : s[i] \in B
  OBVIOUS
<1>2. s \in [1 .. Len(s) -> B]
  BY <1>1
<1> QED BY <1>1, <1>2, Listed

LEMMA KeyListedType ==
  ASSUME NEW f \in ForeignKeyDefinition
  PROVE  KeyListed(f) \in KeyRead
<1> DEFINE Named == Identifier \union {""}
           blank == [i \in DOMAIN f.columns |-> ""]
           referenced == IF f.omitted THEN blank ELSE f.referencedColumns
<1>1. /\ f.columns \in ColumnList /\ f.referencedColumns \in ColumnList
      /\ Len(f.columns) = Len(f.referencedColumns) /\ f.table \in Identifier
  BY DEF ForeignKeyDefinition
<1>2. blank \in Seq(Named) /\ Len(blank) = Len(f.columns)
  <2>1. DOMAIN f.columns = 1 .. Len(f.columns) /\ Len(f.columns) \in Nat
    BY <1>1 DEF ColumnList
  <2>2. blank \in [1 .. Len(f.columns) -> Named]
    BY <2>1
  <2> HIDE DEF blank, Named
  <2> QED BY <2>1, <2>2, Listed
<1>3. f.referencedColumns \in Seq(Named)
  <2>1. f.referencedColumns \in Seq(Identifier) /\ Identifier \subseteq Named
    BY <1>1 DEF ColumnList
  <2> HIDE DEF Named
  <2> QED BY <2>1, SeqWidens
<1> HIDE DEF blank
<1>4. referenced \in Seq(Named) /\ Len(referenced) = Len(f.columns)
  BY <1>1, <1>2, <1>3
<1>5. KeyListed(f) = ForeignKey(f.columns, Own, f.table, referenced)
  BY DEF KeyListed, blank
<1> HIDE DEF referenced
<1>6. Own \in Schemas
  BY NamesAreText
<1>7. ForeignKey(f.columns, Own, f.table, referenced) \in KeyRead
  BY <1>1, <1>4, <1>6 DEF ForeignKey, KeyRead
<1> QED BY <1>5, <1>7

LEMMA ReadReferencesKeeps ==
  ASSUME IInv, ReadReferences, UNCHANGED <<catalogVars, source>>
  PROVE  IInv'
<1> DEFINE keys == Definition(Head(names)).foreignKeys
           listed == [i \in DOMAIN keys |-> KeyListed(keys[i])]
           last == Len(result)
           t == [result[last] EXCEPT !.foreignKeys = @ \o listed]
<1>1. /\ pc = "references" /\ pc' = "table" /\ names' = Tail(names)
      /\ result' = [result EXCEPT ![last].foreignKeys = @ \o listed]
      /\ UNCHANGED <<catalog, indexes, source>>
  BY DEF ReadReferences, current, catalogVars
<1>2. keys \in Seq(ForeignKeyDefinition)
  BY <1>1, InsideNames DEF Inside, DefinitionType
<1>3. listed \in Seq(KeyRead)
  <2> HIDE DEF keys
  <2>1. /\ Len(keys) \in Nat /\ DOMAIN keys = 1 .. Len(keys)
        /\ \A i \in DOMAIN keys : keys[i] \in ForeignKeyDefinition
    BY <1>2
  <2>2. \A i \in DOMAIN keys : KeyListed(keys[i]) \in KeyRead
    BY <2>1, KeyListedType
  <2>3. listed \in [1 .. Len(keys) -> KeyRead]
    BY <2>1, <2>2
  <2> HIDE DEF listed
  <2> QED BY <2>1, <2>3, Listed
<1> HIDE DEF listed
<1>4. result \in Seq(TableRead) /\ result # <<>> /\ names \in Seq(TableNames) /\ names # <<>>
      /\ indexes = <<>>
  BY <1>1 DEF IInv, Typed, Placed, Inside
<1>5. last \in DOMAIN result /\ result[last] \in TableRead
  <2> DEFINE T == TableRead
  <2>1. result \in Seq(T)
    BY <1>4
  <2> HIDE DEF T
  <2>2. last \in DOMAIN result /\ result[last] \in T
    BY <1>4, <2>1
  <2> QED BY <2>2 DEF T
<1>6. t \in TableRead /\ t.name = result[last].name
  <2>1. result[last].foreignKeys \in Seq(KeyRead)
    BY <1>5 DEF TableRead
  <2>2. result[last].foreignKeys \o listed \in Seq(KeyRead)
    BY <1>3, <2>1
  <2> QED BY <1>5, <2>2 DEF TableRead
<1>7. result' = [result EXCEPT ![last] = t]
  BY <1>1
<1> HIDE DEF t, last
<1>8. result' \in Seq(TableRead) /\ SameTables(result, result')
  BY <1>4, <1>5, <1>6, <1>7, ReplaceTable
<1>9. OnceEach(result', Tail(names)) /\ result' # <<>>
  BY <1>1, <1>8, InsideKeeps DEF Inside
<1>10. names' \in Seq(TableNames)
  BY <1>1, <1>4
<1>11. Unread' = Tail(names)
  BY <1>1 DEF Unread
<1>12. OnceEach(result, Unread)'
  BY <1>9, <1>11 DEF OnceEach
<1>13. Typed' /\ Placed'
  BY <1>1, <1>4, <1>8, <1>10 DEF IInv, Typed, Placed, Inside
<1> QED BY <1>1, <1>12, <1>13 DEF IInv, Resolved, Accepted

\* The names are distinct, so that the table whose primary key is taken is the
\* one whose primary key was found to have as many columns.
LEMMA ResolveKey ==
  ASSUME result \in Seq(TableRead),
         \A i, j \in DOMAIN result : result[i].name = result[j].name => i = j,
         NEW k \in KeyRead, Missing(k) => Resolvable(k)
  PROVE  Resolve(k) \in KeyRead /\ ~Missing(Resolve(k))
<1>1. CASE ~Missing(k)
  BY <1>1 DEF Resolve
<1>2. CASE Missing(k)
  <2> DEFINE i == CHOOSE i \in Referent(k) : TRUE
             columns == result[i].primaryKey[1]
  <2>1. PICK j \in Referent(k) :
          result[j].primaryKey # <<>> /\ Len(result[j].primaryKey[1]) = Len(k.columns)
    BY <1>2 DEF Resolvable
  <2>2. i \in Referent(k)
    BY <2>1
  <2>3. i = j /\ i \in DOMAIN result
    BY <2>1, <2>2 DEF Referent
  <2>4. Resolve(k) = [k EXCEPT !.referencedColumns = columns]
    BY <1>2 DEF Resolve
  <2> HIDE DEF i
  <2>5. result[i].primaryKey \in Seq(ColumnList) /\ result[i].primaryKey # <<>>
    <3>1. result[i] \in TableRead
      <4> DEFINE T == TableRead
      <4>1. result \in Seq(T)
        OBVIOUS
      <4> HIDE DEF T
      <4>2. result[i] \in T
        BY <2>3, <4>1
      <4> QED BY <4>2 DEF T
    <3>2. result[i].primaryKey \in PrimaryKeyRead
      BY <3>1 DEF TableRead
    <3> QED BY <2>1, <2>3, <3>2 DEF PrimaryKeyRead
  <2>6. columns \in ColumnList /\ Len(columns) = Len(k.columns)
    BY <2>1, <2>3, <2>5
  <2> HIDE DEF columns
  <2> DEFINE Named == Identifier \union {""}
  <2>7. columns \in Seq(Named) /\ \A m \in DOMAIN columns : columns[m] # ""
    <3>1. columns \in Seq(Identifier)
      BY <2>6 DEF ColumnList
    <3>2. \A m \in DOMAIN columns : columns[m] \in Identifier
      BY <3>1
    <3>3. Identifier \subseteq Named
      OBVIOUS
    <3>4. columns \in Seq(Named)
      <4> HIDE DEF Named
      <4> QED BY <3>1, <3>3, SeqWidens
    <3> QED BY <3>2, <3>4 DEF Identifier
  <2>8. Resolve(k) \in KeyRead /\ Resolve(k).referencedColumns = columns
    BY <2>4, <2>6, <2>7 DEF KeyRead
  <2> QED BY <2>7, <2>8 DEF Missing, ToSet
<1> QED BY <1>1, <1>2

LEMMA ResolveTable ==
  ASSUME result \in Seq(TableRead),
         \A i, j \in DOMAIN result : result[i].name = result[j].name => i = j,
         NEW t \in TableRead, \A k \in ToSet(t.foreignKeys) : Missing(k) => Resolvable(k)
  PROVE  LET keys == t.foreignKeys
             new == [t EXCEPT !.foreignKeys = [j \in DOMAIN keys |-> Resolve(keys[j])]]
         IN new \in TableRead /\ new.name = t.name /\ WholeTable(new)
<1> DEFINE keys == t.foreignKeys
           resolved == [j \in DOMAIN keys |-> Resolve(keys[j])]
           new == [t EXCEPT !.foreignKeys = resolved]
<1>1. keys \in Seq(KeyRead)
  BY DEF TableRead
<1>2. /\ Len(keys) \in Nat /\ DOMAIN keys = 1 .. Len(keys)
      /\ \A j \in DOMAIN keys : keys[j] \in KeyRead
  <2> DEFINE K == KeyRead
  <2> HIDE DEF K, keys
  <2>1. keys \in Seq(K)
    BY <1>1 DEF K
  <2> QED BY <2>1 DEF K
<1>3. \A j \in DOMAIN keys : Missing(keys[j]) => Resolvable(keys[j])
  BY DEF ToSet
<1> HIDE DEF keys
<1>4. \A j \in DOMAIN keys : Resolve(keys[j]) \in KeyRead /\ ~Missing(Resolve(keys[j]))
  BY <1>2, <1>3, ResolveKey
<1>5. resolved \in [1 .. Len(keys) -> KeyRead] /\ \A j \in DOMAIN resolved : ~Missing(resolved[j])
  BY <1>2, <1>4
<1> HIDE DEF resolved
<1>6. resolved \in Seq(KeyRead)
  BY <1>2, <1>5, Listed
<1>7. new \in TableRead /\ new.name = t.name /\ new.foreignKeys = resolved
  BY <1>6 DEF TableRead
<1> HIDE DEF new
<1>8. WholeTable(new)
  BY <1>5, <1>7 DEF WholeTable
<1> QED BY <1>7, <1>8 DEF new, resolved, keys

LEMMA ResolveReferencedColumnsKeeps ==
  ASSUME IInv, ResolveReferencedColumns, UNCHANGED <<catalogVars, source>>
  PROVE  IInv'
<1> DEFINE Keys(t) == [j \in DOMAIN t.foreignKeys |-> Resolve(t.foreignKeys[j])]
           resolvedTable(t) == [t EXCEPT !.foreignKeys = Keys(t)]
           new == [i \in DOMAIN result |-> resolvedTable(result[i])]
<1>1. pc = "table" /\ names = <<>> /\ UNCHANGED <<catalog, names, indexes, source>>
  BY DEF ResolveReferencedColumns, catalogVars
<1>2. /\ result \in Seq(TableRead) /\ OnceEach(result, <<>>)
      /\ indexes = <<>>
  BY <1>1 DEF IInv, Typed, Placed, Unread, Inside
<1>3. pc' # "table" /\ pc' \notin Inside => Unread' = <<>>
  BY DEF Unread
<1>4. CASE pc' = "failed" /\ UNCHANGED result
  <2>1. OnceEach(result, Unread)'
    BY <1>2, <1>3, <1>4 DEF OnceEach, Inside
  <2> QED BY <1>1, <1>4, <2>1 DEF IInv, Typed, Placed, Inside, Resolved, Accepted
<1>5. CASE pc' = "introspected"
  <2>1. /\ result' = new
        /\ \A i \in DOMAIN result : \A k \in ToSet(result[i].foreignKeys) :
             Missing(k) => Resolvable(k)
    BY <1>5 DEF ResolveReferencedColumns
  <2>2. /\ Len(result) \in Nat /\ DOMAIN result = 1 .. Len(result)
        /\ \A i \in DOMAIN result : result[i] \in TableRead
    <3> DEFINE T == TableRead
    <3>1. result \in Seq(T)
      BY <1>2
    <3> HIDE DEF T
    <3>2. /\ Len(result) \in Nat /\ DOMAIN result = 1 .. Len(result)
          /\ \A i \in DOMAIN result : result[i] \in T
      BY <3>1
    <3> QED BY <3>2 DEF T
  <2>3. \A i \in DOMAIN result :
          /\ resolvedTable(result[i]) \in TableRead
          /\ resolvedTable(result[i]).name = result[i].name
          /\ WholeTable(resolvedTable(result[i]))
    <3> TAKE i \in DOMAIN result
    <3>1. \A k, l \in DOMAIN result : result[k].name = result[l].name => k = l
      BY <1>2 DEF OnceEach
    <3> QED BY <1>2, <2>1, <2>2, <3>1, ResolveTable
  <2> HIDE DEF resolvedTable
  <2>4. new \in [1 .. Len(result) -> TableRead]
    BY <2>2, <2>3
  <2>5. \A i \in DOMAIN result : new[i].name = result[i].name /\ WholeTable(new[i])
    BY <2>3
  <2> HIDE DEF new
  <2>6. new \in Seq(TableRead) /\ Len(new) = Len(result) /\ DOMAIN new = DOMAIN result
    BY <2>2, <2>4, Listed
  <2>7. SameTables(result, new) /\ Whole(new)
    BY <2>5, <2>6 DEF SameTables, Whole
  <2>8. OnceEach(new, <<>>)
    BY <1>2, <2>6, <2>7, SameOnce
  <2>9. OnceEach(result, Unread)'
    BY <1>3, <1>5, <2>1, <2>8 DEF OnceEach, Inside
  <2>10. Resolved'
    BY <1>5, <2>1, <2>7 DEF Resolved, Whole, WholeTable, Missing
  <2>11. Typed' /\ Placed' /\ Accepted'
    BY <1>1, <1>2, <1>5, <2>1, <2>6 DEF IInv, Typed, Placed, Inside, Accepted
  <2> QED BY <2>9, <2>10, <2>11 DEF IInv
<1>6. (pc' = "failed" /\ UNCHANGED result) \/ pc' = "introspected"
  BY DEF ResolveReferencedColumns
<1> QED BY <1>4, <1>5, <1>6

LEMMA GenerateSourceKeeps ==
  ASSUME IInv, GenerateSource
  PROVE  IInv'
<1>1. /\ pc = "introspected" /\ pc' \in {"generated", "refused"}
      /\ UNCHANGED <<catalog, result, names, indexes>>
      /\ pc' = "generated" => GenerateOK(Own, result) /\ source' = Source(Own, result)
  BY DEF GenerateSource, catalogVars
<1>2. Unread = <<>> /\ Unread' = <<>>
  BY <1>1 DEF Unread, Inside
<1>3. OnceEach(result, Unread)'
  BY <1>1, <1>2 DEF IInv, OnceEach
<1>4. Typed' /\ Placed'
  BY <1>1 DEF IInv, Typed, Placed, Inside
<1>5. Resolved'
  BY <1>1 DEF IInv, Resolved, Whole, WholeTable, Missing
<1>6. Accepted'
  BY <1>1 DEF Accepted, GenerateOK, NamesOK, ReferencesOK, Source
<1> QED BY <1>3, <1>4, <1>5, <1>6 DEF IInv

LEMMA NextInvariant == IInv /\ [Next]_vars => IInv'
<1> SUFFICES ASSUME IInv, [Next]_vars PROVE IInv'
  OBVIOUS
<1>1. CASE UNCHANGED vars
  <2>1. UNCHANGED <<catalog, pc, result, names, indexes, source>>
    BY <1>1 DEF vars, catalogVars, introspectVars
  <2> QED BY <2>1
    DEF IInv, Typed, Placed, OnceEach, Unread, Inside, Resolved, Accepted, Whole, WholeTable, Missing
<1>2. CASE Reading /\ DDL /\ UNCHANGED <<introspectVars, source>>
  BY <1>2, ChangeKeeps
<1>3. CASE Introspection /\ UNCHANGED <<catalogVars, source>>
  BY <1>3, ReadColumnsKeeps, ReadKeysKeeps, ReadFailsKeeps, ReadTableNamesKeeps, ReadTableKeeps,
     ReadIndexListKeeps, ReadIndexColumnsKeeps, FinishIndexesKeeps, ReadReferencesKeeps,
     ResolveReferencedColumnsKeeps DEF Introspection
<1>4. CASE GenerateSource
  BY <1>4, GenerateSourceKeeps
<1> QED BY <1>1, <1>2, <1>3, <1>4 DEF Next

\* The invariant, in every state that introspection and generation reach.
THEOREM Invariant == Spec => []IInv
BY InitInvariant, NextInvariant, PTL DEF Spec

\* Tables keep the shape that their readers give them, each once, and a table
\* is half read only while its pragmas run (introspect, all three dialects).
THEOREM TypeCorrect == Spec => []TypeOK
<1>1. ASSUME IInv PROVE TypeOK
  <2>1. result \in Seq(TableRead) /\ OnceEach(result, Unread) /\ Placed
    BY <1>1 DEF IInv, Typed
  <2>2. ASSUME NEW t \in TableRead
        PROVE  /\ t.name \in TableNames
               /\ Len(t.primaryKey) <= 1
               /\ \A key \in ToSet(t.primaryKey \o t.uniqueKeys) : key # <<>>
               /\ \A key \in ToSet(t.foreignKeys) :
                    key.columns # <<>> /\ Len(key.columns) = Len(key.referencedColumns)
    <3> DEFINE lists == t.primaryKey \o t.uniqueKeys
    <3>1. /\ t.name \in TableNames /\ t.primaryKey \in PrimaryKeyRead
          /\ t.uniqueKeys \in Seq(ColumnList) /\ t.foreignKeys \in Seq(KeyRead)
      BY DEF TableRead
    <3>2. t.primaryKey \in Seq(ColumnList) /\ Len(t.primaryKey) <= 1
      BY <3>1 DEF PrimaryKeyRead
    <3>3. lists \in Seq(ColumnList)
      BY <3>1, <3>2, Concatenation
    <3>4. \A key \in ToSet(lists) : key \in ColumnList
      <4> HIDE DEF lists
      <4> QED BY <3>3 DEF ToSet
    <3>5. \A key \in ToSet(t.foreignKeys) : key \in KeyRead
      BY <3>1 DEF ToSet
    <3>6. \A key \in KeyRead : key.columns \in ColumnList /\ Len(key.columns) = Len(key.referencedColumns)
      BY DEF KeyRead
    <3> QED BY <3>1, <3>2, <3>4, <3>5, <3>6 DEF ColumnList
  <2>3. \A i \in DOMAIN result : result[i] \in TableRead
    <3> DEFINE T == TableRead
    <3>1. result \in Seq(T)
      BY <2>1
    <3> HIDE DEF T
    <3>2. \A i \in DOMAIN result : result[i] \in T
      BY <3>1
    <3> QED BY <3>2 DEF T
  <2> QED BY <2>1, <2>2, <2>3 DEF TypeOK, OnceEach, Placed, Inside
<1> QED BY <1>1, Invariant, PTL

\* What writeTable makes of a table.
LEMMA WrittenParts ==
  ASSUME NEW t
  PROVE  /\ Written(Own, t).name = t.name
         /\ Written(Own, t).declares = Identifiers(TypeName(t))
         /\ Written(Own, t).fields = [j \in DOMAIN t.columns |-> exported(t.columns[j].name)]
         /\ Written(Own, t).foreignKeys =
              Those(t.foreignKeys, {k \in ToSet(t.foreignKeys) : ~External(Own, k)})
BY Zenon DEF Written, Identifiers

LEMMA DistinctCount ==
  ASSUME NEW T, NEW s \in Seq(T), IsInjective(s)
  PROVE  Cardinality(ToSet(s)) = Len(s)
<1>1. Len(s) \in Nat /\ DOMAIN s = 1 .. Len(s)
  OBVIOUS
<1>2. IsFiniteSet(1 .. Len(s)) /\ Cardinality(1 .. Len(s)) = Len(s)
  BY <1>1, FS_Interval
<1>3. s \in Bijection(1 .. Len(s), ToSet(s))
  BY <1>1 DEF Bijection, Injection, Surjection, ToSet, IsInjective
<1>4. ExistsBijection(1 .. Len(s), ToSet(s))
  BY <1>3 DEF ExistsBijection
<1> QED BY <1>2, <1>4, FS_Bijection

\* Every name in the generated file is declared once and no column hides a
\* method: validateGeneratedNames checks the names that writeTable writes.
THEOREM NamesDistinct == Spec => []NamesAreDistinct
<1>1. ASSUME IInv, pc = "generated" PROVE NamesAreDistinct
  <2>1. NamesOK(result) /\ source = [i \in DOMAIN result |-> Written(Own, result[i])]
    BY <1>1 DEF IInv, Accepted, GenerateOK, Source
  <2>2. DOMAIN source = DOMAIN result /\ \A i \in DOMAIN result : source[i] = Written(Own, result[i])
    BY <2>1
  <2>3. Distinct([i \in DOMAIN source |-> source[i].declares])
    <3>1. \A i \in DOMAIN result : source[i].declares = Identifiers(TypeName(result[i]))
      BY <2>2, WrittenParts
    <3>2. [i \in DOMAIN source |-> source[i].declares] =
            [i \in DOMAIN result |-> Identifiers(TypeName(result[i]))]
      BY <2>2, <3>1
    <3> QED BY <2>1, <3>2, Zenon DEF NamesOK
  <2>4. ASSUME NEW i \in DOMAIN source
        PROVE  /\ Cardinality(ToSet(source[i].fields)) = Len(source[i].fields)
               /\ ToSet(source[i].fields) \cap Methods = {}
    <3> DEFINE columns == result[i].columns
               fields == [j \in DOMAIN columns |-> exported(columns[j].name)]
               lists == [j \in DOMAIN columns |-> <<exported(columns[j].name)>>]
               All == {exported(columns[j].name) : j \in DOMAIN columns}
    <3>1. source[i].fields = fields
      BY <2>2, WrittenParts, ZenonT(40)
    <3>2. Distinct(lists) /\ \A j \in DOMAIN lists : lists[j][1] \notin Unspeakable \union Methods
      BY <2>1, <2>2 DEF NamesOK
    <3>3. columns \in Seq(ColumnRead)
      <4> DEFINE T == TableRead
      <4>1. result \in Seq(T)
        BY <1>1 DEF IInv, Typed
      <4> HIDE DEF T
      <4>2. result[i] \in T
        BY <2>2, <4>1
      <4> QED BY <4>2 DEF T, TableRead
    <3> HIDE DEF columns
    <3>4. Len(columns) \in Nat /\ DOMAIN columns = 1 .. Len(columns)
      BY <3>3
    <3>5. fields \in Seq(All)
      <4>1. fields \in [1 .. Len(columns) -> All]
        BY <3>4
      <4> HIDE DEF fields, All
      <4> QED BY <3>4, <4>1, Listed
    <3>6. DOMAIN lists = DOMAIN fields /\ \A j \in DOMAIN fields : lists[j] = <<fields[j]>>
      OBVIOUS
    <3> HIDE DEF fields, lists, All
    <3>7. IsInjective(fields)
      <4> SUFFICES ASSUME NEW j \in DOMAIN fields, NEW k \in DOMAIN fields, fields[j] = fields[k]
                   PROVE  j = k
        BY DEF IsInjective
      <4>1. 1 \in DOMAIN lists[j] /\ 1 \in DOMAIN lists[k] /\ lists[j][1] = lists[k][1]
        BY <3>6
      <4> QED BY <3>2, <3>6, <4>1 DEF Distinct
    <3>8. \A j \in DOMAIN fields : fields[j] \notin Methods
      BY <3>2, <3>6
    <3>9. ToSet(fields) \cap Methods = {}
      BY <3>8 DEF ToSet
    <3> QED BY <3>1, <3>5, <3>7, <3>9, DistinctCount
  <2> QED BY <2>3, <2>4 DEF NamesAreDistinct
<1>2. ASSUME IInv PROVE NamesAreDistinct
  BY <1>1, <1>2 DEF NamesAreDistinct
<1> QED BY <1>2, Invariant, PTL

\* Whatever other sessions do while the schema is read, a foreign key that is
\* generated references a generated table, column by column, each with a name
\* (validateForeignKeys, resolveReferencedColumns, foreignKeyIsExternal).
THEOREM ReferencesUsable == Spec => []ReferencesAreUsable
<1>1. ASSUME IInv, pc = "generated" PROVE ReferencesAreUsable
  <2>1. /\ ReferencesOK(Own, result) /\ Whole(result) /\ result \in Seq(TableRead)
        /\ source = [i \in DOMAIN result |-> Written(Own, result[i])]
    BY <1>1 DEF IInv, Accepted, GenerateOK, Source, Resolved, Typed
  <2>2. DOMAIN source = DOMAIN result /\ \A i \in DOMAIN result : source[i] = Written(Own, result[i])
    BY <2>1
  <2>3. ASSUME NEW i \in DOMAIN source, NEW key \in ToSet(source[i].foreignKeys)
        PROVE  /\ key.table \in {source[j].name : j \in DOMAIN source}
               /\ key.columns # <<>> /\ Len(key.columns) = Len(key.referencedColumns)
               /\ "" \notin ToSet(key.referencedColumns)
    <3> DEFINE keys == result[i].foreignKeys
               S == {k \in ToSet(keys) : ~External(Own, k)}
               own == Those(keys, S)
    <3>1. source[i].foreignKeys = own
      BY <2>2, WrittenParts, Zenon
    <3>2. keys \in Seq(KeyRead)
      <4> DEFINE T == TableRead
      <4>1. result \in Seq(T)
        BY <2>1
      <4> HIDE DEF T
      <4>2. result[i] \in T
        BY <2>2, <4>1
      <4> QED BY <4>2 DEF T, TableRead
    <3>3. \A k \in S : k \in ToSet(keys) /\ ~External(Own, k)
      OBVIOUS
    <3>4. \A j \in DOMAIN keys : keys[j] \in KeyRead /\ ~Missing(keys[j])
      <4>1. \A j \in DOMAIN keys : ~Missing(keys[j])
        BY <2>1, <2>2 DEF Whole, WholeTable
      <4> HIDE DEF keys
      <4> QED BY <3>2, <4>1
    <3>5. key \in S
      <4> HIDE DEF keys, S
      <4>1. Picked(keys, S, own)
        BY <3>2, ThosePicked
      <4> QED BY <3>1, <4>1 DEF Picked, ToSet
    <3>6. key \in ToSet(keys) /\ ~External(Own, key)
      BY <3>3, <3>5
    <3>7. \E j \in DOMAIN result : result[j].name = key.table
      BY <2>1, <2>2, <3>6 DEF ReferencesOK
    <3>8. key \in KeyRead /\ ~Missing(key)
      <4> HIDE DEF keys
      <4> QED BY <3>4, <3>6 DEF ToSet
    <3>9. \A j \in DOMAIN result : source[j].name = result[j].name
      BY <2>2, WrittenParts
    <3>10. key.columns # <<>> /\ Len(key.columns) = Len(key.referencedColumns)
      BY <3>8 DEF KeyRead, ColumnList
    <3> QED BY <2>2, <3>7, <3>8, <3>9, <3>10 DEF Missing
  <2> QED BY <2>3 DEF ReferencesAreUsable
<1>2. ASSUME IInv PROVE ReferencesAreUsable
  BY <1>1, <1>2 DEF ReferencesAreUsable
<1> QED BY <1>2, Invariant, PTL
-----------------------------------------------------------------------------
(***************************************************************************)
(* The keys of one table: its rows come together again.                    *)
(***************************************************************************)

LEMMA ThoseSame ==
  ASSUME NEW s, NEW S, NEW R, \A i \in DOMAIN s : s[i] \in S <=> s[i] \in R
  PROVE  Those(s, S) = Those(s, R)
<1>1. [i \in DOMAIN s |-> IF s[i] \in S THEN <<s[i]>> ELSE <<>>] =
        [i \in DOMAIN s |-> IF s[i] \in R THEN <<s[i]>> ELSE <<>>]
  OBVIOUS
<1> QED BY <1>1, Zenon DEF Those

LEMMA ThoseNone ==
  ASSUME NEW T, NEW S, NEW s \in Seq(T), \A i \in DOMAIN s : s[i] \notin S
  PROVE  Those(s, S) = <<>>
<1> DEFINE picked == Those(s, S)
<1>1. picked \in Seq(T) /\ Picked(s, S, picked)
  BY ThoseType, ThosePicked
<1> HIDE DEF picked
<1>2. \A i \in DOMAIN picked : FALSE
  BY <1>1 DEF Picked
<1>3. picked = <<>>
  <2>1. picked \in Seq(T) /\ DOMAIN picked = 1 .. Len(picked) /\ Len(picked) \in Nat
    BY <1>1
  <2>2. ~(Len(picked) > 0)
    <3> SUFFICES ASSUME Len(picked) > 0 PROVE FALSE
      OBVIOUS
    <3>1. 1 \in DOMAIN picked
      BY <2>1
    <3> QED BY <1>2, <3>1
  <2> QED BY <2>1, <2>2
<1> QED BY <1>3 DEF picked

LEMMA ThoseAll ==
  ASSUME NEW T, NEW S, NEW s \in Seq(T), \A i \in DOMAIN s : s[i] \in S
  PROVE  Those(s, S) = s
<1> DEFINE P == {r \in Seq(T) : (\A i \in DOMAIN r : r[i] \in S) => Those(r, S) = r}
<1>1. <<>> \in P
  BY ThoseEmpty
<1>2. ASSUME NEW r \in Seq(T), NEW x \in T, r \in P PROVE Append(r, x) \in P
  <2>0. Append(r, x) \in Seq(T)
    OBVIOUS
  <2> SUFFICES ASSUME \A i \in DOMAIN Append(r, x) : Append(r, x)[i] \in S
               PROVE  Those(Append(r, x), S) = Append(r, x)
    BY <2>0, Zenon
  <2>1. x \in S /\ \A i \in DOMAIN r : r[i] \in S
    <3>1. /\ Len(r) \in Nat /\ DOMAIN r = 1 .. Len(r) /\ DOMAIN Append(r, x) = 1 .. Len(r) + 1
          /\ Append(r, x)[Len(r) + 1] = x /\ \A i \in DOMAIN r : Append(r, x)[i] = r[i]
      OBVIOUS
    <3> QED BY <3>1
  <2> QED BY <1>2, <2>1, ThoseAppend
<1> HIDE DEF P
<1>3. Seq(T) \subseteq P
  BY <1>1, <1>2, AppendInduction
<1> QED BY <1>3 DEF P

LEMMA ThoseConcat ==
  ASSUME NEW T, NEW S, NEW a \in Seq(T), NEW b \in Seq(T)
  PROVE  Those(a \o b, S) = Those(a, S) \o Those(b, S)
<1> DEFINE P == {r \in Seq(T) : Those(a \o r, S) = Those(a, S) \o Those(r, S)}
<1>1. <<>> \in P
  <2>1. a \o <<>> = a /\ Those(a, S) \in Seq(T) /\ Those(<<>>, S) = <<>>
    BY ThoseType, ThoseEmpty
  <2>2. Those(a, S) \o <<>> = Those(a, S)
    BY <2>1
  <2> QED BY <2>1, <2>2
<1>2. ASSUME NEW r \in Seq(T), NEW x \in T, r \in P PROVE Append(r, x) \in P
  <2>1. a \o Append(r, x) = Append(a \o r, x) /\ a \o r \in Seq(T)
    OBVIOUS
  <2>2. Those(a \o Append(r, x), S) =
          IF x \in S THEN Append(Those(a \o r, S), x) ELSE Those(a \o r, S)
    <3> DEFINE w == a \o r
    <3>1. w \in Seq(T)
      BY <2>1
    <3> HIDE DEF w
    <3>2. Those(Append(w, x), S) = IF x \in S THEN Append(Those(w, S), x) ELSE Those(w, S)
      BY <3>1, ThoseAppend
    <3> QED BY <2>1, <3>2 DEF w
  <2>3. Those(Append(r, x), S) = IF x \in S THEN Append(Those(r, S), x) ELSE Those(r, S)
    BY ThoseAppend
  <2>4. Those(a \o r, S) = Those(a, S) \o Those(r, S)
    BY <1>2
  <2> DEFINE u == Those(a, S)
             v == Those(r, S)
  <2>5. u \in Seq(T) /\ v \in Seq(T)
    BY ThoseType
  <2> HIDE DEF u, v
  <2>6. u \o Append(v, x) = Append(u \o v, x)
    BY <2>5
  <2>7. Those(a \o Append(r, x), S) = Those(a, S) \o Those(Append(r, x), S)
    BY <2>2, <2>3, <2>4, <2>6 DEF u, v
  <2> QED BY <2>7
<1> HIDE DEF P
<1>3. Seq(T) \subseteq P
  BY <1>1, <1>2, AppendInduction
<1> QED BY <1>3 DEF P

\* Segments of which at most one has elements in S.
NoneIn(segments, S) == \A i \in DOMAIN segments : Those(segments[i], S) = <<>>
OnlyIn(segments, S, m) == \A i \in DOMAIN segments : i # m => Those(segments[i], S) = <<>>

LEMMA ThoseOfOne ==
  ASSUME NEW T, NEW S, NEW segments \in Seq(Seq(T))
  PROVE  /\ NoneIn(segments, S) => Those(FlattenSeq(segments), S) = <<>>
         /\ \A m \in DOMAIN segments :
              OnlyIn(segments, S, m) => Those(FlattenSeq(segments), S) = Those(segments[m], S)
<1> DEFINE V == Seq(T)
           Holds(c) ==
             /\ NoneIn(c, S) => Those(FlattenSeq(c), S) = <<>>
             /\ \A m \in DOMAIN c : OnlyIn(c, S, m) => Those(FlattenSeq(c), S) = Those(c[m], S)
           P == {c \in Seq(V) : Holds(c)}
<1>1. <<>> \in P
  <2>1. FlattenSeq(<<>>) = <<>>
    BY DEF FlattenSeq
  <2>2. Those(<<>>, S) = <<>> /\ \A m \in DOMAIN <<>> : FALSE
    BY ThoseEmpty
  <2>3. Holds(<<>>)
    BY <2>1, <2>2
  <2> HIDE DEF Holds, V
  <2> QED BY <2>3
<1>2. ASSUME NEW c \in Seq(V), NEW s \in V, c \in P PROVE Append(c, s) \in P
  <2> DEFINE more == Append(c, s)
             old == Those(FlattenSeq(c), S)
             last == Those(s, S)
             new == Those(FlattenSeq(more), S)
  <2>1. c \in Seq(Seq(T)) /\ s \in Seq(T)
    OBVIOUS
  <2>2. FlattenSeq(c) \in Seq(T) /\ FlattenSeq(more) = FlattenSeq(c) \o s
    BY <2>1, FlattenAppend
  <2>3. new = old \o last
    BY <2>1, <2>2, ThoseConcat
  <2>4. old \in Seq(T) /\ last \in Seq(T)
    BY <2>1, <2>2, ThoseType
  <2>5. <<>> \o last = last /\ old \o <<>> = old
    <3> HIDE DEF old, last
    <3> QED BY <2>4
  <2>6. Holds(c)
    BY <1>2
  <2>7. /\ more \in Seq(V) /\ Len(c) \in Nat
        /\ DOMAIN c = 1 .. Len(c) /\ DOMAIN more = 1 .. Len(c) + 1
        /\ more[Len(c) + 1] = s /\ \A i \in DOMAIN c : more[i] = c[i]
    <3> HIDE DEF V
    <3> QED BY <1>2
  <2>8. /\ \A i \in DOMAIN c : i \in DOMAIN more /\ i # Len(c) + 1
        /\ \A i \in DOMAIN more : i \in DOMAIN c \/ i = Len(c) + 1
        /\ Len(c) + 1 \in DOMAIN more
    BY <2>7
  <2> HIDE DEF more, old, last, new, V
  <2>9. NoneIn(more, S) => new = <<>>
    <3> SUFFICES ASSUME NoneIn(more, S) PROVE new = <<>>
      OBVIOUS
    <3>1. NoneIn(c, S) /\ last = <<>>
      BY <2>7, <2>8 DEF NoneIn, last
    <3> QED BY <2>3, <2>5, <2>6, <3>1 DEF old
  <2>10. ASSUME NEW m \in DOMAIN more, OnlyIn(more, S, m) PROVE new = Those(more[m], S)
    <3>1. CASE m = Len(c) + 1
      <4>1. NoneIn(c, S)
        BY <2>7, <2>8, <2>10, <3>1 DEF NoneIn, OnlyIn
      <4>2. old = <<>>
        BY <2>6, <4>1 DEF old
      <4> QED BY <2>3, <2>5, <2>7, <3>1, <4>2 DEF last
    <3>2. CASE m \in DOMAIN c
      <4>1. OnlyIn(c, S, m) /\ last = <<>>
        BY <2>7, <2>8, <2>10, <3>2 DEF OnlyIn, last
      <4>2. old = Those(c[m], S)
        BY <2>6, <3>2, <4>1 DEF old
      <4> QED BY <2>3, <2>5, <2>7, <3>2, <4>1, <4>2
    <3> QED BY <2>8, <3>1, <3>2
  <2>11. Holds(more)
    BY <2>9, <2>10 DEF new
  <2> HIDE DEF Holds
  <2> QED BY <2>7, <2>11 DEF more
<1>3. Seq(V) \subseteq P
  <2> HIDE DEF V, P
  <2> QED BY <1>1, <1>2, AppendInduction
<1>4. segments \in Seq(V)
  OBVIOUS
<1>5. Holds(segments)
  <2> HIDE DEF V, Holds
  <2> QED BY <1>3, <1>4
<1> QED BY <1>5

LEMMA KeysOfDiffer ==
  ASSUME NEW definition \in DefinitionType, NEW kinds
  PROVE  /\ KeysDiffer(KeysOf(definition, kinds))
         /\ \A k : k \in ToSet(KeysOf(definition, kinds))
                     <=> k \in ToSet(definition.keys) /\ k.kind \in kinds
<1> DEFINE keys == definition.keys
           S == {k \in ToSet(keys) : k.kind \in kinds}
           picked == Those(keys, S)
<1>1. keys \in Seq(KeyDefinition) /\ KeysDiffer(keys)
  BY DEF DefinitionType
<1>2. KeysOf(definition, kinds) = picked
  BY DEF KeysOf
<1>3. \A k : k \in S <=> k \in ToSet(keys) /\ k.kind \in kinds
  OBVIOUS
<1> HIDE DEF keys, S
<1>4. Picked(keys, S, picked)
  BY <1>1, ThosePicked
<1>5. IsInjective(keys)
  BY <1>1 DEF KeysDiffer, IsInjective
<1> HIDE DEF picked
<1>6. KeysDiffer(picked)
  <2> SUFFICES ASSUME NEW i \in DOMAIN picked, NEW j \in DOMAIN picked,
                      \/ picked[i].name = picked[j].name
                      \/ {picked[i].kind, picked[j].kind} = {"PRIMARY KEY"}
               PROVE  i = j
    BY Zenon DEF KeysDiffer
  <2>1. PICK k \in DOMAIN keys : keys[k] = picked[i]
    BY <1>4 DEF Picked
  <2>2. PICK l \in DOMAIN keys : keys[l] = picked[j]
    BY <1>4 DEF Picked
  <2>3. k = l
    BY <1>1, <2>1, <2>2, Zenon DEF KeysDiffer
  <2>4. picked[i] = picked[j]
    BY <2>1, <2>2, <2>3
  <2> QED BY <1>4, <1>5, <2>4 DEF Picked, IsInjective
<1>7. \A k : k \in ToSet(picked) <=> k \in S
  BY <1>3, <1>4 DEF Picked, ToSet
<1> QED BY <1>2, <1>3, <1>6, <1>7 DEF keys

\* The rows of one constraint.
OfID(id) == {row \in KeyRow : ID(row) = id}

LEMMA RowsOfKeyPart ==
  ASSUME IsDatabase(catalog), NEW t \in DOMAIN catalog, NEW k \in KeyDefinition,
         k.kind \in KeyKinds, NEW u, NEW name
  PROVE  Those(RowsOfKey(t, k), OfID(<<u, name>>)) =
           IF t = u /\ k.name = name THEN RowsOfKey(t, k) ELSE <<>>
<1> DEFINE rows == RowsOfKey(t, k)
           S == OfID(<<u, name>>)
<1>1. rows \in Seq(KeyRow)
  BY RowsOfKeyType
<1>2. \A j \in DOMAIN rows : ID(rows[j]) = <<t, k.name>>
  BY DEF RowsOfKey, ID
<1> HIDE DEF rows
<1>3. \A j \in DOMAIN rows : rows[j] \in S <=> <<t, k.name>> = <<u, name>>
  BY <1>1, <1>2 DEF OfID
<1>4. <<t, k.name>> = <<u, name>> <=> t = u /\ k.name = name
  OBVIOUS
<1> HIDE DEF S
<1>5. CASE t = u /\ k.name = name
  <2>1. \A j \in DOMAIN rows : rows[j] \in S
    BY <1>3, <1>4, <1>5
  <2>2. Those(rows, S) = rows
    BY <1>1, <2>1, ThoseAll
  <2> QED BY <1>5, <2>2 DEF rows, S
<1>6. CASE ~(t = u /\ k.name = name)
  <2>1. \A j \in DOMAIN rows : rows[j] \notin S
    BY <1>3, <1>4, <1>6
  <2>2. Those(rows, S) = <<>>
    BY <1>1, <2>1, ThoseNone
  <2> QED BY <1>6, <2>2, Zenon DEF rows, S
<1> QED BY <1>5, <1>6

LEMMA RowsOfTablePart ==
  ASSUME IsDatabase(catalog), NEW t \in DOMAIN catalog, NEW u, NEW name
  PROVE  LET keys == KeysOf(catalog[t], KeyKinds)
         IN /\ (\A m \in DOMAIN keys : ~(t = u /\ keys[m].name = name)) =>
                 Those(RowsOfTable(t), OfID(<<u, name>>)) = <<>>
            /\ \A m \in DOMAIN keys :
                 t = u /\ keys[m].name = name =>
                   Those(RowsOfTable(t), OfID(<<u, name>>)) = RowsOfKey(t, keys[m])
<1> DEFINE keys == KeysOf(catalog[t], KeyKinds)
           segments == [i \in DOMAIN keys |-> RowsOfKey(t, keys[i])]
           S == OfID(<<u, name>>)
<1>1. t \in TableNames /\ catalog[t] \in DefinitionType
  BY DEF IsDatabase
<1>2. keys \in Seq(KeyDefinition)
  BY <1>1, KeysOfType
<1>3. \A i \in DOMAIN keys : keys[i].kind \in KeyKinds
  BY <1>1, KeysOfType
<1>4. KeysDiffer(keys)
  BY <1>1, KeysOfDiffer
<1>5. RowsOfTable(t) = FlattenSeq(segments)
  BY DEF RowsOfTable
<1> HIDE DEF keys
<1>6. /\ Len(keys) \in Nat /\ DOMAIN keys = 1 .. Len(keys)
      /\ \A i \in DOMAIN keys : keys[i] \in KeyDefinition
  BY <1>2
<1>7. \A i \in DOMAIN keys :
        /\ segments[i] \in Seq(KeyRow)
        /\ Those(segments[i], S) =
             IF t = u /\ keys[i].name = name THEN RowsOfKey(t, keys[i]) ELSE <<>>
  BY <1>1, <1>3, <1>6, RowsOfKeyType, RowsOfKeyPart
<1>8. segments \in Seq(Seq(KeyRow)) /\ DOMAIN segments = DOMAIN keys
  <2> DEFINE V == Seq(KeyRow)
  <2>1. \A i \in DOMAIN keys : RowsOfKey(t, keys[i]) \in V
    BY <1>7
  <2> HIDE DEF V
  <2>2. segments \in [1 .. Len(keys) -> V]
    BY <1>6, <2>1
  <2> HIDE DEF segments
  <2>3. segments \in Seq(V) /\ DOMAIN segments = 1 .. Len(keys)
    BY <1>6, <2>2, Listed
  <2> QED BY <1>6, <2>3 DEF V
<1> HIDE DEF segments, S
<1>9. ASSUME \A m \in DOMAIN keys : ~(t = u /\ keys[m].name = name)
      PROVE  Those(RowsOfTable(t), S) = <<>>
  <2>1. NoneIn(segments, S)
    BY <1>7, <1>8, <1>9 DEF NoneIn
  <2> QED BY <1>5, <1>8, <2>1, ThoseOfOne
<1>10. ASSUME NEW m \in DOMAIN keys, t = u, keys[m].name = name
       PROVE  Those(RowsOfTable(t), S) = RowsOfKey(t, keys[m])
  <2>1. \A i \in DOMAIN keys : i # m => keys[i].name # name
    BY <1>4, <1>10, Zenon DEF KeysDiffer
  <2>2. OnlyIn(segments, S, m)
    BY <1>7, <1>8, <2>1 DEF OnlyIn
  <2>3. Those(FlattenSeq(segments), S) = Those(segments[m], S)
    BY <1>8, <1>10, <2>2, ThoseOfOne
  <2> QED BY <1>5, <1>7, <1>10, <2>3
<1> QED BY <1>9, <1>10, Zenon DEF keys, S

\* Grouping undoes the query: the group of a key is its rows, in their order.
LEMMA KeyGroup ==
  ASSUME IsDatabase(catalog), NEW t \in DOMAIN catalog,
         NEW m \in DOMAIN KeysOf(catalog[t], KeyKinds)
  PROVE  LET k == KeysOf(catalog[t], KeyKinds)[m]
         IN Group(KeyRows, <<t, k.name>>) = RowsOfKey(t, k)
<1> DEFINE k == KeysOf(catalog[t], KeyKinds)[m]
           id == <<t, k.name>>
           S == OfID(id)
           found == InCatalog(catalog)
           segments == [i \in DOMAIN found |-> RowsOfTable(found[i])]
<1>1. KeyRows \in Seq(KeyRow) /\ KeyRows = FlattenSeq(segments)
  BY KeyRowsType DEF Rows
<1>2. Group(KeyRows, id) = Those(KeyRows, S)
  <2> DEFINE rows == KeyRows
             R == {row \in ToSet(rows) : ID(row) = id}
  <2>1. rows \in Seq(KeyRow)
    BY <1>1
  <2> HIDE DEF rows, id
  <2>2. \A i \in DOMAIN rows : rows[i] \in R <=> rows[i] \in S
    BY <2>1 DEF OfID, ToSet
  <2> HIDE DEF S
  <2>3. Group(rows, id) = Those(rows, R)
    BY DEF Group
  <2> HIDE DEF R
  <2>4. Those(rows, R) = Those(rows, S)
    BY <2>2, ThoseSame
  <2> QED BY <2>3, <2>4 DEF rows
<1>3. /\ found \in Seq(TableNames) /\ IsInjective(found)
      /\ \A i \in DOMAIN found : found[i] \in DOMAIN catalog
  BY InCatalogTables
<1>4. PICK n \in DOMAIN found : found[n] = t
  BY InCatalogTables
<1> HIDE DEF found
<1>5. \A i \in DOMAIN found : i # n => found[i] # t
  BY <1>3, <1>4 DEF IsInjective
<1>6. \A i \in DOMAIN found : i # n => Those(RowsOfTable(found[i]), S) = <<>>
  BY <1>3, <1>5, RowsOfTablePart
<1>7. Those(RowsOfTable(t), S) = RowsOfKey(t, k)
  BY RowsOfTablePart
<1>8. segments \in Seq(Seq(KeyRow)) /\ DOMAIN segments = DOMAIN found
      /\ \A i \in DOMAIN found : segments[i] = RowsOfTable(found[i])
  <2> DEFINE V == Seq(KeyRow)
  <2>1. \A i \in DOMAIN found : RowsOfTable(found[i]) \in V
    BY <1>3, RowsOfTableType
  <2>2. Len(found) \in Nat /\ DOMAIN found = 1 .. Len(found)
    BY <1>3
  <2> HIDE DEF V
  <2>3. segments \in [1 .. Len(found) -> V]
    BY <2>1, <2>2
  <2>4. \A i \in DOMAIN found : segments[i] = RowsOfTable(found[i])
    OBVIOUS
  <2> HIDE DEF segments
  <2>5. segments \in Seq(V) /\ DOMAIN segments = 1 .. Len(found)
    BY <2>2, <2>3, Listed
  <2> QED BY <2>2, <2>4, <2>5 DEF V
<1> HIDE DEF segments, S
<1>9. OnlyIn(segments, S, n)
  BY <1>6, <1>8 DEF OnlyIn
<1>10. Those(FlattenSeq(segments), S) = Those(segments[n], S)
  BY <1>4, <1>8, <1>9, ThoseOfOne
<1>11. Those(KeyRows, S) = RowsOfKey(t, k)
  BY <1>1, <1>4, <1>7, <1>8, <1>10
<1> QED BY <1>2, <1>11, Zenon

\* The groups are the keys, each by its table and name.
IsKey(t, k) == t \in DOMAIN catalog /\ k \in ToSet(catalog[t].keys) /\ k.kind \in KeyKinds

LEMMA KeyIsGroup ==
  ASSUME IsDatabase(catalog), NEW t, NEW k, IsKey(t, k)
  PROVE  /\ t \in TableNames /\ k \in KeyDefinition
         /\ Group(KeyRows, <<t, k.name>>) = RowsOfKey(t, k)
         /\ <<t, k.name>> \in Groups(KeyRows)
<1> DEFINE keys == KeysOf(catalog[t], KeyKinds)
           id == <<t, k.name>>
           S == {row \in ToSet(KeyRows) : ID(row) = id}
<1>1. t \in TableNames /\ catalog[t] \in DefinitionType /\ t \in DOMAIN catalog
  BY DEF IsDatabase, IsKey
<1>2. k \in ToSet(keys)
  BY <1>1, KeysOfDiffer DEF IsKey
<1>3. keys \in Seq(KeyDefinition)
  BY <1>1, KeysOfType
<1>4. PICK m \in DOMAIN keys : keys[m] = k
  BY <1>2 DEF ToSet
<1>5. k \in KeyDefinition
  <2> HIDE DEF keys
  <2> QED BY <1>3, <1>4
<1>6. Group(KeyRows, id) = RowsOfKey(t, k)
  BY <1>1, <1>4, KeyGroup
<1>7. 1 \in DOMAIN RowsOfKey(t, k)
  <2>1. UsedColumns(t, k) \in Seq(Identifier) /\ UsedColumns(t, k) # <<>>
    BY <1>1, <1>5, ColumnsUsed DEF IsKey, ColumnList
  <2>2. 1 \in DOMAIN UsedColumns(t, k)
    BY <2>1
  <2> QED BY <2>2 DEF RowsOfKey
<1>8. Picked(KeyRows, S, Group(KeyRows, id))
  <2>1. KeyRows \in Seq(KeyRow)
    BY KeyRowsType
  <2>2. Group(KeyRows, id) = Those(KeyRows, S)
    BY DEF Group
  <2> HIDE DEF S
  <2> QED BY <2>1, <2>2, ThosePicked
<1>9. \A row \in S : ID(row) = id
  OBVIOUS
<1> HIDE DEF S, id
<1>10. PICK j \in DOMAIN KeyRows : KeyRows[j] = Group(KeyRows, id)[1]
  BY <1>6, <1>7, <1>8 DEF Picked
<1>11. ID(KeyRows[j]) = id
  BY <1>6, <1>7, <1>8, <1>9, <1>10 DEF Picked
<1>12. id \in Groups(KeyRows)
  BY <1>11 DEF Groups
<1> QED BY <1>1, <1>5, <1>6, <1>12 DEF id

LEMMA GroupIsKey ==
  ASSUME IsDatabase(catalog), NEW id \in Groups(KeyRows)
  PROVE  \E t, k : IsKey(t, k) /\ id = <<t, k.name>>
<1> DEFINE found == InCatalog(catalog)
           segments == [i \in DOMAIN found |-> RowsOfTable(found[i])]
           S == OfID(id)
           R == {row \in ToSet(KeyRows) : ID(row) = id}
<1>1. KeyRows \in Seq(KeyRow) /\ KeyRows = FlattenSeq(segments)
  BY KeyRowsType DEF Rows
<1>2. PICK j \in DOMAIN KeyRows : ID(KeyRows[j]) = id
  BY DEF Groups
<1>3. KeyRows[j] \in S
  BY <1>1, <1>2 DEF OfID
<1>4. PICK u, name : id = <<u, name>>
  BY <1>2 DEF ID
<1>5. found \in Seq(TableNames) /\ \A i \in DOMAIN found : found[i] \in DOMAIN catalog
  BY InCatalogTables
<1>6. SUFFICES ASSUME \A t, k : ~(IsKey(t, k) /\ id = <<t, k.name>>) PROVE FALSE
  OBVIOUS
<1>7. ASSUME NEW t \in DOMAIN catalog PROVE Those(RowsOfTable(t), S) = <<>>
  <2> DEFINE keys == KeysOf(catalog[t], KeyKinds)
  <2>1. catalog[t] \in DefinitionType
    BY DEF IsDatabase
  <2>2. \A m \in DOMAIN keys : IsKey(t, keys[m])
    <3>1. \A m \in DOMAIN keys : keys[m] \in ToSet(keys)
      BY DEF ToSet
    <3>2. \A k \in ToSet(keys) : IsKey(t, k)
      BY <2>1, KeysOfDiffer DEF IsKey
    <3> QED BY <3>1, <3>2
  <2>3. \A m \in DOMAIN keys : ~(t = u /\ keys[m].name = name)
    BY <1>4, <1>6, <2>2
  <2>4. Those(RowsOfTable(t), OfID(<<u, name>>)) = <<>>
    BY <2>3, RowsOfTablePart
  <2> QED BY <1>4, <2>4
<1>8. segments \in Seq(Seq(KeyRow)) /\ DOMAIN segments = DOMAIN found
      /\ \A i \in DOMAIN found : segments[i] = RowsOfTable(found[i])
  <2> DEFINE V == Seq(KeyRow)
  <2>1. \A i \in DOMAIN found : RowsOfTable(found[i]) \in V
    BY <1>5, RowsOfTableType
  <2>2. Len(found) \in Nat /\ DOMAIN found = 1 .. Len(found)
    BY <1>5
  <2> HIDE DEF V, found
  <2>3. segments \in [1 .. Len(found) -> V]
    BY <2>1, <2>2
  <2>4. \A i \in DOMAIN found : segments[i] = RowsOfTable(found[i])
    OBVIOUS
  <2> HIDE DEF segments
  <2>5. segments \in Seq(V) /\ DOMAIN segments = 1 .. Len(found)
    BY <2>2, <2>3, Listed
  <2> QED BY <2>2, <2>4, <2>5 DEF V
<1> HIDE DEF segments, S, found
<1>9. NoneIn(segments, S)
  BY <1>5, <1>7, <1>8 DEF NoneIn
<1>10. Those(KeyRows, S) = <<>>
  BY <1>1, <1>8, <1>9, ThoseOfOne
<1>11. Picked(KeyRows, S, Those(KeyRows, S))
  BY <1>1, ThosePicked
<1>12. \E i \in DOMAIN Those(KeyRows, S) : TRUE
  BY <1>3, <1>11 DEF Picked
<1> QED BY <1>10, <1>12

\* Keys of one table are the same when their names are, or both are primary.
LEMMA SameKey ==
  ASSUME IsDatabase(catalog), NEW t, NEW k, NEW l, IsKey(t, k), IsKey(t, l),
         k.name = l.name \/ (k.kind = "PRIMARY KEY" /\ l.kind = "PRIMARY KEY")
  PROVE  k = l
<1>1. KeysDiffer(catalog[t].keys)
  BY DEF IsDatabase, IsKey, DefinitionType
<1>2. PICK i \in DOMAIN catalog[t].keys : catalog[t].keys[i] = k
  BY DEF IsKey, ToSet
<1>3. PICK j \in DOMAIN catalog[t].keys : catalog[t].keys[j] = l
  BY DEF IsKey, ToSet
<1>4. i = j
  <2>1. k.kind = "PRIMARY KEY" /\ l.kind = "PRIMARY KEY" => {k.kind, l.kind} = {"PRIMARY KEY"}
    OBVIOUS
  <2> QED BY <1>1, <1>2, <1>3, <2>1, Zenon DEF KeysDiffer
<1> QED BY <1>2, <1>3, <1>4

\* The column lists of those keys of a table, of a kind, whose groups are in ids.
Filed(name, kind, ids) ==
  {c \in ColumnList : \E k : /\ IsKey(name, k) /\ k.kind = kind
                             /\ <<name, k.name>> \in ids /\ UsedColumns(name, k) = c}

LEMMA KeyColumns ==
  ASSUME IsDatabase(catalog), NEW t, NEW k, IsKey(t, k)
  PROVE  k.columns \in ColumnList /\ UsedColumns(t, k) \in ColumnList
<1>1. k \in KeyDefinition
  BY KeyIsGroup
<1>2. k.columns \in ColumnList
  BY <1>1 DEF KeyDefinition, ColumnList, IsKey, KeyKinds
<1> QED BY <1>1, <1>2, ColumnsUsed DEF IsKey

WithKey(ids, t, k, all) == all = ids \union {<<t, k.name>>}

LEMMA FiledOwn ==
  ASSUME IsDatabase(catalog), NEW t, NEW k, IsKey(t, k), NEW ids, NEW all, WithKey(ids, t, k, all)
  PROVE  /\ Filed(t, k.kind, all) = Filed(t, k.kind, ids) \union {UsedColumns(t, k)}
         /\ k.kind = "PRIMARY KEY" => Filed(t, "PRIMARY KEY", ids) \subseteq {UsedColumns(t, k)}
<1> DEFINE id == <<t, k.name>>
<1>1. UsedColumns(t, k) \in ColumnList /\ all = ids \union {id}
  BY KeyColumns DEF WithKey
<1>2. \A l : IsKey(t, l) /\ <<t, l.name>> = id => l = k
  BY SameKey
<1>3. \A l : k.kind = "PRIMARY KEY" /\ IsKey(t, l) /\ l.kind = "PRIMARY KEY" => l = k
  BY SameKey
<1>4. Filed(t, k.kind, all) = Filed(t, k.kind, ids) \union {UsedColumns(t, k)}
  <2>1. <<t, k.name>> = id
    OBVIOUS
  <2> HIDE DEF id
  <2> QED BY <1>1, <1>2, <2>1 DEF Filed
<1>5. k.kind = "PRIMARY KEY" => Filed(t, "PRIMARY KEY", ids) \subseteq {UsedColumns(t, k)}
  BY <1>3 DEF Filed
<1> QED BY <1>4, <1>5

LEMMA FiledOther ==
  ASSUME IsDatabase(catalog), NEW t, NEW k, IsKey(t, k), NEW ids, NEW all, WithKey(ids, t, k, all),
         NEW name, NEW kind, ~(name = t /\ kind = k.kind)
  PROVE  Filed(name, kind, all) = Filed(name, kind, ids)
<1> DEFINE id == <<t, k.name>>
<1>1. all = ids \union {id}
  BY DEF WithKey
<1>2. ASSUME NEW l, IsKey(name, l), l.kind = kind PROVE <<name, l.name>> # id
  <2>1. name = t /\ l.name = k.name => l = k
    BY <1>2, SameKey
  <2> QED BY <1>2, <2>1
<1> HIDE DEF id
<1> QED BY <1>1, <1>2 DEF Filed

\* Every table, the first only when it is settled, has the keys in ids.
FiledIn(tables, ids) ==
  \A i \in DOMAIN tables : Settled(tables, i) =>
    /\ ToSet(tables[i].primaryKey) = Filed(tables[i].name, "PRIMARY KEY", ids)
    /\ ToSet(tables[i].uniqueKeys) = Filed(tables[i].name, "UNIQUE", ids)

LEMMA SameSettled ==
  ASSUME NEW tables \in Seq(TableRead), NEW new \in Seq(TableRead), SameTables(tables, new)
  PROVE  /\ DOMAIN new = DOMAIN tables
         /\ \A i \in DOMAIN tables : Settled(new, i) => Settled(tables, i)
<1> DEFINE T == TableRead
<1>1. tables \in Seq(T) /\ new \in Seq(T) /\ Len(new) = Len(tables)
  BY DEF SameTables
<1> HIDE DEF T
<1>2. DOMAIN new = DOMAIN tables
  BY <1>1
<1>3. \A i \in DOMAIN tables : new[i].name = tables[i].name
  BY DEF SameTables
<1>4. {new[j].name : j \in DOMAIN new} \subseteq {tables[j].name : j \in DOMAIN tables}
  BY <1>2, <1>3
<1> QED BY <1>2, <1>4 DEF Settled

\* Where the keys of a table are filed: a settled table takes its own only.
LEMMA IndexOfTable ==
  ASSUME NEW tables \in Seq(TableRead), tables # <<>>, NEW t \in DOMAIN catalog,
         \A i, j \in DOMAIN tables : tables[i].name = tables[j].name => i = j,
         NEW i \in DOMAIN tables, Settled(tables, i)
  PROVE  i = Index(tables, t) <=> tables[i].name = t
<1>1. CASE \E j \in DOMAIN tables : tables[j].name = t
  <2>1. Index(tables, t) \in DOMAIN tables /\ tables[Index(tables, t)].name = t
    BY <1>1 DEF Index
  <2> QED BY <2>1
<1>2. CASE ~ \E j \in DOMAIN tables : tables[j].name = t
  <2>1. Index(tables, t) = 1
    BY <1>2, Zenon DEF Index
  <2>2. ~(DOMAIN catalog \subseteq {tables[j].name : j \in DOMAIN tables})
    BY <1>2
  <2>3. i > 1
    BY <2>2 DEF Settled
  <2> QED BY <1>2, <2>1, <2>3
<1> QED BY <1>1, <1>2

\* What AddKey does with the group of a key.
LEMMA AddKeyFiles ==
  ASSUME IsDatabase(catalog), NEW t, NEW k, IsKey(t, k), NEW tables \in Seq(TableRead)
  PROVE  AddKey(KeyRows, tables, <<t, k.name>>) =
           IF k.kind = "PRIMARY KEY" THEN SetPrimaryKey(tables, Index(tables, t), UsedColumns(t, k))
           ELSE AddUniqueKey(tables, Index(tables, t), UsedColumns(t, k))
<1> DEFINE group == RowsOfKey(t, k)
<1>1. Group(KeyRows, <<t, k.name>>) = group
  BY KeyIsGroup
<1>2. UsedColumns(t, k) \in Seq(Identifier) /\ UsedColumns(t, k) # <<>>
  BY KeyColumns DEF ColumnList
<1>3. 1 \in DOMAIN UsedColumns(t, k)
  BY <1>2
<1>4. group[1].table = t /\ group[1].kind = k.kind
  BY <1>3 DEF RowsOfKey
<1>5. ColumnsIn(group) = UsedColumns(t, k)
  <2> DEFINE columns == UsedColumns(t, k)
  <2>1. DOMAIN group = DOMAIN columns /\ \A j \in DOMAIN columns : group[j].column = columns[j]
    BY DEF RowsOfKey
  <2>2. columns = [j \in DOMAIN columns |-> columns[j]]
    BY <1>2
  <2> HIDE DEF columns, group
  <2>3. ColumnsIn(group) = columns
    BY <2>1, <2>2 DEF ColumnsIn
  <2> QED BY <2>3 DEF columns
<1> HIDE DEF group
<1> QED BY <1>1, <1>4, <1>5, Zenon DEF AddKey

LEMMA FiledStep ==
  ASSUME IsDatabase(catalog), NEW tables \in Seq(TableRead), tables # <<>>,
         \A i, j \in DOMAIN tables : tables[i].name = tables[j].name => i = j,
         NEW ids, FiledIn(tables, ids), NEW id \in Groups(KeyRows)
  PROVE  FiledIn(AddKey(KeyRows, tables, id), ids \union {id})
<1> DEFINE new == AddKey(KeyRows, tables, id)
           all == ids \union {id}
<1>1. PICK t, k : IsKey(t, k) /\ id = <<t, k.name>>
  BY GroupIsKey
<1>2. new \in Seq(TableRead) /\ SameTables(tables, new)
  BY KeyRowsType, AddKeyType
<1> DEFINE p == Index(tables, t)
<1>3. p \in DOMAIN tables
  BY IndexInDomain
<1>4. UsedColumns(t, k) \in ColumnList /\ k.kind \in KeyKinds
  BY <1>1, KeyColumns DEF IsKey
<1>5. /\ \A i \in DOMAIN tables : i # p => new[i] = tables[i]
      /\ k.kind = "PRIMARY KEY" =>
           new[p].primaryKey = <<UsedColumns(t, k)>> /\ new[p].uniqueKeys = tables[p].uniqueKeys
      /\ k.kind # "PRIMARY KEY" =>
           /\ new[p].primaryKey = tables[p].primaryKey
           /\ new[p].uniqueKeys = Append(tables[p].uniqueKeys, UsedColumns(t, k))
  <2> HIDE DEF p
  <2>1. \A i \in DOMAIN tables : tables[i] \in TableRead
    <3> DEFINE T == TableRead
    <3>1. tables \in Seq(T)
      OBVIOUS
    <3> HIDE DEF T
    <3>2. \A i \in DOMAIN tables : tables[i] \in T
      BY <3>1
    <3> QED BY <3>2 DEF T
  <2>2. DOMAIN tables[p] = {"name", "columns", "primaryKey", "uniqueKeys", "foreignKeys"}
    BY <1>3, <2>1 DEF TableRead
  <2>3. CASE k.kind = "PRIMARY KEY"
    <3>1. new = SetPrimaryKey(tables, p, UsedColumns(t, k))
      BY <1>1, <2>3, AddKeyFiles DEF p
    <3> HIDE DEF new
    <3> QED BY <1>3, <2>2, <2>3, <3>1 DEF SetPrimaryKey
  <2>4. CASE k.kind # "PRIMARY KEY"
    <3>1. new = AddUniqueKey(tables, p, UsedColumns(t, k))
      BY <1>1, <2>4, AddKeyFiles DEF p
    <3> HIDE DEF new
    <3> QED BY <1>3, <2>2, <2>4, <3>1 DEF AddUniqueKey
  <2> QED BY <2>3, <2>4
<1>6. /\ DOMAIN new = DOMAIN tables
      /\ \A i \in DOMAIN tables : Settled(new, i) => Settled(tables, i)
      /\ \A i \in DOMAIN tables : new[i].name = tables[i].name
  BY <1>2, SameSettled DEF SameTables
<1>7. /\ Filed(t, k.kind, all) = Filed(t, k.kind, ids) \union {UsedColumns(t, k)}
      /\ \A name, kind :
           ~(name = t /\ kind = k.kind) => Filed(name, kind, all) = Filed(name, kind, ids)
  <2> HIDE DEF new, p
  <2>1. WithKey(ids, t, k, all)
    BY <1>1 DEF WithKey
  <2> HIDE DEF all
  <2>2. Filed(t, k.kind, all) = Filed(t, k.kind, ids) \union {UsedColumns(t, k)}
    BY <1>1, <2>1, FiledOwn
  <2>3. ASSUME NEW name, NEW kind, ~(name = t /\ kind = k.kind)
        PROVE  Filed(name, kind, all) = Filed(name, kind, ids)
    BY <1>1, <2>1, <2>3, FiledOther
  <2> QED BY <2>2, <2>3
<1>8. k.kind = "PRIMARY KEY" => Filed(t, "PRIMARY KEY", ids) \subseteq {UsedColumns(t, k)}
  <2>1. WithKey(ids, t, k, all)
    BY <1>1 DEF WithKey
  <2> HIDE DEF all, new, p
  <2> QED BY <1>1, <2>1, FiledOwn
<1>9. \A i \in DOMAIN tables : Settled(tables, i) => (i = p <=> tables[i].name = t)
  BY <1>1, IndexOfTable DEF IsKey
<1>10. tables[p].uniqueKeys \in Seq(ColumnList)
  <2> DEFINE T == TableRead
  <2>1. tables \in Seq(T)
    OBVIOUS
  <2> HIDE DEF T, p
  <2>2. tables[p] \in T
    BY <1>3, <2>1
  <2> QED BY <2>2 DEF T, TableRead
<1> HIDE DEF new, all, p
<1>11. SUFFICES ASSUME NEW i \in DOMAIN tables, Settled(tables, i)
                PROVE  /\ ToSet(new[i].primaryKey) = Filed(tables[i].name, "PRIMARY KEY", all)
                       /\ ToSet(new[i].uniqueKeys) = Filed(tables[i].name, "UNIQUE", all)
  BY <1>6 DEF FiledIn, new, all
<1>12. /\ ToSet(tables[i].primaryKey) = Filed(tables[i].name, "PRIMARY KEY", ids)
       /\ ToSet(tables[i].uniqueKeys) = Filed(tables[i].name, "UNIQUE", ids)
  BY <1>11 DEF FiledIn
<1>13. CASE i # p
  BY <1>5, <1>7, <1>9, <1>11, <1>12, <1>13
<1>14. CASE i = p /\ k.kind = "PRIMARY KEY"
  <2>1. ToSet(<<UsedColumns(t, k)>>) = {UsedColumns(t, k)}
    BY DEF ToSet
  <2>2. Filed(t, "PRIMARY KEY", all) = {UsedColumns(t, k)}
    BY <1>7, <1>8, <1>14
  <2> QED BY <1>5, <1>7, <1>9, <1>11, <1>12, <1>14, <2>1, <2>2
<1>15. CASE i = p /\ k.kind = "UNIQUE"
  <2>1. ToSet(Append(tables[p].uniqueKeys, UsedColumns(t, k))) =
          ToSet(tables[p].uniqueKeys) \union {UsedColumns(t, k)}
    <3> DEFINE lists == tables[p].uniqueKeys
               c == UsedColumns(t, k)
    <3>1. lists \in Seq(ColumnList) /\ c \in ColumnList
      BY <1>4, <1>10
    <3> HIDE DEF lists, c
    <3>2. /\ DOMAIN lists = 1 .. Len(lists) /\ DOMAIN Append(lists, c) = 1 .. Len(lists) + 1
          /\ Append(lists, c)[Len(lists) + 1] = c /\ Len(lists) \in Nat
          /\ \A j \in DOMAIN lists : Append(lists, c)[j] = lists[j]
      BY <3>1
    <3>3. ToSet(Append(lists, c)) = ToSet(lists) \union {c}
      BY <3>2 DEF ToSet
    <3> QED BY <3>3 DEF lists, c
  <2> QED BY <1>5, <1>7, <1>9, <1>11, <1>12, <1>15, <2>1
<1> QED BY <1>4, <1>13, <1>14, <1>15 DEF KeyKinds

\* The groups that the first n steps of the walk have added.
Taken(order, n) == {order[j] : j \in 1 .. n}

LEMMA FiledWalk ==
  ASSUME IsDatabase(catalog), NEW tables \in Seq(TableRead), OnceEach(tables, <<>>),
         NEW order \in Seq(Groups(KeyRows)), NEW f, KeysWalk(f, KeyRows, tables, order),
         FiledIn(tables, {})
  PROVE  FiledIn(f[Len(order)], Taken(order, Len(order)))
<1> DEFINE P == {n \in Nat : n \in 0 .. Len(order) => FiledIn(f[n], Taken(order, n))}
<1>1. Len(order) \in Nat /\ \A n \in 1 .. Len(order) : order[n] \in Groups(KeyRows)
  OBVIOUS
<1>2. 0 \in P
  <2>1. Taken(order, 0) = {}
    BY DEF Taken
  <2>2. f[0] = tables
    BY DEF KeysWalk
  <2> QED BY <2>1, <2>2
<1>3. ASSUME NEW n \in Nat, n \in P, n + 1 \in 0 .. Len(order)
      PROVE  FiledIn(f[n + 1], Taken(order, n + 1))
  <2>1. n \in 0 .. Len(order) /\ n + 1 \in 1 .. Len(order) /\ (n + 1) - 1 = n
    BY <1>1, <1>3
  <2>2. f[n] \in Alike(tables) /\ f[n + 1] \in Alike(tables)
    BY <1>3, <2>1 DEF KeysWalk
  <2>3. f[n + 1] = AddKey(KeyRows, f[n], order[n + 1])
    BY <2>1 DEF KeysWalk
  <2>4. Taken(order, n + 1) = Taken(order, n) \union {order[n + 1]}
    <3>1. \A j : j \in 1 .. n + 1 <=> j \in 1 .. n \/ j = n + 1
      OBVIOUS
    <3> QED BY <3>1 DEF Taken
  <2>5. FiledIn(f[n], Taken(order, n)) /\ order[n + 1] \in Groups(KeyRows)
    BY <1>1, <1>3, <2>1
  <2>6. /\ f[n] \in Seq(TableRead) /\ SameTables(tables, f[n])
        /\ f[n + 1] \in Seq(TableRead) /\ SameTables(tables, f[n + 1])
    BY <2>2 DEF Alike
  <2>7. CASE tables = <<>>
    <3>1. Len(f[n + 1]) = 0
      BY <2>6, <2>7 DEF SameTables
    <3>2. DOMAIN f[n + 1] = {}
      <4> DEFINE T == TableRead
                 t == f[n + 1]
      <4>1. t \in Seq(T) /\ Len(t) = 0
        BY <2>6, <3>1
      <4> HIDE DEF T, t
      <4>2. DOMAIN t = {}
        BY <4>1
      <4> QED BY <4>2 DEF t
    <3> QED BY <3>2 DEF FiledIn
  <2>8. CASE tables # <<>>
    <3>1. OnceEach(f[n], <<>>) /\ f[n] # <<>>
      BY <2>6, <2>8, SameOnce
    <3>2. \A i, j \in DOMAIN f[n] : f[n][i].name = f[n][j].name => i = j
      BY <3>1 DEF OnceEach
    <3>3. FiledIn(AddKey(KeyRows, f[n], order[n + 1]), Taken(order, n) \union {order[n + 1]})
      BY <2>5, <2>6, <3>1, <3>2, FiledStep
    <3> QED BY <2>3, <2>4, <3>3
  <2> QED BY <2>7, <2>8
<1>4. \A n \in Nat : n \in P => n + 1 \in P
  BY <1>3
<1> HIDE DEF P
<1>5. Nat \subseteq P
  BY <1>2, <1>4, NatSetInduction
<1> QED BY <1>1, <1>5 DEF P

\* The walk takes every group.
LEMMA AllTaken ==
  ASSUME NEW T, NEW rows \in Seq(T), NEW order \in SetToSeqs(Groups(rows))
  PROVE  Taken(order, Len(order)) = Groups(rows)
<1> DEFINE S == Groups(rows)
<1>1. IsFiniteSet(S)
  <2> DEFINE f == [i \in DOMAIN rows |-> ID(rows[i])]
  <2>1. \A id \in S : \E i \in DOMAIN rows : f[i] = id
    BY DEF Groups
  <2>2. IsFiniteSet(DOMAIN rows)
    BY FiniteRange
  <2> HIDE DEF f, S
  <2> QED BY <2>1, <2>2, FiniteCover
<1>2. Cardinality(S) \in Nat
  BY <1>1, FS_CardinalityType
<1>3. /\ order \in [1 .. Cardinality(S) -> S]
      /\ \A i, j \in 1 .. Cardinality(S) : i # j => order[i] # order[j]
  BY DEF SetToSeqs
<1> HIDE DEF S
<1>4. order \in Seq(S) /\ Len(order) = Cardinality(S) /\ DOMAIN order = 1 .. Cardinality(S)
  BY <1>2, <1>3, Listed
<1>5. Cardinality(ToSet(order)) = Len(order)
  <2>1. IsInjective(order)
    BY <1>3, <1>4 DEF IsInjective
  <2> QED BY <1>4, <2>1, DistinctCount
<1>6. ToSet(order) = Taken(order, Len(order))
  BY <1>4 DEF ToSet, Taken
<1>7. ToSet(order) \subseteq S
  BY <1>3, <1>4 DEF ToSet
<1>8. ToSet(order) = S
  BY <1>1, <1>4, <1>5, <1>7, FS_Subset
<1> QED BY <1>6, <1>8 DEF S

\* The catalog is one that the database accepts, and the three queries are
\* those of PostgreSQL and MySQL.
CatalogInv ==
  /\ Consistent(catalog) /\ dialect \in {"postgresql", "mysql", "sqlite"}
  /\ pc \in {"columns", "keys", "foreign"} => dialect # "sqlite"

\* What other sessions change leaves a catalog that the database accepts (the
\* dialect never changes), and information_schema is read of PostgreSQL and MySQL only.
THEOREM CatalogStaysConsistent == Spec => []CatalogInv
<1>1. Init => CatalogInv
  BY DEF Init, CatalogInit, IntrospectInit, InformationSchema, CatalogInv
<1>2. CatalogInv /\ [Next]_vars => CatalogInv'
  <2> SUFFICES ASSUME CatalogInv, [Next]_vars PROVE CatalogInv'
    OBVIOUS
  <2>1. CASE Reading /\ DDL /\ UNCHANGED <<introspectVars, source>>
    <3>1. PICK tables : Change(tables)
      BY <2>1 DEF DDL, Drop, Define
    <3>2. Consistent(tables) /\ catalog' = tables /\ UNCHANGED dialect
      BY <3>1 DEF Change
    <3>3. Consistent(catalog)'
      BY <3>2 DEF Consistent
    <3> QED BY <2>1, <3>2, <3>3 DEF CatalogInv, introspectVars
  <2>2. CASE ~(Reading /\ DDL /\ UNCHANGED <<introspectVars, source>>)
    <3>1. UNCHANGED <<catalog, dialect>>
      BY <2>2 DEF Next, vars, catalogVars, GenerateSource
    <3>2. Consistent(catalog)'
      BY ZenonT(40), <3>1 DEF CatalogInv, Consistent
    <3>3. pc' \in {"columns", "keys", "foreign"} => pc \in {"columns", "keys", "foreign"}
      BY <2>2 DEF Next, vars, introspectVars, Introspection, GenerateSource, ReadFails, ReadColumns,
             ReadKeys, ReadForeignKeys, Collect, ReadTableNames, ReadTable, ReadIndexList,
             ReadIndexColumns, FinishIndexes, ReadReferences, ResolveReferencedColumns
    <3> QED BY <3>1, <3>2, <3>3 DEF CatalogInv
  <2> QED BY <2>1, <2>2
<1> QED BY <1>1, <1>2, PTL DEF Spec

\* Only in MySQL a key shares its name with a foreign key of its table.
LEMMA NamesApart ==
  ASSUME CatalogInv, pc = "keys", dialect # "mysql", NEW t, NEW k, IsKey(t, k)
  PROVE  Namesakes(catalog[t], k) = {}
<1>1. dialect = "postgresql" /\ Consistent(catalog)
  BY DEF CatalogInv
<1> SUFFICES ASSUME NEW f \in Namesakes(catalog[t], k) PROVE FALSE
  OBVIOUS
<1>2. /\ t \in DOMAIN catalog /\ f \in ToSet(catalog[t].foreignKeys) /\ f.name = k.name
      /\ k \in {x \in ToSet(catalog[t].keys) : x.kind \in {"PRIMARY KEY", "UNIQUE"}}
  BY DEF IsKey, Namesakes, KeyKinds
<1>3. Constraint(t, k) \in KeyConstraints(catalog)
  <2> DEFINE of(u) == {Constraint(u, x) : x \in {y \in ToSet(catalog[u].keys) :
                                                  y.kind \in {"PRIMARY KEY", "UNIQUE"}}}
  <2>1. Constraint(t, k) \in of(t)
    BY <1>2
  <2>2. KeyConstraints(catalog) = UNION {of(u) : u \in DOMAIN catalog}
    BY DEF KeyConstraints
  <2> HIDE DEF of
  <2> QED BY <1>2, <2>1, <2>2
<1>4. [table |-> t, fk |-> f] \in References(catalog)
  <2> DEFINE of(u) == {[table |-> u, fk |-> x] : x \in ToSet(catalog[u].foreignKeys)}
  <2>1. [table |-> t, fk |-> f] \in of(t)
    BY <1>2
  <2>2. References(catalog) = UNION {of(u) : u \in DOMAIN catalog}
    BY DEF References
  <2> HIDE DEF of
  <2> QED BY <1>2, <2>1, <2>2
<1> DEFINE c == Constraint(t, k)
           r == [table |-> t, fk |-> f]
<1>5. c.table = t /\ c.name = k.name /\ r.table = t /\ r.fk.name = k.name
  BY <1>2 DEF Constraint
<1> HIDE DEF c, r
<1>6. c \in KeyConstraints(catalog) /\ r \in References(catalog)
  BY <1>3, <1>4 DEF c, r
<1> QED BY <1>1, <1>5, <1>6 DEF Consistent

\* With every group added, the keys are those of the catalog.
LEMMA AllFiled ==
  ASSUME IsDatabase(catalog), CatalogInv, pc = "keys", NEW name, NEW kind \in KeyKinds
  PROVE  KeysAre(Filed(name, kind, Groups(KeyRows)), Definition(name), {kind})
<1> DEFINE lists == Filed(name, kind, Groups(KeyRows))
<1>1. CASE name \in DOMAIN catalog
  <2> DEFINE now == catalog[name]
             keys == ToSet(KeysOf(now, {kind}))
  <2>1. Definition(name) = now /\ now \in DefinitionType
    BY <1>1 DEF Definition, IsDatabase
  <2>2. \A k : k \in ToSet(KeysOf(now, {kind})) <=> k \in ToSet(now.keys) /\ k.kind \in {kind}
    BY <2>1, KeysOfDiffer
  <2>3. \A k : k \in keys <=> IsKey(name, k) /\ k.kind = kind
    BY <1>1, <2>2 DEF IsKey
  <2>4. ASSUME NEW k, IsKey(name, k)
        PROVE  /\ UsedColumns(name, k) \in ColumnList
               /\ <<name, k.name>> \in Groups(KeyRows)
               /\ ReadAs(UsedColumns(name, k), now, k)
    <3>1. k \in KeyDefinition /\ <<name, k.name>> \in Groups(KeyRows)
      BY <2>4, KeyIsGroup
    <3>2. /\ UsedColumns(name, k) \in ColumnList
          /\ Namesakes(now, k) = {} => UsedColumns(name, k) = k.columns
          /\ Namesakes(now, k) # {} =>
               ToSet(UsedColumns(name, k)) =
                 ToSet(k.columns) \union UNION {ToSet(f.columns) : f \in Namesakes(now, k)}
      BY <1>1, <2>4, <3>1, ColumnsUsed DEF IsKey
    <3>3. dialect # "mysql" => Namesakes(now, k) = {}
      BY <2>4, NamesApart
    <3> QED BY <3>1, <3>2, <3>3 DEF ReadAs
  <2>5. \A columns : columns \in lists <=>
          columns \in ColumnList /\ \E k : IsKey(name, k) /\ k.kind = kind
            /\ <<name, k.name>> \in Groups(KeyRows) /\ UsedColumns(name, k) = columns
    BY DEF Filed
  <2> HIDE DEF lists, keys, now
  <2>6. \A k \in keys : \E columns \in lists : ReadAs(columns, now, k)
    BY <2>3, <2>4, <2>5
  <2>7. \A columns \in lists : \E k \in keys : ReadAs(columns, now, k)
    BY <2>3, <2>4, <2>5
  <2>8. KeysAre(lists, now, {kind})
    BY <2>6, <2>7 DEF KeysAre, keys
  <2> QED BY <2>1, <2>8 DEF lists
<1>2. CASE name \notin DOMAIN catalog
  <2>1. lists = {}
    BY <1>2 DEF Filed, IsKey
  <2> DEFINE none == [columns |-> <<>>, keys |-> <<>>, foreignKeys |-> <<>>]
  <2>2. Definition(name) = none
    BY <1>2, Zenon DEF Definition
  <2>3. KeysOf(none, {kind}) = <<>>
    <3>1. none.keys = <<>>
      OBVIOUS
    <3> HIDE DEF none
    <3> QED BY <3>1, ThoseEmpty DEF KeysOf
  <2>4. \A i \in DOMAIN <<>> : FALSE
    OBVIOUS
  <2>5. ToSet(<<>>) = {}
    BY <2>4 DEF ToSet
  <2> HIDE DEF none, lists
  <2>6. KeysAre(lists, none, {kind})
    BY <2>1, <2>3, <2>5 DEF KeysAre
  <2> QED BY <2>2, <2>6 DEF lists
<1> QED BY <1>1, <1>2

\* A table has no keys before the keys are read.
Blank(tables) ==
  \A i \in DOMAIN tables : tables[i].primaryKey = <<>> /\ tables[i].uniqueKeys = <<>>
BlankInv == pc = "keys" => Blank(result)

\* Nor has it another key before the keys are read: addColumns gives none.
THEOREM BlankUntilRead == Spec => []BlankInv
<1>1. Init => BlankInv
  BY DEF Init, IntrospectInit, BlankInv
<1>2. BlankInv /\ [Next]_vars => BlankInv'
  <2> SUFFICES ASSUME BlankInv, [Next]_vars, pc' = "keys" PROVE Blank(result')
    BY DEF BlankInv, Blank
  <2>1. (pc = "keys" /\ UNCHANGED result) \/ ReadColumns
    BY DEF Next, vars, introspectVars, Introspection, GenerateSource, ReadFails, ReadKeys,
           ReadForeignKeys, Collect, ReadTableNames, ReadTable, ReadIndexList, ReadIndexColumns,
           FinishIndexes, ReadReferences, ResolveReferencedColumns
  <2>2. CASE ReadColumns
    BY <2>2 DEF ReadColumns, Blank, Table
  <2> QED BY <2>1, <2>2 DEF BlankInv, Blank
<1> QED BY <1>1, <1>2, PTL DEF Spec

\* When PostgreSQL's or MySQL's keys have been read (readKeys and its grouping by
\* table and constraint name), every table has the keys that the catalog had at
\* that moment, in whatever order the map was walked; the first table only when
\* no table was created since the columns were read.  Their columns are the
\* catalog's, except that a key of MySQL that shares its name with a foreign key
\* of its table has the columns of both.
THEOREM KeysReachTheirTables == Spec => KeysWhereTheyBelong
<1> DEFINE A == pc = "keys" /\ pc' = "foreign" =>
                  \A i \in DOMAIN result' :
                    Settled(result', i) =>
                      LET now == Definition(result'[i].name)
                      IN /\ KeysAre(ToSet(result'[i].primaryKey), now, {"PRIMARY KEY"})
                         /\ KeysAre(ToSet(result'[i].uniqueKeys), now, {"UNIQUE"})
<1>1. IInv /\ BlankInv /\ CatalogInv /\ [Next]_vars => A
  <2> SUFFICES ASSUME IInv, BlankInv, CatalogInv, [Next]_vars, pc = "keys", pc' = "foreign"
               PROVE  FiledIn(result', Groups(KeyRows))
    BY AllFiled DEF FiledIn, IInv, Typed, KeyKinds
  <2>1. ReadKeys
    BY DEF Next, vars, introspectVars, Introspection, GenerateSource, ReadFails, ReadColumns,
           ReadForeignKeys, Collect, ReadTableNames, ReadTable, ReadIndexList, ReadIndexColumns,
           FinishIndexes, ReadReferences, ResolveReferencedColumns
  <2>2. IsDatabase(catalog) /\ result \in Seq(TableRead) /\ Blank(result)
    BY DEF IInv, Typed, BlankInv
  <2>0. PICK order \in SetToSeqs(Groups(KeyRows)) :
          \E f : KeysWalk(f, KeyRows, result, order) /\ result' = f[Len(order)]
    BY <2>1, <2>2, ReadKeysStep
  <2>3. PICK f : KeysWalk(f, KeyRows, result, order) /\ result' = f[Len(order)]
    BY <2>0
  <2>4. KeyRows \in Seq(KeyRow)
    BY <2>2, KeyRowsType
  <2>5. order \in Seq(Groups(KeyRows)) /\ Taken(order, Len(order)) = Groups(KeyRows)
    BY <2>4, OrdersOf, AllTaken
  <2>6. OnceEach(result, <<>>)
    <3>1. Unread = <<>>
      BY DEF Unread, Inside
    <3> QED BY <3>1 DEF IInv
  <2>7. FiledIn(result, {})
    <3>1. \A i \in DOMAIN <<>> : FALSE
      OBVIOUS
    <3>2. ToSet(<<>>) = {}
      BY <3>1 DEF ToSet
    <3>3. \A name, kind : Filed(name, kind, {}) = {}
      BY DEF Filed
    <3> QED BY <2>2, <3>2, <3>3 DEF FiledIn, Blank
  <2>8. FiledIn(f[Len(order)], Taken(order, Len(order)))
    BY <2>2, <2>3, <2>5, <2>6, <2>7, FiledWalk
  <2> QED BY <2>3, <2>5, <2>8
<1>2. IInv /\ BlankInv /\ CatalogInv /\ [Next]_vars => [A]_vars
  BY <1>1
<1> HIDE DEF A
<1>3. Spec => [][A]_vars
  BY <1>2, Invariant, BlankUntilRead, CatalogStaysConsistent, PTL DEF Spec
<1> QED BY <1>3 DEF KeysWhereTheyBelong, A
-----------------------------------------------------------------------------
(***************************************************************************)
(* The foreign keys of one table.                                          *)
(***************************************************************************)

\* A table has no foreign keys before they are read.
Unreferencing(tables) == \A i \in DOMAIN tables : tables[i].foreignKeys = <<>>
UnreferencingInv == pc \in {"keys", "foreign"} => Unreferencing(result)

LEMMA KeysOnly ==
  ASSUME NEW tables \in Seq(TableRead), tables # <<>>, NEW rows, NEW id, Unreferencing(tables)
  PROVE  Unreferencing(AddKey(rows, tables, id))
<1> DEFINE columns == ColumnsIn(Group(rows, id))
           p == Index(tables, Group(rows, id)[1].table)
<1>1. \/ AddKey(rows, tables, id) = SetPrimaryKey(tables, p, columns)
      \/ AddKey(rows, tables, id) = AddUniqueKey(tables, p, columns)
  BY DEF AddKey
<1>2. p \in DOMAIN tables
  BY IndexInDomain
<1> HIDE DEF columns, p
<1>3. \A i \in DOMAIN tables : tables[i] \in TableRead
  <2> DEFINE T == TableRead
  <2>1. tables \in Seq(T)
    OBVIOUS
  <2> HIDE DEF T
  <2>2. \A i \in DOMAIN tables : tables[i] \in T
    BY <2>1
  <2> QED BY <2>2 DEF T
<1>4. "foreignKeys" \in DOMAIN tables[p] /\ tables[p].foreignKeys = <<>>
  BY <1>2, <1>3 DEF TableRead, Unreferencing
<1>5. Unreferencing(SetPrimaryKey(tables, p, columns))
  BY <1>2, <1>4 DEF SetPrimaryKey, Unreferencing
<1>6. Unreferencing(AddUniqueKey(tables, p, columns))
  BY <1>2, <1>4 DEF AddUniqueKey, Unreferencing
<1> QED BY <1>1, <1>5, <1>6

LEMMA KeysOnlyWalk ==
  ASSUME NEW tables \in Seq(TableRead), NEW rows, NEW order \in Seq(Groups(rows)),
         NEW f, KeysWalk(f, rows, tables, order), Unreferencing(tables)
  PROVE  Unreferencing(f[Len(order)])
<1> DEFINE P == {n \in Nat : n \in 0 .. Len(order) => Unreferencing(f[n])}
<1>1. Len(order) \in Nat
  OBVIOUS
<1>2. 0 \in P
  BY DEF KeysWalk
<1>3. ASSUME NEW n \in Nat, n \in P, n + 1 \in 0 .. Len(order) PROVE Unreferencing(f[n + 1])
  <2>1. n \in 0 .. Len(order) /\ n + 1 \in 1 .. Len(order) /\ (n + 1) - 1 = n
    BY <1>1, <1>3
  <2>2. f[n] \in Alike(tables) /\ f[n + 1] = AddKey(rows, f[n], order[n + 1])
        /\ f[n + 1] \in Alike(tables) /\ Unreferencing(f[n])
    BY <1>3, <2>1 DEF KeysWalk
  <2>3. f[n] \in Seq(TableRead) /\ f[n + 1] \in Seq(TableRead) /\ Len(f[n + 1]) = Len(f[n])
    BY <2>2 DEF Alike, SameTables
  <2>4. CASE f[n] # <<>>
    BY <2>2, <2>3, <2>4, KeysOnly
  <2>5. CASE f[n] = <<>>
    <3> DEFINE T == TableRead
               t == f[n + 1]
    <3>1. t \in Seq(T) /\ Len(t) = 0
      BY <2>3, <2>5
    <3> HIDE DEF T, t
    <3>2. DOMAIN t = {}
      BY <3>1
    <3> QED BY <3>2 DEF t, Unreferencing
  <2> QED BY <2>4, <2>5
<1>4. \A n \in Nat : n \in P => n + 1 \in P
  BY <1>3
<1> HIDE DEF P
<1>5. Nat \subseteq P
  BY <1>2, <1>4, NatSetInduction
<1> QED BY <1>1, <1>5 DEF P

\* No table has a foreign key before PostgreSQL's or MySQL's foreign keys are
\* read: addColumns gives none and addKeys adds none.
THEOREM UnreferencingUntilRead == Spec => []UnreferencingInv
<1>1. Init => UnreferencingInv
  BY DEF Init, IntrospectInit, UnreferencingInv
<1>2. IInv /\ UnreferencingInv /\ [Next]_vars => UnreferencingInv'
  <2> SUFFICES ASSUME IInv, UnreferencingInv, [Next]_vars, pc' \in {"keys", "foreign"}
               PROVE  Unreferencing(result')
    BY SMTT(30) DEF UnreferencingInv, Unreferencing
  <2>1. \/ pc \in {"keys", "foreign"} /\ UNCHANGED result
        \/ ReadColumns
        \/ ReadKeys /\ pc' = "foreign"
    BY DEF Next, vars, introspectVars, Introspection, GenerateSource, ReadFails, ReadKeys,
           ReadForeignKeys, Collect, ReadTableNames, ReadTable, ReadIndexList, ReadIndexColumns,
           FinishIndexes, ReadReferences, ResolveReferencedColumns
  <2>2. CASE pc \in {"keys", "foreign"} /\ UNCHANGED result
    BY <2>2 DEF UnreferencingInv, Unreferencing
  <2>3. CASE ReadColumns
    BY <2>3 DEF ReadColumns, Unreferencing, Table
  <2>4. CASE ReadKeys /\ pc' = "foreign"
    <3>1. IsDatabase(catalog) /\ result \in Seq(TableRead)
      BY DEF IInv, Typed
    <3>2. pc = "keys"
      BY <2>4 DEF ReadKeys
    <3>3. Unreferencing(result)
      BY <3>2 DEF UnreferencingInv
    <3>4. PICK order \in SetToSeqs(Groups(KeyRows)) :
            \E f : KeysWalk(f, KeyRows, result, order) /\ result' = f[Len(order)]
      BY <2>4, <3>1, ReadKeysStep
    <3>5. PICK f : KeysWalk(f, KeyRows, result, order) /\ result' = f[Len(order)]
      BY <3>4
    <3>6. order \in Seq(Groups(KeyRows))
      BY <3>1, KeyRowsType, OrdersOf
    <3>7. Unreferencing(f[Len(order)])
      BY <3>1, <3>3, <3>5, <3>6, KeysOnlyWalk
    <3> QED BY <3>5, <3>7
  <2> QED BY <2>1, <2>2, <2>3, <2>4
<1> QED BY <1>1, <1>2, Invariant, PTL DEF Spec

\* The foreign keys of the catalog.
IsReference(t, k) == t \in DOMAIN catalog /\ k \in ToSet(catalog[t].foreignKeys)

LEMMA ReferenceType ==
  ASSUME IsDatabase(catalog), NEW t, NEW k, IsReference(t, k)
  PROVE  /\ t \in TableNames /\ k \in ForeignKeyDefinition
         /\ [table |-> t, fk |-> k] \in References(catalog)
         /\ k.columns \in Seq(Identifier) /\ k.columns # <<>>
         /\ k.referencedColumns \in Seq(Identifier)
         /\ Len(k.referencedColumns) = Len(k.columns)
<1>1. t \in TableNames /\ catalog[t] \in DefinitionType /\ t \in DOMAIN catalog
  BY DEF IsDatabase, IsReference
<1>2. catalog[t].foreignKeys \in Seq(ForeignKeyDefinition)
  BY <1>1 DEF DefinitionType
<1>3. k \in ForeignKeyDefinition
  <2> DEFINE keys == catalog[t].foreignKeys
             T == ForeignKeyDefinition
  <2>1. keys \in Seq(T) /\ k \in ToSet(keys)
    BY <1>2 DEF IsReference
  <2> HIDE DEF keys, T
  <2>2. k \in T
    BY <2>1 DEF ToSet
  <2> QED BY <2>2 DEF T
<1>4. [table |-> t, fk |-> k] \in References(catalog)
  BY <1>1 DEF References, IsReference
<1>5. /\ k.columns \in ColumnList /\ k.referencedColumns \in ColumnList
      /\ Len(k.columns) = Len(k.referencedColumns)
  BY <1>3 DEF ForeignKeyDefinition
<1> QED BY <1>1, <1>3, <1>4, <1>5 DEF ColumnList

\* Foreign keys of one table are the same when their names are.
LEMMA SameReference ==
  ASSUME IsDatabase(catalog), NEW t, NEW k, NEW l, IsReference(t, k), IsReference(t, l),
         k.name = l.name
  PROVE  k = l
<1>1. ReferencesDiffer(catalog[t].foreignKeys)
  BY DEF IsDatabase, IsReference, DefinitionType
<1>2. PICK i \in DOMAIN catalog[t].foreignKeys : catalog[t].foreignKeys[i] = k
  BY DEF IsReference, ToSet
<1>3. PICK j \in DOMAIN catalog[t].foreignKeys : catalog[t].foreignKeys[j] = l
  BY DEF IsReference, ToSet
<1>4. i = j
  BY <1>1, <1>2, <1>3, Zenon DEF ReferencesDiffer
<1> QED BY <1>2, <1>3, <1>4

\* The rows of one foreign key constraint.
ReferringID(id) == {row \in ForeignRow : ID(row) = id}

LEMMA RowsOfReferencePart ==
  ASSUME NEW t \in TableNames, NEW k \in ForeignKeyDefinition, NEW u, NEW name
  PROVE  Those(RowsOfReference(t, k), ReferringID(<<u, name>>)) =
           IF t = u /\ k.name = name THEN RowsOfReference(t, k) ELSE <<>>
<1> DEFINE rows == RowsOfReference(t, k)
           S == ReferringID(<<u, name>>)
<1>1. rows \in Seq(ForeignRow)
  BY RowsOfReferenceType
<1>2. \A j \in DOMAIN rows : ID(rows[j]) = <<t, k.name>>
  BY DEF RowsOfReference, ForeignKeyRow, ID
<1> HIDE DEF rows
<1>3. \A j \in DOMAIN rows : rows[j] \in S <=> <<t, k.name>> = <<u, name>>
  BY <1>1, <1>2 DEF ReferringID
<1>4. <<t, k.name>> = <<u, name>> <=> t = u /\ k.name = name
  OBVIOUS
<1> HIDE DEF S
<1>5. CASE t = u /\ k.name = name
  <2>1. \A j \in DOMAIN rows : rows[j] \in S
    BY <1>3, <1>4, <1>5
  <2>2. Those(rows, S) = rows
    BY <1>1, <2>1, ThoseAll
  <2> QED BY <1>5, <2>2 DEF rows, S
<1>6. CASE ~(t = u /\ k.name = name)
  <2>1. \A j \in DOMAIN rows : rows[j] \notin S
    BY <1>3, <1>4, <1>6
  <2>2. Those(rows, S) = <<>>
    BY <1>1, <2>1, ThoseNone
  <2> QED BY <1>6, <2>2, Zenon DEF rows, S
<1> QED BY <1>5, <1>6

LEMMA ReferencesOfTablePart ==
  ASSUME IsDatabase(catalog), NEW t \in DOMAIN catalog, NEW u, NEW name
  PROVE  /\ (\A k : IsReference(t, k) => ~(t = u /\ k.name = name)) =>
              Those(ReferencesOfTable(t), ReferringID(<<u, name>>)) = <<>>
         /\ \A k : IsReference(t, k) /\ t = u /\ k.name = name =>
              Those(ReferencesOfTable(t), ReferringID(<<u, name>>)) = RowsOfReference(t, k)
<1> DEFINE keys == catalog[t].foreignKeys
           segments == [i \in DOMAIN keys |-> RowsOfReference(t, keys[i])]
           S == ReferringID(<<u, name>>)
<1>1. t \in TableNames /\ catalog[t] \in DefinitionType
  BY DEF IsDatabase
<1>2. keys \in Seq(ForeignKeyDefinition) /\ ReferencesDiffer(keys)
  BY <1>1 DEF DefinitionType
<1>3. \A k : IsReference(t, k) <=> \E m \in DOMAIN keys : keys[m] = k
  BY DEF IsReference, ToSet
<1>4. ReferencesOfTable(t) = FlattenSeq(segments)
  BY DEF ReferencesOfTable
<1> HIDE DEF keys
<1>5. /\ Len(keys) \in Nat /\ DOMAIN keys = 1 .. Len(keys)
      /\ \A i \in DOMAIN keys : keys[i] \in ForeignKeyDefinition
  BY <1>2
<1>6. \A i \in DOMAIN keys :
        /\ segments[i] \in Seq(ForeignRow)
        /\ Those(segments[i], S) =
             IF t = u /\ keys[i].name = name THEN RowsOfReference(t, keys[i]) ELSE <<>>
        /\ segments[i] = RowsOfReference(t, keys[i])
  BY <1>1, <1>5, RowsOfReferenceType, RowsOfReferencePart
<1>7. segments \in Seq(Seq(ForeignRow)) /\ DOMAIN segments = DOMAIN keys
  <2> DEFINE V == Seq(ForeignRow)
  <2>1. \A i \in DOMAIN keys : RowsOfReference(t, keys[i]) \in V
    BY <1>6
  <2> HIDE DEF V
  <2>2. segments \in [1 .. Len(keys) -> V]
    BY <1>5, <2>1
  <2> HIDE DEF segments
  <2>3. segments \in Seq(V) /\ DOMAIN segments = 1 .. Len(keys)
    BY <1>5, <2>2, Listed
  <2> QED BY <1>5, <2>3 DEF V
<1> HIDE DEF segments, S
<1>8. ASSUME \A k : IsReference(t, k) => ~(t = u /\ k.name = name)
      PROVE  Those(ReferencesOfTable(t), S) = <<>>
  <2>1. NoneIn(segments, S)
    BY <1>3, <1>6, <1>7, <1>8 DEF NoneIn
  <2> QED BY <1>4, <1>7, <2>1, ThoseOfOne
<1>9. ASSUME NEW k, IsReference(t, k), t = u, k.name = name
      PROVE  Those(ReferencesOfTable(t), S) = RowsOfReference(t, k)
  <2>0. PICK m \in DOMAIN keys : keys[m] = k
    BY <1>3, <1>9
  <2>1. \A i \in DOMAIN keys : i # m => keys[i].name # name
    BY <1>2, <1>9, <2>0, Zenon DEF ReferencesDiffer
  <2>2. OnlyIn(segments, S, m)
    BY <1>6, <1>7, <2>1 DEF OnlyIn
  <2>3. Those(FlattenSeq(segments), S) = Those(segments[m], S)
    BY <1>7, <2>0, <2>2, ThoseOfOne
  <2> QED BY <1>4, <1>6, <1>9, <2>0, <2>3
<1> QED BY <1>8, <1>9, Zenon DEF S

LEMMA MySQLRows ==
  ASSUME IsDatabase(catalog)
  PROVE  LET found == InCatalog(catalog)
             segments == [i \in DOMAIN found |-> ReferencesOfTable(found[i])]
         IN /\ MySQLForeignKeyRows = FlattenSeq(segments)
            /\ segments \in Seq(Seq(ForeignRow)) /\ DOMAIN segments = DOMAIN found
            /\ \A i \in DOMAIN found : segments[i] = ReferencesOfTable(found[i])
<1> DEFINE found == InCatalog(catalog)
           segments == [i \in DOMAIN found |-> ReferencesOfTable(found[i])]
           V == Seq(ForeignRow)
<1>1. MySQLForeignKeyRows = FlattenSeq(segments)
  BY DEF MySQLForeignKeyRows, Rows, ReferencesOfTable, RowsOfReference
<1>2. /\ found \in Seq(TableNames) /\ Len(found) \in Nat /\ DOMAIN found = 1 .. Len(found)
      /\ \A i \in DOMAIN found : found[i] \in DOMAIN catalog
  BY InCatalogTables
<1>3. \A i \in DOMAIN found : ReferencesOfTable(found[i]) \in V
  BY <1>2, ReferencesOfTableType
<1> HIDE DEF V, found
<1>4. segments \in [1 .. Len(found) -> V]
  BY <1>2, <1>3
<1>5. \A i \in DOMAIN found : segments[i] = ReferencesOfTable(found[i])
  OBVIOUS
<1> HIDE DEF segments
<1>6. segments \in Seq(V) /\ DOMAIN segments = 1 .. Len(found)
  BY <1>2, <1>4, Listed
<1> QED BY <1>1, <1>2, <1>5, <1>6, Zenon DEF V, segments, found

\* A group is what the rows of an identifier make, also where none has it.
LEMMA GroupThose ==
  ASSUME NEW rows \in Seq(ForeignRow), NEW id
  PROVE  /\ Group(rows, id) = Those(rows, ReferringID(id))
         /\ id \in Groups(rows) <=> Group(rows, id) # <<>>
<1> DEFINE R == {row \in ToSet(rows) : ID(row) = id}
           S == ReferringID(id)
           group == Those(rows, S)
<1>1. \A i \in DOMAIN rows : rows[i] \in ForeignRow
  <2> DEFINE T == ForeignRow
  <2>1. rows \in Seq(T)
    OBVIOUS
  <2> HIDE DEF T
  <2>2. \A i \in DOMAIN rows : rows[i] \in T
    BY <2>1
  <2> QED BY <2>2 DEF T
<1>2. \A i \in DOMAIN rows : rows[i] \in R <=> rows[i] \in S
  BY <1>1 DEF ReferringID, ToSet
<1>3. Group(rows, id) = Those(rows, R)
  BY DEF Group
<1>4. \A i \in DOMAIN rows : rows[i] \in S <=> ID(rows[i]) = id
  BY <1>1 DEF ReferringID
<1> HIDE DEF R, S
<1>5. Those(rows, R) = Those(rows, S)
  BY <1>2, ThoseSame
<1>6. ASSUME id \in Groups(rows) PROVE group # <<>>
  BY <1>3, <1>5, <1>6, GroupRows
<1>7. ASSUME id \notin Groups(rows) PROVE group = <<>>
  <2>1. \A i \in DOMAIN rows : rows[i] \notin S
    BY <1>4, <1>7 DEF Groups
  <2> QED BY <2>1, ThoseNone
<1> QED BY <1>3, <1>5, <1>6, <1>7 DEF S

\* MySQL: the group of a foreign key is its rows, in their order, and there is
\* no other group.
LEMMA MySQLGroup ==
  ASSUME IsDatabase(catalog), NEW t, NEW k, IsReference(t, k)
  PROVE  Group(MySQLForeignKeyRows, <<t, k.name>>) = RowsOfReference(t, k)
<1> DEFINE id == <<t, k.name>>
           S == ReferringID(id)
           found == InCatalog(catalog)
           segments == [i \in DOMAIN found |-> ReferencesOfTable(found[i])]
<1>1. /\ found \in Seq(TableNames) /\ IsInjective(found)
      /\ \A i \in DOMAIN found : found[i] \in DOMAIN catalog
  BY InCatalogTables
<1>2. PICK n \in DOMAIN found : found[n] = t
  BY InCatalogTables DEF IsReference
<1>3. /\ MySQLForeignKeyRows = FlattenSeq(segments)
      /\ segments \in Seq(Seq(ForeignRow)) /\ DOMAIN segments = DOMAIN found
      /\ \A i \in DOMAIN found : segments[i] = ReferencesOfTable(found[i])
  BY MySQLRows, Zenon
<1>4. MySQLForeignKeyRows \in Seq(ForeignRow)
  BY MySQLRowsType
<1> HIDE DEF found, segments
<1>5. \A i \in DOMAIN found : i # n => found[i] # t
  BY <1>1, <1>2 DEF IsInjective
<1>6. \A i \in DOMAIN found : i # n => Those(ReferencesOfTable(found[i]), S) = <<>>
  BY <1>1, <1>5, ReferencesOfTablePart
<1>7. Those(ReferencesOfTable(t), S) = RowsOfReference(t, k)
  BY ReferencesOfTablePart DEF IsReference
<1>8. Group(MySQLForeignKeyRows, id) = Those(MySQLForeignKeyRows, S)
  BY <1>4, GroupThose
<1> HIDE DEF S, id
<1>9. OnlyIn(segments, S, n)
  BY <1>3, <1>6 DEF OnlyIn
<1>10. Those(FlattenSeq(segments), S) = Those(segments[n], S)
  BY <1>2, <1>3, <1>9, ThoseOfOne
<1>11. Group(MySQLForeignKeyRows, id) = RowsOfReference(t, k)
  BY <1>2, <1>3, <1>7, <1>8, <1>10
<1> QED BY <1>11 DEF id

LEMMA MySQLGroupIsReference ==
  ASSUME IsDatabase(catalog), NEW id \in Groups(MySQLForeignKeyRows)
  PROVE  \E t, k : IsReference(t, k) /\ id = <<t, k.name>>
<1> DEFINE found == InCatalog(catalog)
           segments == [i \in DOMAIN found |-> ReferencesOfTable(found[i])]
           S == ReferringID(id)
<1>1. \A i \in DOMAIN found : found[i] \in DOMAIN catalog
  BY InCatalogTables
<1>2. /\ MySQLForeignKeyRows = FlattenSeq(segments)
      /\ segments \in Seq(Seq(ForeignRow)) /\ DOMAIN segments = DOMAIN found
      /\ \A i \in DOMAIN found : segments[i] = ReferencesOfTable(found[i])
  BY MySQLRows, Zenon
<1>3. Those(MySQLForeignKeyRows, S) # <<>>
  BY MySQLRowsType, GroupThose
<1>4. PICK u, name : id = <<u, name>>
  BY DEF Groups, ID
<1> SUFFICES ASSUME \A t, k : ~(IsReference(t, k) /\ id = <<t, k.name>>) PROVE FALSE
  OBVIOUS
<1>5. ASSUME NEW t \in DOMAIN catalog PROVE Those(ReferencesOfTable(t), S) = <<>>
  <2>1. \A k : IsReference(t, k) => ~(t = u /\ k.name = name)
    BY <1>4
  <2>2. Those(ReferencesOfTable(t), ReferringID(<<u, name>>)) = <<>>
    BY <2>1, ReferencesOfTablePart
  <2> QED BY <1>4, <2>2
<1> HIDE DEF segments, S, found
<1>6. NoneIn(segments, S)
  BY <1>1, <1>2, <1>5 DEF NoneIn
<1>7. Those(FlattenSeq(segments), S) = <<>>
  BY <1>2, <1>6, ThoseOfOne
<1> QED BY <1>2, <1>3, <1>7
-----------------------------------------------------------------------------
(***************************************************************************)
(* PostgreSQL: what the join makes of a foreign key.                       *)
(***************************************************************************)
Keys == KeyConstraints(catalog) \union Elsewhere
Refers(k, r) == k.schema = r.fk.schema /\ k.table = r.fk.table /\ k.name = r.fk.key
Referred(r) == CHOOSE k \in Keys : Refers(k, r)
UsageOfKey(k, i) ==
  [schema |-> k.schema, table |-> k.table, name |-> k.name, ordinal |-> i,
   column |-> k.columns[i], position |-> 0]
UsageOfReference(r, i) ==
  [schema |-> Own, table |-> r.table, name |-> r.fk.name, ordinal |-> i,
   column |-> r.fk.columns[i],
   position |-> Place(r.fk.referencedColumns[i], Referred(r).columns)]

LEMMA UsageParts ==
  /\ \A k \in Keys : \A i \in DOMAIN k.columns : UsageOfKey(k, i) \in KeyUsage
  /\ \A r \in References(catalog) : \A i \in DOMAIN r.fk.columns :
       UsageOfReference(r, i) \in KeyUsage
  /\ \A u \in KeyUsage :
       \/ \E k \in Keys : \E i \in DOMAIN k.columns : u = UsageOfKey(k, i)
       \/ \E r \in References(catalog) : \E i \in DOMAIN r.fk.columns : u = UsageOfReference(r, i)
<1> DEFINE ofKey(k) == {UsageOfKey(k, i) : i \in DOMAIN k.columns}
           ofReference(r) == {UsageOfReference(r, i) : i \in DOMAIN r.fk.columns}
<1>1. KeyUsage = (UNION {ofKey(k) : k \in Keys})
                   \union (UNION {ofReference(r) : r \in References(catalog)})
  BY DEF KeyUsage, UsageOfKey, UsageOfReference, Referred, Refers, Keys
<1>2. \A k \in Keys : \A u \in ofKey(k) : u \in KeyUsage
  <2> HIDE DEF ofKey, ofReference
  <2> QED BY <1>1
<1>3. \A r \in References(catalog) : \A u \in ofReference(r) : u \in KeyUsage
  <2> HIDE DEF ofKey, ofReference
  <2> QED BY <1>1
<1>4. \A u \in KeyUsage : \/ \E k \in Keys : u \in ofKey(k)
                          \/ \E r \in References(catalog) : u \in ofReference(r)
  <2> HIDE DEF ofKey, ofReference
  <2> QED BY <1>1
<1>5. \A k \in Keys : \A i \in DOMAIN k.columns : UsageOfKey(k, i) \in ofKey(k)
  OBVIOUS
<1>6. \A r \in References(catalog) : \A i \in DOMAIN r.fk.columns :
        UsageOfReference(r, i) \in ofReference(r)
  OBVIOUS
<1>7. \A k \in Keys : \A u \in ofKey(k) : \E i \in DOMAIN k.columns : u = UsageOfKey(k, i)
  OBVIOUS
<1>8. \A r \in References(catalog) : \A u \in ofReference(r) :
        \E i \in DOMAIN r.fk.columns : u = UsageOfReference(r, i)
  OBVIOUS
<1> HIDE DEF ofKey, ofReference
<1> QED BY <1>2, <1>3, <1>4, <1>5, <1>6, <1>7, <1>8

\* A key of this schema is one of the catalog, and no two keys have the same
\* table and name.
LEMMA KeysApart ==
  ASSUME IsDatabase(catalog)
  PROVE  /\ \A k \in Keys : k.schema = Own => k \in KeyConstraints(catalog)
         /\ \A k, l \in Keys :
              k.schema = l.schema /\ k.table = l.table /\ k.name = l.name => k = l
<1>1. \A k \in Elsewhere : k.schema # Own
  BY CatalogAssumption
<1>2. ASSUME NEW k \in KeyConstraints(catalog)
      PROVE  \E x : /\ IsKey(k.table, x) /\ x.name = k.name /\ k = Constraint(k.table, x)
                    /\ k.schema = Own
  <2>1. PICK t \in DOMAIN catalog : \E x \in ToSet(catalog[t].keys) :
          x.kind \in {"PRIMARY KEY", "UNIQUE"} /\ k = Constraint(t, x)
    BY <1>2 DEF KeyConstraints
  <2>2. PICK x \in ToSet(catalog[t].keys) :
          x.kind \in {"PRIMARY KEY", "UNIQUE"} /\ k = Constraint(t, x)
    BY <2>1
  <2>3. k.table = t /\ k.name = x.name /\ k.schema = Own
    BY <2>2 DEF Constraint
  <2>4. IsKey(t, x)
    BY <2>2 DEF IsKey, KeyKinds
  <2> QED BY <2>2, <2>3, <2>4
<1>3. ASSUME NEW k \in KeyConstraints(catalog), NEW l \in KeyConstraints(catalog),
             k.table = l.table, k.name = l.name
      PROVE  k = l
  <2>1. PICK x : IsKey(k.table, x) /\ x.name = k.name /\ k = Constraint(k.table, x)
    BY <1>2
  <2>2. PICK y : IsKey(l.table, y) /\ y.name = l.name /\ l = Constraint(l.table, y)
    BY <1>2
  <2>3. x = y
    BY <1>3, <2>1, <2>2, SameKey
  <2> QED BY <1>3, <2>1, <2>2, <2>3
<1>4. \A k, l \in Elsewhere : k.schema = l.schema /\ k.table = l.table /\ k.name = l.name => k = l
  BY CatalogAssumption
<1>5. \A k \in KeyConstraints(catalog) : k.schema = Own
  BY <1>2
<1> QED BY <1>1, <1>3, <1>4, <1>5 DEF Keys

\* The key that a foreign key references, and the places of its columns there.
LEMMA ReferredKey ==
  ASSUME IsDatabase(catalog), Consistent(catalog), dialect # "sqlite",
         NEW r \in References(catalog)
  PROVE  /\ Referred(r) \in Keys /\ Refers(Referred(r), r)
         /\ \A k \in Keys : Refers(k, r) => k = Referred(r)
         /\ \A i \in DOMAIN r.fk.columns :
              LET p == Place(r.fk.referencedColumns[i], Referred(r).columns)
              IN /\ p \in DOMAIN Referred(r).columns
                 /\ Referred(r).columns[p] = r.fk.referencedColumns[i]
<1>1. PICK k \in Keys : Refers(k, r) /\ ToSet(k.columns) = ToSet(r.fk.referencedColumns)
  BY DEF Consistent, Keys, Refers
<1>2. Referred(r) \in Keys /\ Refers(Referred(r), r)
  BY <1>1 DEF Referred
<1>3. \A l \in Keys : Refers(l, r) => l = Referred(r)
  BY <1>2, KeysApart DEF Refers
<1>4. k = Referred(r)
  BY <1>1, <1>3
<1>5. ASSUME NEW i \in DOMAIN r.fk.columns
      PROVE  LET p == Place(r.fk.referencedColumns[i], k.columns)
             IN p \in DOMAIN k.columns /\ k.columns[p] = r.fk.referencedColumns[i]
  <2>1. r.fk \in ForeignKeyDefinition
    BY CatalogIsFinite
  <2>2. /\ r.fk.columns \in Seq(Identifier) /\ r.fk.referencedColumns \in Seq(Identifier)
        /\ Len(r.fk.columns) = Len(r.fk.referencedColumns)
    BY <2>1 DEF ForeignKeyDefinition, ColumnList
  <2>3. i \in DOMAIN r.fk.referencedColumns
    BY <2>2
  <2>4. r.fk.referencedColumns[i] \in ToSet(k.columns)
    BY <1>1, <2>3 DEF ToSet
  <2>5. \E p \in DOMAIN k.columns : k.columns[p] = r.fk.referencedColumns[i]
    BY <2>4 DEF ToSet
  <2> QED BY <2>5 DEF Place
<1> QED BY <1>2, <1>3, <1>4, <1>5

\* The joined row that pairs column i of a foreign key with its referenced column.
Pair(r, i) ==
  LET k == Referred(r)
  IN [from |-> [fk |-> r, fkc |-> UsageOfReference(r, i)],
      to |-> [rc |-> r, pk |-> [schema |-> k.schema, table |-> k.table, name |-> k.name],
              pkc |-> UsageOfKey(k, Place(r.fk.referencedColumns[i], k.columns))]]

LEMMA PairJoined ==
  ASSUME IsDatabase(catalog), Consistent(catalog), dialect # "sqlite",
         NEW t, NEW k, IsReference(t, k), NEW i \in DOMAIN k.columns
  PROVE  LET x == Pair([table |-> t, fk |-> k], i)
         IN /\ x \in PostgresJoin
            /\ x.from.fk = [table |-> t, fk |-> k] /\ x.from.fkc.ordinal = i
            /\ JoinedRow(x) = RowsOfReference(t, k)[i]
<1> DEFINE r == [table |-> t, fk |-> k]
           l == Referred(r)
           p == Place(k.referencedColumns[i], l.columns)
           fkc == UsageOfReference(r, i)
           pk == [schema |-> l.schema, table |-> l.table, name |-> l.name]
           pkc == UsageOfKey(l, p)
           from == [fk |-> r, fkc |-> fkc]
           to == [rc |-> r, pk |-> pk, pkc |-> pkc]
           x == Pair(r, i)
<1>1. r \in References(catalog)
  BY ReferenceType
<1>2. /\ l \in Keys /\ l.schema = k.schema /\ l.table = k.table /\ l.name = k.key
      /\ p \in DOMAIN l.columns /\ l.columns[p] = k.referencedColumns[i]
  BY <1>1, ReferredKey DEF Refers
<1>3. fkc \in KeyUsage /\ pkc \in KeyUsage
  BY <1>1, <1>2, UsageParts
<1>4. pk \in Constraints
  BY <1>2 DEF Constraints, Keys
<1>5. /\ fkc.schema = Own /\ fkc.name = k.name /\ fkc.ordinal = i /\ fkc.column = k.columns[i]
      /\ fkc.position = p
  BY DEF UsageOfReference
<1>6. /\ pkc.schema = l.schema /\ pkc.name = l.name /\ pkc.ordinal = p
      /\ pkc.column = l.columns[p]
  BY DEF UsageOfKey
<1>7. r.table = t /\ r.fk = k
  OBVIOUS
<1>8. x = [from |-> from, to |-> to]
  BY DEF Pair
<1>9. pk.schema = l.schema /\ pk.table = l.table /\ pk.name = l.name
  OBVIOUS
<1> HIDE DEF l, p, fkc, pk, pkc, x, r
<1>10. from \in Referencing
  BY <1>1, <1>3, <1>5, <1>7 DEF Referencing
<1>11. to \in Referenced
  BY <1>1, <1>2, <1>3, <1>4, <1>6, <1>7, <1>9 DEF Referenced
<1>12. x \in PostgresJoin
  BY <1>5, <1>6, <1>7, <1>8, <1>10, <1>11 DEF PostgresJoin, Paired
<1>13. /\ x.from.fk = r /\ x.from.fkc = fkc /\ x.to.pk = pk /\ x.to.pkc = pkc
  BY <1>8
<1>14. JoinedRow(x) = ForeignKeyRow(t, k.name, k.columns[i], k.schema, k.table,
                                    k.referencedColumns[i])
  BY <1>2, <1>5, <1>6, <1>7, <1>9, <1>13 DEF JoinedRow
<1>15. RowsOfReference(t, k)[i] = JoinedRow(x)
  BY <1>14 DEF RowsOfReference
<1> QED BY <1>5, <1>12, <1>13, <1>15 DEF x, r

\* A foreign key with a name of its own is joined to nothing else.
LEMMA PairsOnly ==
  ASSUME IsDatabase(catalog), Consistent(catalog), dialect = "postgresql",
         NEW t, NEW k, IsReference(t, k), UniquelyNamed(t, k),
         NEW x \in PostgresJoin, x.from.fk.fk.name = k.name
  PROVE  \E i \in DOMAIN k.columns : x = Pair([table |-> t, fk |-> k], i)
<1> DEFINE r == [table |-> t, fk |-> k]
           l == Referred(r)
<1>1. r \in References(catalog) /\ r.table = t /\ r.fk = k
  BY ReferenceType
<1>2. \A s \in References(catalog) : s.fk.name = k.name => s = r
  <2>1. {s \in References(catalog) : s.fk.name = k.name} = {r}
    BY DEF UniquelyNamed
  <2> QED BY <2>1
<1>3. \A c \in Constraints : c.schema = k.schema /\ c.name = k.key => c.table = k.table
  BY DEF UniquelyNamed
<1>4. \A c \in KeyConstraints(catalog) : c.name # k.name
  BY DEF UniquelyNamed
<1>5. /\ l \in Keys /\ Refers(l, r) /\ \A c \in Keys : Refers(c, r) => c = l
      /\ l.schema = k.schema /\ l.table = k.table /\ l.name = k.key
  BY <1>1, ReferredKey DEF Refers
<1>6. \A c \in Keys : [schema |-> c.schema, table |-> c.table, name |-> c.name] \in Constraints
  BY DEF Constraints, Keys
<1>7. \A s \in References(catalog) :
        [schema |-> Own, table |-> s.table, name |-> s.fk.name] \in Constraints
  BY DEF Constraints
<1> HIDE DEF r, l
<1>8. /\ x.from \in Referencing /\ x.to \in Referenced
      /\ x.to.rc.fk.name = x.from.fk.fk.name /\ Paired(x.from.fkc, x.to.pkc)
      /\ x = [from |-> x.from, to |-> x.to]
  BY DEF PostgresJoin
<1>9. /\ x.from.fk \in References(catalog) /\ x.from.fkc \in KeyUsage
      /\ x.from.fkc.schema = Own /\ x.from.fkc.name = x.from.fk.fk.name
      /\ x.from = [fk |-> x.from.fk, fkc |-> x.from.fkc]
  BY <1>8 DEF Referencing
<1>10. /\ x.to.rc \in References(catalog) /\ x.to.pk \in Constraints /\ x.to.pkc \in KeyUsage
       /\ x.to.pk.schema = x.to.rc.fk.schema /\ x.to.pk.name = x.to.rc.fk.key
       /\ x.to.pkc.schema = x.to.pk.schema /\ x.to.pkc.name = x.to.pk.name
       /\ x.to = [rc |-> x.to.rc, pk |-> x.to.pk, pkc |-> x.to.pkc]
  BY <1>8 DEF Referenced
<1>11. x.from.fk = r /\ x.to.rc = r
  BY <1>2, <1>8, <1>9, <1>10
<1>12. PICK i \in DOMAIN k.columns : x.from.fkc = UsageOfReference(r, i)
  <2>1. ASSUME NEW c \in Keys, NEW j, x.from.fkc = UsageOfKey(c, j) PROVE FALSE
    <3>1. c.schema = Own /\ c.name = k.name
      BY <1>9, <2>1 DEF UsageOfKey
    <3>2. c \in KeyConstraints(catalog)
      BY <3>1, KeysApart
    <3> QED BY <1>4, <3>1, <3>2
  <2>2. PICK s \in References(catalog) : \E i \in DOMAIN s.fk.columns :
          x.from.fkc = UsageOfReference(s, i)
    BY <1>9, <2>1, UsageParts
  <2>3. s.fk.name = k.name
    BY <1>9, <2>2 DEF UsageOfReference
  <2>4. s = r
    BY <1>2, <2>3
  <2> QED BY <1>1, <2>2, <2>4
<1>13. x.to.pk.schema = k.schema /\ x.to.pk.name = k.key /\ x.to.pk.table = k.table
  BY <1>1, <1>3, <1>10, <1>11
<1>14. x.to.pk = [schema |-> l.schema, table |-> l.table, name |-> l.name]
  <2>1. \A c \in Constraints : c = [schema |-> c.schema, table |-> c.table, name |-> c.name]
    BY DEF Constraints
  <2> QED BY <1>5, <1>10, <1>13, <2>1
<1>15. x.to.pkc.schema = k.schema /\ x.to.pkc.name = k.key
  BY <1>10, <1>13
<1>16. \E p \in DOMAIN l.columns : x.to.pkc = UsageOfKey(l, p)
  <2>1. ASSUME NEW c \in Keys, NEW j \in DOMAIN c.columns, x.to.pkc = UsageOfKey(c, j)
        PROVE  \E p \in DOMAIN l.columns : x.to.pkc = UsageOfKey(l, p)
    <3>1. c.schema = k.schema /\ c.name = k.key
      BY <1>15, <2>1 DEF UsageOfKey
    <3>2. c.table = k.table
      <4> DEFINE d == [schema |-> c.schema, table |-> c.table, name |-> c.name]
      <4>1. d \in Constraints /\ d.schema = c.schema /\ d.name = c.name /\ d.table = c.table
        BY <1>6
      <4> HIDE DEF d
      <4> QED BY <1>3, <3>1, <4>1
    <3>3. c = l
      BY <1>1, <1>5, <3>1, <3>2 DEF Refers
    <3> QED BY <2>1, <3>3
  <2>2. ASSUME NEW s \in References(catalog), NEW j, x.to.pkc = UsageOfReference(s, j) PROVE FALSE
    <3>1. k.schema = Own /\ s.fk.name = k.key
      BY <1>15, <2>2 DEF UsageOfReference
    <3>2. s.table = k.table
      <4> DEFINE d == [schema |-> Own, table |-> s.table, name |-> s.fk.name]
      <4>1. d \in Constraints /\ d.schema = Own /\ d.name = s.fk.name /\ d.table = s.table
        BY <1>7
      <4> HIDE DEF d
      <4> QED BY <1>3, <3>1, <4>1
    <3>3. l \in KeyConstraints(catalog) /\ l.table = s.table /\ l.name = s.fk.name
      BY <1>5, <3>1, <3>2, KeysApart
    <3> QED BY <3>3 DEF Consistent
  <2> QED BY <1>10, <2>1, <2>2, UsageParts
<1>17. PICK p \in DOMAIN l.columns : x.to.pkc = UsageOfKey(l, p)
  BY <1>16
<1>18. p = Place(k.referencedColumns[i], l.columns)
  <2>1. x.to.pkc.ordinal = x.from.fkc.position
    BY <1>8 DEF Paired
  <2>2. x.to.pkc.ordinal = p
    BY <1>17 DEF UsageOfKey
  <2>3. x.from.fkc.position = Place(k.referencedColumns[i], l.columns)
    BY <1>1, <1>12 DEF UsageOfReference, l
  <2> QED BY <2>1, <2>2, <2>3
<1>19. x = Pair(r, i)
  BY <1>1, <1>8, <1>9, <1>10, <1>11, <1>12, <1>14, <1>17, <1>18 DEF Pair, l
<1> QED BY <1>19 DEF r

\* What is left of a sequence from its k-th element on.
Rest(w, k) == [j \in 1 .. Len(w) - k + 1 |-> w[k + j - 1]]

LEMMA RestParts ==
  ASSUME NEW T, NEW w \in Seq(T)
  PROVE  /\ Rest(w, 1) = w /\ Rest(w, Len(w) + 1) = <<>>
         /\ \A k \in 1 .. Len(w) : Rest(w, k) = <<w[k]>> \o Rest(w, k + 1)
<1>1. Len(w) \in Nat /\ DOMAIN w = 1 .. Len(w) /\ \A j \in 1 .. Len(w) : w[j] \in T
  OBVIOUS
<1>2. \A k \in 1 .. Len(w) + 1 :
        /\ Len(w) - k + 1 \in Nat
        /\ Rest(w, k) \in Seq(T) /\ Len(Rest(w, k)) = Len(w) - k + 1
        /\ \A j \in 1 .. Len(w) - k + 1 : Rest(w, k)[j] = w[k + j - 1]
  <2> TAKE k \in 1 .. Len(w) + 1
  <2>1. Len(w) - k + 1 \in Nat
    BY <1>1
  <2>2. \A j \in 1 .. Len(w) - k + 1 : k + j - 1 \in 1 .. Len(w)
    BY <1>1
  <2>3. Rest(w, k) \in [1 .. Len(w) - k + 1 -> T]
    BY <1>1, <2>2 DEF Rest
  <2>4. Rest(w, k) \in Seq(T) /\ Len(Rest(w, k)) = Len(w) - k + 1
    BY <2>1, <2>3, Listed
  <2> QED BY <2>1, <2>4 DEF Rest
<1>3. Rest(w, 1) = w
  <2>1. 1 \in 1 .. Len(w) + 1 /\ Len(w) - 1 + 1 = Len(w)
    BY <1>1
  <2>2. \A j \in 1 .. Len(w) : Rest(w, 1)[j] = w[j]
    <3> TAKE j \in 1 .. Len(w)
    <3>1. j \in 1 .. Len(w) - 1 + 1 /\ 1 + j - 1 = j
      BY <1>1
    <3>2. Rest(w, 1)[j] = w[1 + j - 1]
      BY <1>2, <2>1, <3>1
    <3> QED BY <3>1, <3>2
  <2> DEFINE v == Rest(w, 1)
  <2>3. v \in Seq(T) /\ Len(v) = Len(w) /\ \A j \in 1 .. Len(w) : v[j] = w[j]
    BY <1>2, <2>1, <2>2
  <2> HIDE DEF v
  <2>4. v = w
    BY <1>1, <2>3, SeqEqual
  <2> QED BY <2>4 DEF v
<1>4. Rest(w, Len(w) + 1) = <<>>
  <2>1. Len(w) + 1 \in 1 .. Len(w) + 1 /\ Len(w) - (Len(w) + 1) + 1 = 0
    BY <1>1
  <2> DEFINE v == Rest(w, Len(w) + 1)
  <2>2. v \in Seq(T) /\ Len(v) = 0
    BY <1>2, <2>1
  <2> HIDE DEF v
  <2>3. v = <<>>
    BY <2>2
  <2> QED BY <2>3 DEF v
<1>5. ASSUME NEW k \in 1 .. Len(w) PROVE Rest(w, k) = <<w[k]>> \o Rest(w, k + 1)
  <2> DEFINE u == Rest(w, k)
             v == Rest(w, k + 1)
             y == w[k]
  <2>1. k \in 1 .. Len(w) + 1 /\ k + 1 \in 1 .. Len(w) + 1 /\ y \in T
    BY <1>1
  <2>2. /\ u \in Seq(T) /\ Len(u) = Len(w) - k + 1
        /\ \A j \in 1 .. Len(w) - k + 1 : u[j] = w[k + j - 1]
    BY <1>2, <2>1
  <2>3. /\ v \in Seq(T) /\ Len(v) = Len(w) - k
        /\ \A j \in 1 .. Len(w) - k : v[j] = w[k + j]
    <3>1. Len(w) - (k + 1) + 1 = Len(w) - k
      BY SMTT(30), <1>1
    <3>2. /\ v \in Seq(T) /\ Len(v) = Len(w) - k
          /\ \A j \in 1 .. Len(w) - k : v[j] = w[(k + 1) + j - 1]
      BY <1>2, <2>1, <3>1
    <3>3. \A j \in 1 .. Len(w) - k : (k + 1) + j - 1 = k + j
      BY <1>1
    <3> HIDE DEF v
    <3> QED BY <3>2, <3>3
  <2> HIDE DEF u, v
  <2>4. /\ <<y>> \o v \in Seq(T) /\ Len(<<y>> \o v) = Len(w) - k + 1
        /\ \A j \in 1 .. Len(w) - k + 1 : (<<y>> \o v)[j] = IF j <= 1 THEN <<y>>[j] ELSE v[j - 1]
    <3>1. <<y>> \in Seq(T) /\ Len(<<y>>) = 1
      BY <2>1
    <3> HIDE DEF y
    <3>2. /\ <<y>> \o v \in Seq(T) /\ Len(<<y>> \o v) = Len(<<y>>) + Len(v)
          /\ \A j \in 1 .. Len(<<y>>) + Len(v) :
               (<<y>> \o v)[j] = IF j <= Len(<<y>>) THEN <<y>>[j] ELSE v[j - Len(<<y>>)]
      BY <2>3, <3>1, Concatenation
    <3>3. 1 + (Len(w) - k) = Len(w) - k + 1
      BY <1>1
    <3> QED BY <2>3, <3>1, <3>2, <3>3
  <2>5. ASSUME NEW j \in 1 .. Len(w) - k + 1 PROVE u[j] = (<<y>> \o v)[j]
    <3>0. j \in Nat /\ j >= 1
      BY <1>1, <2>5
    <3>1. CASE j = 1
      <4>1. k + 1 - 1 = k /\ <<y>>[1] = y
        BY <1>1
      <4> QED BY <2>2, <2>4, <2>5, <3>1, <4>1
    <3>2. CASE j > 1
      <4>1. j - 1 \in 1 .. Len(w) - k /\ k + (j - 1) = k + j - 1 /\ ~(j <= 1)
        BY <1>1, <2>5, <3>2
      <4> QED BY <2>2, <2>3, <2>4, <2>5, <4>1
    <3>3. j = 1 \/ j > 1
      BY <3>0
    <3> QED BY <3>1, <3>2, <3>3, Zenon
  <2> DEFINE z == <<y>> \o v
  <2>6. u \in Seq(T) /\ z \in Seq(T) /\ Len(z) = Len(u) /\ \A j \in 1 .. Len(u) : u[j] = z[j]
    BY <2>2, <2>4, <2>5
  <2> HIDE DEF z, y
  <2>7. u = z
    BY <2>6, SeqEqual
  <2> QED BY <2>7 DEF u, v, y, z
<1> QED BY <1>3, <1>4, <1>5

\* The joined rows of a foreign key, and that they are its rows: one for each
\* column, told apart by its ordinal.
JoinedOf(id) == {x \in PostgresJoin : <<x.from.fk.table, x.from.fk.fk.name>> = id}
OnePerColumn(id, w) ==
  /\ \A x \in JoinedOf(id) :
       x.from.fkc.ordinal \in 1 .. Len(w) /\ JoinedRow(x) = w[x.from.fkc.ordinal]
  /\ \A x, y \in JoinedOf(id) : x.from.fkc.ordinal = y.from.fkc.ordinal => x = y
  /\ \A i \in 1 .. Len(w) : \E x \in JoinedOf(id) : x.from.fkc.ordinal = i

LEMMA JoinedID ==
  ASSUME IsDatabase(catalog), NEW x \in PostgresJoin, NEW id
  PROVE  /\ JoinedRow(x) \in ReferringID(id) <=> x \in JoinedOf(id)
         /\ ID(JoinedRow(x)) = <<x.from.fk.table, x.from.fk.fk.name>>
<1>1. JoinedRow(x) \in ForeignRow
  BY JoinedRowType
<1>2. ID(JoinedRow(x)) = <<x.from.fk.table, x.from.fk.fk.name>>
  BY DEF ID, JoinedRow, ForeignKeyRow
<1>3. JoinedRow(x) \in ReferringID(id) <=> ID(JoinedRow(x)) = id
  BY <1>1 DEF ReferringID
<1> QED BY <1>2, <1>3 DEF JoinedOf

LEMMA ColumnPerJoined ==
  ASSUME IsDatabase(catalog), Consistent(catalog), dialect = "postgresql",
         NEW t, NEW k, IsReference(t, k), UniquelyNamed(t, k)
  PROVE  OnePerColumn(<<t, k.name>>, RowsOfReference(t, k))
<1> DEFINE r == [table |-> t, fk |-> k]
           id == <<t, k.name>>
           w == RowsOfReference(t, k)
<1>1. k.columns \in Seq(Identifier)
  BY ReferenceType
<1>2. Len(w) = Len(k.columns) /\ DOMAIN k.columns = 1 .. Len(w) /\ Len(w) \in Nat
  <2>1. DOMAIN w = DOMAIN k.columns
    BY DEF RowsOfReference
  <2>2. DOMAIN k.columns = 1 .. Len(k.columns) /\ Len(k.columns) \in Nat
    BY <1>1
  <2>3. w \in Seq(ForeignRow)
    BY ReferenceType, RowsOfReferenceType
  <2> HIDE DEF w
  <2>4. DOMAIN w = 1 .. Len(w) /\ Len(w) \in Nat
    BY <2>3
  <2>5. Len(w) = Len(k.columns)
    BY <2>1, <2>2, <2>4
  <2> QED BY <2>1, <2>4, <2>5
<1>3. \A i \in DOMAIN k.columns :
        /\ Pair(r, i) \in PostgresJoin
        /\ Pair(r, i).from.fk = r /\ Pair(r, i).from.fkc.ordinal = i
        /\ JoinedRow(Pair(r, i)) = w[i]
  BY PairJoined
<1>4. r.table = t /\ r.fk = k
  OBVIOUS
<1>5. \A i \in DOMAIN k.columns : Pair(r, i) \in JoinedOf(id)
  BY <1>3, <1>4 DEF JoinedOf
<1>6. \A x \in JoinedOf(id) : \E i \in DOMAIN k.columns : x = Pair(r, i)
  <2> TAKE x \in JoinedOf(id)
  <2>1. x \in PostgresJoin /\ x.from.fk.fk.name = k.name
    BY DEF JoinedOf
  <2> QED BY <2>1, PairsOnly
<1> HIDE DEF r, id, w
<1>7. OnePerColumn(id, w)
  BY <1>2, <1>3, <1>5, <1>6 DEF OnePerColumn
<1> QED BY <1>7 DEF id, w

LEMMA JoinedRowsFirst ==
  ASSUME IsDatabase(catalog), NEW x \in PostgresJoin, NEW rest \in Seq(PostgresJoin), NEW S
  PROVE  Those(JoinedRows(<<x>> \o rest), S) =
           Part(JoinedRow(x), S) \o Those(JoinedRows(rest), S)
<1> DEFINE J == PostgresJoin
           T == ForeignRow
           all == <<x>> \o rest
           y == JoinedRow(x)
           mapped == JoinedRows(rest)
           whole == JoinedRows(all)
<1>1. x \in J /\ rest \in Seq(J) /\ y \in T
  BY JoinedRowType
<1>2. mapped \in Seq(T) /\ Len(mapped) = Len(rest)
  BY JoinedRowsType
<1>3. <<x>> \in Seq(J) /\ Len(<<x>>) = 1 /\ <<y>> \in Seq(T) /\ Len(<<y>>) = 1
      /\ <<x>>[1] = x /\ <<y>>[1] = y
  <2> HIDE DEF J, T, y
  <2> QED BY <1>1
<1>4. /\ all \in Seq(J) /\ Len(all) = 1 + Len(rest)
      /\ \A i \in 1 .. 1 + Len(rest) : all[i] = IF i <= 1 THEN <<x>>[i] ELSE rest[i - 1]
  <2> HIDE DEF J, y
  <2>1. /\ <<x>> \o rest \in Seq(J) /\ Len(<<x>> \o rest) = Len(<<x>>) + Len(rest)
        /\ \A i \in 1 .. Len(<<x>>) + Len(rest) :
             (<<x>> \o rest)[i] = IF i <= Len(<<x>>) THEN <<x>>[i] ELSE rest[i - Len(<<x>>)]
    BY <1>1, <1>3, Concatenation
  <2> QED BY <1>3, <2>1
<1>5. whole \in Seq(T) /\ Len(whole) = Len(all)
  <2> HIDE DEF all
  <2> QED BY <1>4, JoinedRowsType
<1>6. /\ <<y>> \o mapped \in Seq(T) /\ Len(<<y>> \o mapped) = 1 + Len(mapped)
      /\ \A i \in 1 .. 1 + Len(mapped) :
           (<<y>> \o mapped)[i] = IF i <= 1 THEN <<y>>[i] ELSE mapped[i - 1]
  <2> HIDE DEF T, y, mapped
  <2>1. /\ <<y>> \o mapped \in Seq(T) /\ Len(<<y>> \o mapped) = Len(<<y>>) + Len(mapped)
        /\ \A i \in 1 .. Len(<<y>>) + Len(mapped) :
             (<<y>> \o mapped)[i] = IF i <= Len(<<y>>) THEN <<y>>[i] ELSE mapped[i - Len(<<y>>)]
    BY <1>2, <1>3, Concatenation
  <2> QED BY <1>3, <2>1
<1>7. /\ Len(rest) \in Nat /\ DOMAIN rest = 1 .. Len(rest)
      /\ DOMAIN all = 1 .. 1 + Len(rest)
  <2> HIDE DEF J, all
  <2> QED BY <1>1, <1>4
<1>8. /\ \A i \in 1 .. Len(rest) : mapped[i] = JoinedRow(rest[i])
      /\ \A i \in 1 .. 1 + Len(rest) : whole[i] = JoinedRow(all[i])
  <2> HIDE DEF all
  <2> QED BY <1>7 DEF JoinedRows
<1> HIDE DEF J, T, all, mapped, whole
<1>9. ASSUME NEW i \in 1 .. 1 + Len(rest) PROVE whole[i] = (<<y>> \o mapped)[i]
  <2>1. CASE i = 1
    <3>1. all[1] = x /\ (<<y>> \o mapped)[1] = y
      BY <1>2, <1>3, <1>4, <1>6, <1>7
    <3> QED BY <1>8, <1>9, <2>1, <3>1
  <2>2. CASE i > 1
    <3>1. i - 1 \in 1 .. Len(rest) /\ ~(i <= 1)
      BY <1>7, <1>9, <2>2
    <3>2. all[i] = rest[i - 1] /\ (<<y>> \o mapped)[i] = mapped[i - 1]
      BY <1>2, <1>4, <1>6, <1>9, <3>1
    <3> QED BY <1>8, <1>9, <3>1, <3>2
  <2>3. i = 1 \/ i > 1
    BY <1>7, <1>9
  <2> QED BY <2>1, <2>2, <2>3, Zenon
<1> DEFINE z == <<y>> \o mapped
<1>10. z \in Seq(T) /\ Len(z) = Len(whole) /\ \A i \in 1 .. Len(whole) : whole[i] = z[i]
  BY <1>2, <1>4, <1>5, <1>6, <1>9
<1> HIDE DEF z, y
<1>11. whole = z
  BY <1>5, <1>10, SeqEqual
<1>12. Those(z, S) = Those(<<y>>, S) \o Those(mapped, S)
  BY <1>2, <1>3, ThoseConcat DEF z
<1>13. Those(<<y>>, S) = Part(y, S)
  <2>1. CASE y \in S
    <3>1. \A i \in DOMAIN <<y>> : <<y>>[i] \in S
      BY <2>1
    <3>2. Those(<<y>>, S) = <<y>>
      BY <1>3, <3>1, ThoseAll
    <3> QED BY <2>1, <3>2 DEF Part
  <2>2. CASE y \notin S
    <3>1. \A i \in DOMAIN <<y>> : <<y>>[i] \notin S
      BY <2>2
    <3>2. Those(<<y>>, S) = <<>>
      BY <1>3, <3>1, ThoseNone
    <3> QED BY <2>2, <3>2 DEF Part
  <2> QED BY <2>1, <2>2
<1> QED BY <1>11, <1>12, <1>13, Zenon DEF whole, all, mapped, y

\* Sorting keeps the rows of a foreign key in the order of its columns, however
\* those of others are mixed in.
LEMMA SortedPart ==
  ASSUME IsDatabase(catalog), NEW sorted, Sorts(sorted), NEW id,
         NEW w \in Seq(ForeignRow), OnePerColumn(id, w)
  PROVE  Those(JoinedRows(sorted[PostgresJoin]), ReferringID(id)) = w
<1> DEFINE J == PostgresJoin
           D == SUBSET J
           N == JoinedOf(id)
           ord(x) == x.from.fkc.ordinal
           From(S, k) == \A x \in N : x \in S <=> ord(x) >= k
           part(S) == Those(JoinedRows(sorted[S]), ReferringID(id))
           rank == [S \in D |-> Cardinality(S)]
           P == {S \in D : \A k \in 1 .. Len(w) + 1 : From(S, k) => part(S) = Rest(w, k)}
<1>1. rank \in [D -> Nat]
  BY JoinIsFinite, FS_Subset, FS_CardinalityType
<1>2. Len(w) \in Nat
  OBVIOUS
<1>3. /\ N \subseteq J
      /\ \A x \in N : ord(x) \in 1 .. Len(w) /\ JoinedRow(x) = w[ord(x)]
      /\ \A x, y \in N : ord(x) = ord(y) => x = y
      /\ \A i \in 1 .. Len(w) : \E x \in N : ord(x) = i
  BY DEF OnePerColumn, JoinedOf
<1>4. ASSUME NEW S \in D, \A R \in D : rank[R] < rank[S] => R \in P,
             NEW k \in 1 .. Len(w) + 1, From(S, k)
      PROVE  part(S) = Rest(w, k)
  <2>1. CASE S = {}
    <3>1. sorted[S] = <<>>
      BY <2>1 DEF Sorts
    <3>2. JoinedRows(<<>>) = <<>>
      BY DEF JoinedRows
    <3>3. part(S) = <<>>
      BY <3>1, <3>2, ThoseEmpty
    <3>4. k = Len(w) + 1
      <4>1. SUFFICES ASSUME k \in 1 .. Len(w) PROVE FALSE
        BY <1>2, <1>4
      <4>2. PICK x \in N : ord(x) = k
        BY <1>3, <4>1
      <4>3. ord(x) >= k
        BY <4>1, <4>2
      <4> QED BY <1>4, <2>1, <4>2, <4>3
    <3> QED BY <3>3, <3>4, RestParts
  <2>2. CASE S # {}
    <3> DEFINE x == First(S)
               R == S \ {x}
    <3>1. x \in S /\ \A y \in S : ord(x) <= ord(y)
      BY <2>2, FirstExists
    <3>2. R \in D /\ x \in J /\ S \in D
      BY <3>1
    <3>3. sorted[S] = <<x>> \o sorted[R] /\ sorted[R] \in Seq(J)
      BY <2>2, <3>2 DEF Sorts
    <3>4. rank[R] < rank[S]
      <4>1. IsFiniteSet(S)
        BY JoinIsFinite, FS_Subset
      <4>2. Cardinality(R) = Cardinality(S) - 1 /\ Cardinality(S) \in Nat
        BY <3>1, <4>1, FS_RemoveElement, FS_CardinalityType
      <4> QED BY <3>2, <4>2
    <3>5. R \in P
      BY <1>4, <3>2, <3>4
    <3> HIDE DEF x, J
    <3>6. part(S) = Part(JoinedRow(x), ReferringID(id)) \o part(R)
      <4> DEFINE rest == sorted[R]
                 ids == ReferringID(id)
      <4>1. x \in PostgresJoin /\ rest \in Seq(PostgresJoin)
        BY <3>2, <3>3 DEF J
      <4>2. part(S) = Those(JoinedRows(<<x>> \o rest), ids) /\ part(R) = Those(JoinedRows(rest), ids)
        BY <3>3
      <4> HIDE DEF rest, ids, part
      <4>3. Those(JoinedRows(<<x>> \o rest), ids) =
              Part(JoinedRow(x), ids) \o Those(JoinedRows(rest), ids)
        BY <4>1, JoinedRowsFirst
      <4>4. part(S) = Part(JoinedRow(x), ids) \o part(R)
        BY <4>2, <4>3
      <4> QED BY <4>4, Zenon DEF ids
    <3>7. JoinedRow(x) \in ReferringID(id) <=> x \in N
      BY <3>2, JoinedID DEF J
    <3>8. \A y \in N : ord(y) \in Nat
      BY <1>3
    <3> HIDE DEF R, part, ord, N
    <3>9. CASE x \notin N
      <4>1. From(R, k)
        BY <1>4, <3>9 DEF R
      <4>2. part(R) = Rest(w, k)
        BY <3>5, <4>1
      <4>3. part(S) = <<>> \o part(R)
        BY <3>6, <3>7, <3>9 DEF Part
      <4>4. Rest(w, k) \in Seq(ForeignRow)
        <5> DEFINE T == ForeignRow
        <5>1. w \in Seq(T) /\ Len(w) \in Nat /\ \A j \in 1 .. Len(w) : w[j] \in T
          OBVIOUS
        <5> HIDE DEF T
        <5>2. Len(w) - k + 1 \in Nat /\ \A j \in 1 .. Len(w) - k + 1 : k + j - 1 \in 1 .. Len(w)
          BY <1>2, <1>4
        <5>3. Rest(w, k) \in [1 .. Len(w) - k + 1 -> T]
          BY <5>1, <5>2 DEF Rest
        <5>4. Rest(w, k) \in Seq(T)
          BY <5>2, <5>3, Listed
        <5> QED BY <5>4 DEF T
      <4> DEFINE v == Rest(w, k)
                 T == ForeignRow
      <4>5. v \in Seq(T) /\ part(S) = <<>> \o v
        BY <4>2, <4>3, <4>4
      <4> HIDE DEF v, T
      <4>6. part(S) = v
        BY <4>5
      <4> QED BY <4>6 DEF v
    <3>10. CASE x \in N
      <4>1. ord(x) \in 1 .. Len(w) /\ ord(x) >= k /\ JoinedRow(x) = w[ord(x)]
        BY <1>3, <1>4, <3>1, <3>10
      <4>2. k \in 1 .. Len(w)
        BY <1>2, <1>4, <4>1
      <4>3. PICK y \in N : ord(y) = k
        BY <1>3, <4>2
      <4>4. ord(y) >= k
        BY <4>2, <4>3
      <4>5. y \in S
        BY <1>4, <4>3, <4>4
      <4>6. ord(x) <= k
        BY <3>1, <4>3, <4>5
      <4>7. ord(x) = k
        BY <4>1, <4>2, <4>6
      <4>8. From(R, k + 1)
        <5>1. \A z \in N : z \in R <=> z \in S /\ z # x
          BY DEF R
        <5>2. \A z \in N : z # x <=> ord(z) # k
          BY <1>3, <3>10, <4>7
        <5>3. \A z \in N : ord(z) >= k /\ ord(z) # k <=> ord(z) >= k + 1
          BY <3>8, <4>2
        <5> QED BY <1>4, <5>1, <5>2, <5>3
      <4>9. k + 1 \in 1 .. Len(w) + 1
        BY <1>2, <4>2
      <4>10. part(R) = Rest(w, k + 1)
        BY <3>5, <4>8, <4>9
      <4>11. part(S) = <<w[k]>> \o Rest(w, k + 1)
        BY <3>6, <3>7, <3>10, <4>1, <4>7, <4>10 DEF Part
      <4> QED BY <4>2, <4>11, RestParts
    <3> QED BY <3>9, <3>10
  <2> QED BY <2>1, <2>2
<1>5. ASSUME NEW S \in D, \A R \in D : rank[R] < rank[S] => R \in P PROVE S \in P
  BY <1>4, <1>5
<1> HIDE DEF P, rank, D
<1>6. D \subseteq P
  BY <1>1, <1>5, RankInduction
<1>7. J \in D
  BY DEF D
<1>8. From(J, 1) /\ 1 \in 1 .. Len(w) + 1
  BY <1>2, <1>3
<1>9. part(J) = Rest(w, 1)
  <2> HIDE DEF From, part
  <2> QED BY <1>6, <1>7, <1>8 DEF P
<1> QED BY <1>9, RestParts

\* Sorting loses no row.
LEMMA SortedCovers ==
  ASSUME IsDatabase(catalog), NEW sorted, Sorts(sorted), NEW x \in PostgresJoin
  PROVE  \E i \in DOMAIN sorted[PostgresJoin] : sorted[PostgresJoin][i] = x
<1> DEFINE J == PostgresJoin
           D == SUBSET J
           Has(s) == \E i \in DOMAIN s : s[i] = x
           rank == [S \in D |-> Cardinality(S)]
           P == {S \in D : x \in S => Has(sorted[S])}
<1>1. rank \in [D -> Nat]
  BY JoinIsFinite, FS_Subset, FS_CardinalityType
<1>2. ASSUME NEW S \in D, \A R \in D : rank[R] < rank[S] => R \in P, x \in S
      PROVE  Has(sorted[S])
  <2> DEFINE y == First(S)
             R == S \ {y}
             rest == sorted[R]
  <2>1. y \in S
    BY <1>2, FirstExists
  <2>2. R \in D /\ y \in J
    BY <2>1
  <2>3. sorted[S] = <<y>> \o rest /\ rest \in Seq(J)
    BY <1>2, <2>2 DEF Sorts
  <2>4. rank[R] < rank[S]
    <3>1. IsFiniteSet(S)
      BY JoinIsFinite, FS_Subset
    <3>2. Cardinality(R) = Cardinality(S) - 1 /\ Cardinality(S) \in Nat
      BY <2>1, <3>1, FS_RemoveElement, FS_CardinalityType
    <3> QED BY <2>2, <3>2
  <2>5. R \in P
    BY <1>2, <2>2, <2>4
  <2>6. x = y \/ Has(rest)
    BY <1>2, <2>5
  <2> HIDE DEF rest, y, J
  <2>7. /\ Len(<<y>> \o rest) = 1 + Len(rest) /\ <<y>> \o rest \in Seq(J)
        /\ \A i \in 1 .. 1 + Len(rest) :
             (<<y>> \o rest)[i] = IF i <= 1 THEN <<y>>[i] ELSE rest[i - 1]
    <3>1. <<y>> \in Seq(J) /\ Len(<<y>>) = 1
      BY <2>2
    <3>2. /\ <<y>> \o rest \in Seq(J) /\ Len(<<y>> \o rest) = Len(<<y>>) + Len(rest)
          /\ \A i \in 1 .. Len(<<y>>) + Len(rest) :
               (<<y>> \o rest)[i] = IF i <= Len(<<y>>) THEN <<y>>[i] ELSE rest[i - Len(<<y>>)]
      BY <2>3, <3>1, Concatenation
    <3> QED BY <3>1, <3>2
  <2>8. /\ Len(rest) \in Nat /\ DOMAIN rest = 1 .. Len(rest)
        /\ DOMAIN (<<y>> \o rest) = 1 .. 1 + Len(rest)
    BY <2>3, <2>7
  <2>9. CASE x = y
    <3>1. 1 \in 1 .. 1 + Len(rest) /\ <<y>>[1] = y
      BY <2>8
    <3> QED BY <2>3, <2>7, <2>8, <2>9, <3>1
  <2>10. CASE Has(rest)
    <3>1. PICK i \in DOMAIN rest : rest[i] = x
      BY <2>10
    <3>2. i + 1 \in 1 .. 1 + Len(rest) /\ ~(i + 1 <= 1) /\ (i + 1) - 1 = i
      BY <2>8, <3>1
    <3> QED BY <2>3, <2>7, <2>8, <3>1, <3>2
  <2> QED BY <2>6, <2>9, <2>10
<1>3. ASSUME NEW S \in D, \A R \in D : rank[R] < rank[S] => R \in P PROVE S \in P
  BY <1>2, <1>3
<1> HIDE DEF P, rank, D, Has
<1>4. D \subseteq P
  BY <1>1, <1>3, RankInduction
<1>5. J \in P
  BY <1>4 DEF D
<1>6. Has(sorted[J])
  BY <1>5 DEF P
<1> QED BY <1>6 DEF Has

LEMMA PostgresGroup ==
  ASSUME IsDatabase(catalog), Consistent(catalog), dialect = "postgresql",
         NEW t, NEW k, IsReference(t, k), UniquelyNamed(t, k)
  PROVE  Group(PostgresForeignKeyRows, <<t, k.name>>) = RowsOfReference(t, k)
<1> DEFINE id == <<t, k.name>>
           w == RowsOfReference(t, k)
<1>1. PICK sorted : Sorts(sorted) /\ PostgresForeignKeyRows = JoinedRows(sorted[PostgresJoin])
  BY PostgresRowsSorted
<1>2. OnePerColumn(id, w)
  BY ColumnPerJoined
<1>3. w \in Seq(ForeignRow)
  BY ReferenceType, RowsOfReferenceType
<1> HIDE DEF w, id
<1>4. Those(PostgresForeignKeyRows, ReferringID(id)) = w
  BY <1>1, <1>2, <1>3, SortedPart
<1>5. Group(PostgresForeignKeyRows, id) = w
  BY <1>4, PostgresRowsType, GroupThose
<1> QED BY <1>5 DEF w, id

LEMMA PostgresGroups ==
  ASSUME IsDatabase(catalog), Consistent(catalog), dialect = "postgresql"
  PROVE  /\ \A id \in Groups(PostgresForeignKeyRows) :
              \E t, k : IsReference(t, k) /\ id = <<t, k.name>>
         /\ \A t, k : IsReference(t, k) => <<t, k.name>> \in Groups(PostgresForeignKeyRows)
<1>1. PICK sorted : Sorts(sorted) /\ PostgresForeignKeyRows = JoinedRows(sorted[PostgresJoin])
  BY PostgresRowsSorted
<1> DEFINE rows == sorted[PostgresJoin]
<1>2. \A i \in DOMAIN rows : rows[i] \in PostgresJoin
  <2> DEFINE J == PostgresJoin
  <2>1. rows \in Seq(J)
    BY <1>1 DEF Sorts
  <2> HIDE DEF J, rows
  <2>2. \A i \in DOMAIN rows : rows[i] \in J
    BY <2>1
  <2> QED BY <2>2 DEF J
<1>3. /\ DOMAIN PostgresForeignKeyRows = DOMAIN rows
      /\ \A i \in DOMAIN rows : PostgresForeignKeyRows[i] = JoinedRow(rows[i])
  BY <1>1 DEF JoinedRows
<1>4. \A x \in PostgresJoin : \E i \in DOMAIN rows : rows[i] = x
  BY <1>1, SortedCovers
<1> HIDE DEF rows
<1>5. ASSUME NEW id \in Groups(PostgresForeignKeyRows)
      PROVE  \E t, k : IsReference(t, k) /\ id = <<t, k.name>>
  <2>1. PICK i \in DOMAIN rows : id = ID(JoinedRow(rows[i]))
    BY <1>3 DEF Groups
  <2> DEFINE x == rows[i]
  <2>2. x \in PostgresJoin
    BY <1>2
  <2> HIDE DEF x
  <2>3. id = <<x.from.fk.table, x.from.fk.fk.name>>
    BY <2>1, <2>2, JoinedID DEF x
  <2>4. x.from.fk \in References(catalog)
    BY <2>2 DEF PostgresJoin, Referencing
  <2>5. PICK t \in DOMAIN catalog : \E k \in ToSet(catalog[t].foreignKeys) :
          x.from.fk = [table |-> t, fk |-> k]
    BY <2>4 DEF References
  <2>6. PICK k \in ToSet(catalog[t].foreignKeys) : x.from.fk = [table |-> t, fk |-> k]
    BY <2>5
  <2>7. id = <<t, k.name>>
    BY <2>3, <2>6
  <2> QED BY <2>6, <2>7 DEF IsReference
<1>6. ASSUME NEW t, NEW k, IsReference(t, k)
      PROVE  <<t, k.name>> \in Groups(PostgresForeignKeyRows)
  <2>1. 1 \in DOMAIN k.columns
    <3>1. k.columns \in Seq(Identifier) /\ k.columns # <<>>
      BY <1>6, ReferenceType
    <3> QED BY <3>1
  <2> DEFINE r == [table |-> t, fk |-> k]
             x == Pair(r, 1)
  <2>2. x \in PostgresJoin /\ x.from.fk = r
    BY <1>6, <2>1, PairJoined
  <2>3. r.table = t /\ r.fk = k
    OBVIOUS
  <2> HIDE DEF x, r
  <2>4. ID(JoinedRow(x)) = <<t, k.name>>
    BY <2>2, <2>3, JoinedID
  <2>5. PICK i \in DOMAIN rows : rows[i] = x
    BY <1>4, <2>2
  <2> QED BY <1>3, <2>4, <2>5 DEF Groups
<1> QED BY <1>5, <1>6
-----------------------------------------------------------------------------
\* Where the columns of a foreign key are paired for certain.
Certain(t, k) == dialect = "mysql" \/ UniquelyNamed(t, k)

\* Both queries: the groups are the foreign keys, each by its table and name,
\* and what AddReference adds for one is what the catalog says of it.
LEMMA GroupsOfReferences ==
  ASSUME IsDatabase(catalog), Consistent(catalog), dialect \in {"postgresql", "mysql"}
  PROVE  /\ \A id \in Groups(ForeignKeyRows) : \E t, k : IsReference(t, k) /\ id = <<t, k.name>>
         /\ \A t, k : IsReference(t, k) => <<t, k.name>> \in Groups(ForeignKeyRows)
         /\ \A t, k : IsReference(t, k) /\ Certain(t, k) =>
              Group(ForeignKeyRows, <<t, k.name>>) = RowsOfReference(t, k)
<1>1. CASE dialect = "postgresql"
  <2>1. ForeignKeyRows = PostgresForeignKeyRows
    BY <1>1 DEF ForeignKeyRows
  <2>2. \A t, k : Certain(t, k) => UniquelyNamed(t, k)
    BY <1>1 DEF Certain
  <2> QED BY <1>1, <2>1, <2>2, PostgresGroups, PostgresGroup
<1>2. CASE dialect = "mysql"
  <2>1. ForeignKeyRows = MySQLForeignKeyRows
    BY <1>2 DEF ForeignKeyRows
  <2>2. \A t, k : IsReference(t, k) =>
          Group(MySQLForeignKeyRows, <<t, k.name>>) = RowsOfReference(t, k)
    BY MySQLGroup
  <2>3. \A id \in Groups(MySQLForeignKeyRows) : \E t, k : IsReference(t, k) /\ id = <<t, k.name>>
    BY MySQLGroupIsReference
  <2>4. ASSUME NEW t, NEW k, IsReference(t, k) PROVE <<t, k.name>> \in Groups(MySQLForeignKeyRows)
    <3>1. 1 \in DOMAIN RowsOfReference(t, k)
      <4>1. k.columns \in Seq(Identifier) /\ k.columns # <<>>
        BY <2>4, ReferenceType
      <4>2. 1 \in DOMAIN k.columns
        BY <4>1
      <4> QED BY <4>2 DEF RowsOfReference
    <3>2. RowsOfReference(t, k) # <<>>
      BY <3>1
    <3> DEFINE id == <<t, k.name>>
    <3>3. Group(MySQLForeignKeyRows, id) # <<>>
      BY <2>2, <2>4, <3>2
    <3> HIDE DEF id
    <3>4. id \in Groups(MySQLForeignKeyRows)
      BY <3>3, MySQLRowsType, GroupThose
    <3> QED BY <3>4 DEF id
  <2> QED BY <2>1, <2>2, <2>3, <2>4
<1> QED BY <1>1, <1>2

LEMMA ReferenceRead ==
  ASSUME IsDatabase(catalog), NEW t, NEW k, IsReference(t, k),
         NEW group, group = RowsOfReference(t, k)
  PROVE  ForeignKey(ColumnsIn(group), group[1].schema, group[1].refTable,
                    [j \in DOMAIN group |-> group[j].refColumn]) = Reported(k)
<1>1. /\ k.columns \in Seq(Identifier) /\ k.columns # <<>>
      /\ k.referencedColumns \in Seq(Identifier) /\ Len(k.referencedColumns) = Len(k.columns)
  BY ReferenceType
<1>2. /\ 1 \in DOMAIN k.columns /\ DOMAIN k.columns = DOMAIN k.referencedColumns
      /\ k.columns = [j \in DOMAIN k.columns |-> k.columns[j]]
      /\ k.referencedColumns = [j \in DOMAIN k.columns |-> k.referencedColumns[j]]
  BY <1>1
<1>3. /\ DOMAIN group = DOMAIN k.columns
      /\ \A j \in DOMAIN k.columns :
           /\ group[j].table = t /\ group[j].schema = k.schema /\ group[j].refTable = k.table
           /\ group[j].column = k.columns[j] /\ group[j].refColumn = k.referencedColumns[j]
  BY DEF RowsOfReference, ForeignKeyRow
<1>4. ColumnsIn(group) = k.columns
  <2>1. ColumnsIn(group) = [j \in DOMAIN k.columns |-> k.columns[j]]
    BY <1>3 DEF ColumnsIn
  <2> QED BY <1>2, <2>1
<1>5. [j \in DOMAIN group |-> group[j].refColumn] = k.referencedColumns
  <2>1. [j \in DOMAIN group |-> group[j].refColumn] =
          [j \in DOMAIN k.columns |-> k.referencedColumns[j]]
    BY <1>3
  <2> QED BY <1>2, <2>1
<1>6. group[1].table = t /\ group[1].schema = k.schema /\ group[1].refTable = k.table
  BY <1>2, <1>3
<1> QED BY <1>4, <1>5, <1>6, Zenon DEF Reported

\* Those of a set of groups that are of a table.
Here(ids, name) == {id \in ids : id[1] = name}

\* place says where the foreign keys of a table, whose groups are in ids, were
\* read to: each to a place of its own, and there is no other place.
Placing(place, read, name, ids) ==
  /\ place \in [Here(ids, name) -> DOMAIN read]
  /\ IsInjective(place)
  /\ \A j \in DOMAIN read : \E id \in Here(ids, name) : place[id] = j
  /\ \A k : IsReference(name, k) /\ Certain(name, k) /\ <<name, k.name>> \in ids =>
       read[place[<<name, k.name>>]] = Reported(k)
PlacedFrom(read, name, ids) == \E place : Placing(place, read, name, ids)

LEMMA PlacingMore ==
  ASSUME IsDatabase(catalog), NEW T, NEW read \in Seq(T), NEW key \in T,
         NEW t, NEW k, IsReference(t, k), Certain(t, k) => key = Reported(k),
         NEW ids, <<t, k.name>> \notin ids, PlacedFrom(read, t, ids)
  PROVE  PlacedFrom(Append(read, key), t, ids \union {<<t, k.name>>})
<1> DEFINE id == <<t, k.name>>
           all == ids \union {id}
           more == Append(read, key)
           last == Len(read) + 1
<1>1. PICK place : Placing(place, read, t, ids)
  BY DEF PlacedFrom
<1> DEFINE now == [x \in Here(all, t) |-> IF x = id THEN last ELSE place[x]]
<1>2. /\ Len(read) \in Nat /\ DOMAIN read = 1 .. Len(read) /\ DOMAIN more = 1 .. last
      /\ more[last] = key /\ \A j \in DOMAIN read : more[j] = read[j]
  OBVIOUS
<1>3. /\ DOMAIN more = DOMAIN read \union {last} /\ last \notin DOMAIN read
  BY <1>2
<1>4. id[1] = t
  OBVIOUS
<1>5. \A l : IsReference(t, l) /\ <<t, l.name>> = id => l = k
  BY SameReference
<1> HIDE DEF id, more, last
<1>6. Here(all, t) = Here(ids, t) \union {id} /\ id \notin Here(ids, t)
  BY <1>4 DEF Here, id
<1>7. /\ place \in [Here(ids, t) -> DOMAIN read] /\ IsInjective(place)
      /\ \A j \in DOMAIN read : \E x \in Here(ids, t) : place[x] = j
  BY <1>1 DEF Placing
<1>8. \A l : IsReference(t, l) /\ Certain(t, l) /\ <<t, l.name>> \in ids =>
        read[place[<<t, l.name>>]] = Reported(l)
  BY <1>1 DEF Placing
<1>9. /\ now[id] = last /\ \A x \in Here(ids, t) : now[x] = place[x]
      /\ DOMAIN now = Here(all, t) /\ now \in [Here(all, t) -> DOMAIN more]
  BY <1>3, <1>6, <1>7
<1> HIDE DEF all, now
<1>10. \A x \in Here(ids, t) : place[x] \in DOMAIN read
  BY <1>7
<1>11. IsInjective(now)
  <2> SUFFICES ASSUME NEW x \in Here(all, t), NEW y \in Here(all, t), now[x] = now[y]
               PROVE  x = y
    BY <1>9 DEF IsInjective
  <2>1. CASE x \in Here(ids, t) /\ y \in Here(ids, t)
    <3>1. x \in DOMAIN place /\ y \in DOMAIN place /\ place[x] = place[y]
      BY <1>7, <1>9, <2>1
    <3> QED BY <1>7, <3>1 DEF IsInjective
  <2>2. CASE x = id \/ y = id
    BY <1>3, <1>6, <1>9, <1>10, <2>2
  <2> QED BY <1>6, <2>1, <2>2
<1>12. \A j \in DOMAIN more : \E x \in Here(all, t) : now[x] = j
  BY <1>3, <1>6, <1>7, <1>9
<1>13. ASSUME NEW l, IsReference(t, l), Certain(t, l), <<t, l.name>> \in all
       PROVE  more[now[<<t, l.name>>]] = Reported(l)
  <2>1. CASE <<t, l.name>> = id
    <3>1. l = k
      BY <1>5, <1>13, <2>1
    <3> QED BY <1>2, <1>9, <1>13, <2>1, <3>1
  <2>2. CASE <<t, l.name>> # id
    <3> DEFINE x == <<t, l.name>>
    <3>1. x \in ids /\ x[1] = t
      BY <1>13, <2>2 DEF all
    <3>2. read[place[x]] = Reported(l)
      BY <1>8, <1>13, <3>1
    <3> HIDE DEF x
    <3>3. x \in Here(ids, t)
      BY <3>1 DEF Here
    <3>4. more[now[x]] = Reported(l)
      BY <1>2, <1>9, <1>10, <3>2, <3>3
    <3> QED BY <3>4 DEF x
  <2> QED BY <2>1, <2>2
<1>14. Placing(now, more, t, all)
  BY <1>9, <1>11, <1>12, <1>13 DEF Placing
<1>15. PlacedFrom(more, t, all)
  BY <1>14 DEF PlacedFrom
<1> QED BY <1>15 DEF more, all, id

LEMMA PlacingOthers ==
  ASSUME NEW read, NEW name, NEW t, NEW k, name # t, NEW ids, PlacedFrom(read, name, ids)
  PROVE  PlacedFrom(read, name, ids \union {<<t, k.name>>})
<1> DEFINE id == <<t, k.name>>
           all == ids \union {id}
<1>1. PICK place : Placing(place, read, name, ids)
  BY DEF PlacedFrom
<1>2. id[1] # name /\ \A l : <<name, l.name>> # id
  OBVIOUS
<1> HIDE DEF id
<1>3. Here(all, name) = Here(ids, name)
  BY <1>2 DEF Here
<1>4. \A l : <<name, l.name>> \in all => <<name, l.name>> \in ids
  BY <1>2
<1> HIDE DEF all
<1>5. Placing(place, read, name, all)
  BY <1>1, <1>3, <1>4 DEF Placing
<1>6. PlacedFrom(read, name, all)
  BY <1>5 DEF PlacedFrom
<1> QED BY <1>6 DEF all, id

\* Every table, the first only when it is settled, has the foreign keys in ids.
PlacedIn(tables, ids) ==
  \A i \in DOMAIN tables : Settled(tables, i) =>
    PlacedFrom(tables[i].foreignKeys, tables[i].name, ids)

LEMMA PlacedStep ==
  ASSUME IsDatabase(catalog), Consistent(catalog), dialect \in {"postgresql", "mysql"},
         NEW tables \in Seq(TableRead), tables # <<>>,
         \A i, j \in DOMAIN tables : tables[i].name = tables[j].name => i = j,
         NEW ids, PlacedIn(tables, ids), NEW id \in Groups(ForeignKeyRows), id \notin ids
  PROVE  PlacedIn(AddReference(ForeignKeyRows, tables, id), ids \union {id})
<1> DEFINE rows == ForeignKeyRows
           group == Group(rows, id)
           key == ForeignKey(ColumnsIn(group), group[1].schema, group[1].refTable,
                             [j \in DOMAIN group |-> group[j].refColumn])
           new == AddReference(rows, tables, id)
           all == ids \union {id}
<1>1. PICK t, k : IsReference(t, k) /\ id = <<t, k.name>>
  BY GroupsOfReferences
<1>2. rows \in Seq(ForeignRow)
  BY ForeignKeyRowsType
<1>3. new \in Seq(TableRead) /\ SameTables(tables, new)
  BY ForeignKeyRowsType, AddReferenceType
<1> DEFINE p == Index(tables, t)
<1>4. group[1].table = t
  <2> HIDE DEF rows
  <2>1. group \in Seq(ForeignRow) /\ group # <<>> /\ \A j \in DOMAIN group : ID(group[j]) = id
    BY <1>2, GroupRows DEF rows
  <2> HIDE DEF group
  <2>2. 1 \in DOMAIN group
    BY <2>1
  <2> QED BY <1>1, <2>1, <2>2 DEF ID
<1>5. new = AddForeignKey(tables, p, key)
  BY <1>4 DEF AddReference
<1>6. Certain(t, k) => key = Reported(k)
  <2> SUFFICES ASSUME Certain(t, k) PROVE key = Reported(k)
    OBVIOUS
  <2>1. group = RowsOfReference(t, k)
    BY <1>1, GroupsOfReferences
  <2> HIDE DEF rows
  <2> HIDE DEF group
  <2>2. ForeignKey(ColumnsIn(group), group[1].schema, group[1].refTable,
                   [j \in DOMAIN group |-> group[j].refColumn]) = Reported(k)
    BY <1>1, <2>1, ReferenceRead
  <2> QED BY <2>2
<1>7. p \in DOMAIN tables
  BY IndexInDomain
<1> HIDE DEF rows, group, key, new, p
<1>8. \A i \in DOMAIN tables : tables[i] \in TableRead
  <2> DEFINE T == TableRead
  <2>1. tables \in Seq(T)
    OBVIOUS
  <2> HIDE DEF T
  <2>2. \A i \in DOMAIN tables : tables[i] \in T
    BY <2>1
  <2> QED BY <2>2 DEF T
<1>9. "foreignKeys" \in DOMAIN tables[p] /\ tables[p].foreignKeys \in Seq(KeyRead)
  BY <1>7, <1>8 DEF TableRead
<1>10. /\ \A i \in DOMAIN tables : i # p => new[i] = tables[i]
       /\ new[p].foreignKeys = Append(tables[p].foreignKeys, key)
  BY <1>5, <1>7, <1>9 DEF AddForeignKey
<1>11. /\ DOMAIN new = DOMAIN tables
       /\ \A i \in DOMAIN tables : Settled(new, i) => Settled(tables, i)
       /\ \A i \in DOMAIN tables : new[i].name = tables[i].name
  BY <1>3, SameSettled DEF SameTables
<1>12. \A i \in DOMAIN tables : Settled(tables, i) => (i = p <=> tables[i].name = t)
  <2>1. t \in DOMAIN catalog
    BY <1>1 DEF IsReference
  <2> QED BY <2>1, IndexOfTable DEF p
<1> SUFFICES ASSUME NEW i \in DOMAIN tables, Settled(tables, i)
             PROVE  PlacedFrom(new[i].foreignKeys, tables[i].name, all)
  BY <1>11 DEF PlacedIn, new, rows
<1>13. PlacedFrom(tables[i].foreignKeys, tables[i].name, ids)
  BY DEF PlacedIn
<1>14. CASE i # p
  <2>1. tables[i].name # t
    BY <1>12, <1>14
  <2>2. PlacedFrom(tables[i].foreignKeys, tables[i].name, ids \union {<<t, k.name>>})
    BY <1>13, <2>1, PlacingOthers
  <2> QED BY <1>1, <1>10, <1>14, <2>2
<1>15. CASE i = p
  <2> DEFINE read == tables[p].foreignKeys
             T == KeyRead \union {key}
  <2>1. tables[p].name = t /\ PlacedFrom(read, t, ids)
    BY <1>12, <1>13, <1>15
  <2>2. read \in Seq(T) /\ key \in T
    <3> DEFINE K == KeyRead
    <3>1. read \in Seq(K)
      BY <1>9
    <3> HIDE DEF K, read
    <3>2. read \in Seq(K \union {key})
      BY <3>1, SeqWidens
    <3> QED BY <3>2 DEF K
  <2> HIDE DEF read, T
  <2>3. PlacedFrom(Append(read, key), t, ids \union {<<t, k.name>>})
    BY <1>1, <1>6, <2>1, <2>2, PlacingMore
  <2> QED BY <1>1, <1>10, <1>15, <2>1, <2>3 DEF read
<1> QED BY <1>14, <1>15

\* The walk takes no group twice.
LEMMA TakenOnce ==
  ASSUME NEW T, NEW rows \in Seq(T), NEW order \in SetToSeqs(Groups(rows)),
         NEW n \in Nat, n + 1 \in DOMAIN order
  PROVE  order[n + 1] \notin Taken(order, n)
<1>1. DOMAIN order = 1 .. Cardinality(Groups(rows))
      /\ \A i, j \in 1 .. Cardinality(Groups(rows)) : i # j => order[i] # order[j]
  BY DEF SetToSeqs
<1>2. order \in Seq(Groups(rows))
  BY OrdersOf
<1>3. \A j \in 1 .. n : j \in DOMAIN order /\ j # n + 1
  BY <1>2
<1> QED BY <1>1, <1>3 DEF Taken

LEMMA PlacedWalk ==
  ASSUME IsDatabase(catalog), Consistent(catalog), dialect \in {"postgresql", "mysql"},
         NEW tables \in Seq(TableRead), OnceEach(tables, <<>>),
         NEW order \in SetToSeqs(Groups(ForeignKeyRows)),
         NEW f, ReferencesWalk(f, ForeignKeyRows, tables, order), PlacedIn(tables, {})
  PROVE  PlacedIn(f[Len(order)], Taken(order, Len(order)))
<1> DEFINE P == {n \in Nat : n \in 0 .. Len(order) => PlacedIn(f[n], Taken(order, n))}
<1>1. /\ Len(order) \in Nat /\ DOMAIN order = 1 .. Len(order)
      /\ \A n \in 1 .. Len(order) : order[n] \in Groups(ForeignKeyRows)
  <2>1. order \in Seq(Groups(ForeignKeyRows))
    BY ForeignKeyRowsType, OrdersOf
  <2> QED BY <2>1
<1>2. 0 \in P
  <2>1. Taken(order, 0) = {}
    BY DEF Taken
  <2>2. f[0] = tables
    BY DEF ReferencesWalk
  <2> QED BY <2>1, <2>2
<1>3. ASSUME NEW n \in Nat, n \in P, n + 1 \in 0 .. Len(order)
      PROVE  PlacedIn(f[n + 1], Taken(order, n + 1))
  <2>1. n \in 0 .. Len(order) /\ n + 1 \in 1 .. Len(order) /\ (n + 1) - 1 = n
    BY <1>1, <1>3
  <2>2. f[n] \in Alike(tables) /\ f[n + 1] \in Alike(tables)
    BY <1>3, <2>1 DEF ReferencesWalk
  <2>3. f[n + 1] = AddReference(ForeignKeyRows, f[n], order[n + 1])
    BY <2>1 DEF ReferencesWalk
  <2>4. Taken(order, n + 1) = Taken(order, n) \union {order[n + 1]}
    <3>1. \A j : j \in 1 .. n + 1 <=> j \in 1 .. n \/ j = n + 1
      OBVIOUS
    <3> QED BY <3>1 DEF Taken
  <2>5. PlacedIn(f[n], Taken(order, n)) /\ order[n + 1] \in Groups(ForeignKeyRows)
    BY <1>1, <1>3, <2>1
  <2>6. /\ f[n] \in Seq(TableRead) /\ SameTables(tables, f[n])
        /\ f[n + 1] \in Seq(TableRead) /\ SameTables(tables, f[n + 1])
    BY <2>2 DEF Alike
  <2>7. order[n + 1] \notin Taken(order, n)
    BY <1>1, <2>1, ForeignKeyRowsType, TakenOnce
  <2>8. CASE tables = <<>>
    <3>1. Len(f[n + 1]) = 0
      BY <2>6, <2>8 DEF SameTables
    <3>2. DOMAIN f[n + 1] = {}
      <4> DEFINE T == TableRead
                 t == f[n + 1]
      <4>1. t \in Seq(T) /\ Len(t) = 0
        BY <2>6, <3>1
      <4> HIDE DEF T, t
      <4>2. DOMAIN t = {}
        BY <4>1
      <4> QED BY <4>2 DEF t
    <3> QED BY <3>2 DEF PlacedIn
  <2>9. CASE tables # <<>>
    <3>1. OnceEach(f[n], <<>>) /\ f[n] # <<>>
      BY <2>6, <2>9, SameOnce
    <3>2. \A i, j \in DOMAIN f[n] : f[n][i].name = f[n][j].name => i = j
      BY <3>1 DEF OnceEach
    <3>3. PlacedIn(AddReference(ForeignKeyRows, f[n], order[n + 1]),
                   Taken(order, n) \union {order[n + 1]})
      BY <2>5, <2>6, <2>7, <3>1, <3>2, PlacedStep
    <3> QED BY <2>3, <2>4, <3>3
  <2> QED BY <2>8, <2>9
<1>4. \A n \in Nat : n \in P => n + 1 \in P
  BY <1>3
<1> HIDE DEF P
<1>5. Nat \subseteq P
  BY <1>2, <1>4, NatSetInduction
<1> QED BY <1>1, <1>5 DEF P

LEMMA NonePlaced ==
  ASSUME NEW tables, Unreferencing(tables)
  PROVE  PlacedIn(tables, {})
<1>1. \A name : Here({}, name) = {}
  BY DEF Here
<1>2. DOMAIN <<>> = {} /\ <<>> \in [{} -> {}]
  OBVIOUS
<1>3. IsInjective(<<>>)
  BY <1>2 DEF IsInjective
<1>4. \A name : Placing(<<>>, <<>>, name, {})
  BY <1>1, <1>2, <1>3 DEF Placing
<1>5. \A name : PlacedFrom(<<>>, name, {})
  BY <1>4 DEF PlacedFrom
<1> QED BY <1>5 DEF PlacedIn, Unreferencing

\* With every group added, the foreign keys are those of the catalog.
LEMMA AllPlaced ==
  ASSUME IsDatabase(catalog), Consistent(catalog), dialect \in {"postgresql", "mysql"},
         NEW name, NEW T, NEW read \in Seq(T), PlacedFrom(read, name, Groups(ForeignKeyRows))
  PROVE  LET keys == Definition(name).foreignKeys
         IN /\ Len(read) = Len(keys)
            /\ \E place \in [DOMAIN keys -> DOMAIN read] :
                 /\ IsInjective(place)
                 /\ \A m \in DOMAIN keys :
                      Certain(name, keys[m]) => read[place[m]] = Reported(keys[m])
<1> DEFINE keys == Definition(name).foreignKeys
           ids == Groups(ForeignKeyRows)
           id(m) == <<name, keys[m].name>>
<1>1. /\ keys \in Seq(ForeignKeyDefinition) /\ ReferencesDiffer(keys)
      /\ \A k : IsReference(name, k) <=> \E m \in DOMAIN keys : keys[m] = k
  <2>1. CASE name \in DOMAIN catalog
    <3>1. Definition(name) = catalog[name] /\ catalog[name] \in DefinitionType
      BY <2>1 DEF Definition, IsDatabase
    <3>2. \A k : IsReference(name, k) <=> k \in ToSet(keys)
      BY <2>1, <3>1 DEF IsReference
    <3>3. \A k : k \in ToSet(keys) <=> \E m \in DOMAIN keys : keys[m] = k
      BY DEF ToSet
    <3> QED BY <3>1, <3>2, <3>3 DEF DefinitionType
  <2>2. CASE name \notin DOMAIN catalog
    <3>1. keys = <<>>
      BY <2>2, SMT DEF Definition
    <3> HIDE DEF keys
    <3>2. DOMAIN keys = {}
      BY <3>1
    <3> QED BY <2>2, <3>1, <3>2 DEF IsReference, ReferencesDiffer
  <2> QED BY <2>1, <2>2
<1> HIDE DEF keys, ids
<1>2. Len(keys) \in Nat /\ DOMAIN keys = 1 .. Len(keys)
      /\ Len(read) \in Nat /\ DOMAIN read = 1 .. Len(read)
  BY <1>1
<1>3. \A m \in DOMAIN keys :
        IsReference(name, keys[m]) /\ id(m) \in ids /\ id(m) \in Here(ids, name)
  <2> SUFFICES ASSUME NEW m \in DOMAIN keys
               PROVE  IsReference(name, keys[m]) /\ id(m) \in ids /\ id(m) \in Here(ids, name)
    OBVIOUS
  <2>1. IsReference(name, keys[m])
    BY <1>1
  <2>2. id(m) \in ids
    BY <2>1, GroupsOfReferences DEF ids
  <2> QED BY <2>1, <2>2 DEF Here
<1>4. \A x \in Here(ids, name) : \E m \in DOMAIN keys : x = id(m)
  <2> SUFFICES ASSUME NEW x \in Here(ids, name) PROVE \E m \in DOMAIN keys : x = id(m)
    OBVIOUS
  <2>1. PICK t, k : IsReference(t, k) /\ x = <<t, k.name>>
    BY GroupsOfReferences DEF Here, ids
  <2>2. t = name
    BY <2>1 DEF Here
  <2> QED BY <1>1, <2>1, <2>2
<1>5. \A l, m \in DOMAIN keys : id(l) = id(m) => l = m
  BY <1>1 DEF ReferencesDiffer
<1>6. PICK place : Placing(place, read, name, ids)
  BY DEF PlacedFrom, ids
<1>7. /\ place \in [Here(ids, name) -> DOMAIN read] /\ IsInjective(place)
      /\ \A j \in DOMAIN read : \E x \in Here(ids, name) : place[x] = j
  BY <1>6 DEF Placing
<1>8. \A m \in DOMAIN keys : Certain(name, keys[m]) => read[place[id(m)]] = Reported(keys[m])
  BY <1>3, <1>6 DEF Placing
<1> HIDE DEF id
<1> DEFINE q == [m \in DOMAIN keys |-> place[id(m)]]
<1>9. q \in [DOMAIN keys -> DOMAIN read]
  BY <1>3, <1>7
<1>10. IsInjective(q)
  BY <1>3, <1>5, <1>7 DEF IsInjective
<1>11. \A j \in DOMAIN read : \E m \in DOMAIN keys : q[m] = j
  BY <1>4, <1>7
<1>12. \A m \in DOMAIN keys : Certain(name, keys[m]) => read[q[m]] = Reported(keys[m])
  BY <1>8
<1> HIDE DEF q
<1>13. Len(read) = Len(keys)
  <2>1. q \in Bijection(DOMAIN keys, DOMAIN read)
    BY <1>9, <1>10, <1>11 DEF Bijection, Injection, Surjection, IsInjective
  <2>2. ExistsBijection(DOMAIN keys, DOMAIN read)
    BY <2>1 DEF ExistsBijection
  <2>3. /\ IsFiniteSet(1 .. Len(keys)) /\ Cardinality(1 .. Len(keys)) = Len(keys)
        /\ Cardinality(1 .. Len(read)) = Len(read)
    <3> DEFINE m == Len(keys)
               n == Len(read)
    <3>1. m \in Nat /\ n \in Nat
      BY <1>2
    <3> HIDE DEF m, n
    <3>2. IsFiniteSet(1 .. m) /\ Cardinality(1 .. m) = m /\ Cardinality(1 .. n) = n
      BY <3>1, FS_Interval
    <3> QED BY <3>2 DEF m, n
  <2>4. /\ IsFiniteSet(DOMAIN keys) /\ Cardinality(DOMAIN keys) = Len(keys)
        /\ Cardinality(DOMAIN read) = Len(read)
    BY <1>2, <2>3
  <2> QED BY <2>2, <2>4, FS_Bijection
<1>14. /\ Len(read) = Len(keys)
       /\ \E at \in [DOMAIN keys -> DOMAIN read] :
            /\ IsInjective(at)
            /\ \A m \in DOMAIN keys :
                 Certain(name, keys[m]) => read[at[m]] = Reported(keys[m])
  BY <1>9, <1>10, <1>12, <1>13
<1> QED BY <1>14, Zenon DEF keys

\* When PostgreSQL's or MySQL's foreign keys have been read (addForeignKeys and
\* its grouping by table and constraint name), every table has as many as the
\* catalog had at that moment, each at a place of its own and with its columns
\* paired with those they reference, in whatever order the map was walked and
\* the rows of different constraints were mixed. PostgreSQL's query joins by
\* name, and is right about the constraints that are uniquely named.
THEOREM ForeignKeysReachTheirTables == Spec => ForeignKeysPairColumns
<1> DEFINE A == pc = "foreign" /\ pc' = "introspected" =>
                  \A i \in DOMAIN result' :
                    Settled(result', i) =>
                      LET t    == result'[i].name
                          keys == Definition(t).foreignKeys
                          read == result'[i].foreignKeys
                      IN /\ Len(read) = Len(keys)
                         /\ \E place \in [DOMAIN keys -> DOMAIN read] :
                              /\ IsInjective(place)
                              /\ \A m \in DOMAIN keys :
                                   dialect = "mysql" \/ UniquelyNamed(t, keys[m]) =>
                                     read[place[m]] = Reported(keys[m])
<1>1. IInv /\ CatalogInv /\ UnreferencingInv /\ [Next]_vars => A
  <2> SUFFICES ASSUME IInv, CatalogInv, UnreferencingInv, [Next]_vars,
                      pc = "foreign", pc' = "introspected"
               PROVE  A
    OBVIOUS
  <2>1. ReadForeignKeys
    BY DEF Next, vars, introspectVars, Introspection, GenerateSource, ReadFails, ReadColumns,
           ReadKeys, Collect, ReadTableNames, ReadTable, ReadIndexList, ReadIndexColumns,
           FinishIndexes, ReadReferences, ResolveReferencedColumns
  <2>2. /\ IsDatabase(catalog) /\ result \in Seq(TableRead) /\ Unreferencing(result)
        /\ Consistent(catalog) /\ dialect \in {"postgresql", "mysql"}
    BY DEF IInv, Typed, UnreferencingInv, CatalogInv
  <2>3. result' \in Seq(TableRead)
    BY <2>1, <2>2, ReadForeignKeysStep DEF Alike
  <2>4. PICK order \in SetToSeqs(Groups(ForeignKeyRows)) :
          \E f : ReferencesWalk(f, ForeignKeyRows, result, order) /\ result' = f[Len(order)]
    BY <2>1, <2>2, ReadForeignKeysStep
  <2>5. PICK f : ReferencesWalk(f, ForeignKeyRows, result, order) /\ result' = f[Len(order)]
    BY <2>4
  <2>6. Taken(order, Len(order)) = Groups(ForeignKeyRows)
    BY <2>2, ForeignKeyRowsType, AllTaken
  <2>7. OnceEach(result, <<>>)
    <3>1. Unread = <<>>
      BY DEF Unread, Inside
    <3> QED BY <3>1 DEF IInv
  <2>8. PlacedIn(f[Len(order)], Taken(order, Len(order)))
    BY <2>2, <2>5, <2>7, NonePlaced, PlacedWalk
  <2>9. PlacedIn(result', Groups(ForeignKeyRows))
    BY <2>5, <2>6, <2>8
  <2> SUFFICES ASSUME NEW i \in DOMAIN result', Settled(result', i)
               PROVE  LET t    == result'[i].name
                          keys == Definition(t).foreignKeys
                          read == result'[i].foreignKeys
                      IN /\ Len(read) = Len(keys)
                         /\ \E place \in [DOMAIN keys -> DOMAIN read] :
                              /\ IsInjective(place)
                              /\ \A m \in DOMAIN keys :
                                   dialect = "mysql" \/ UniquelyNamed(t, keys[m]) =>
                                     read[place[m]] = Reported(keys[m])
    OBVIOUS
  <2>10. PlacedFrom(result'[i].foreignKeys, result'[i].name, Groups(ForeignKeyRows))
    BY <2>9 DEF PlacedIn
  <2>11. result'[i].foreignKeys \in Seq(KeyRead)
    <3> DEFINE T == TableRead
               tables == result'
    <3>1. tables \in Seq(T) /\ i \in DOMAIN tables
      BY <2>3
    <3> HIDE DEF T, tables
    <3>2. tables[i] \in T
      BY <3>1
    <3> QED BY <3>2 DEF T, tables, TableRead
  <2> DEFINE t == result'[i].name
             read == result'[i].foreignKeys
  <2> HIDE DEF t, read
  <2>12. PlacedFrom(read, t, Groups(ForeignKeyRows)) /\ read \in Seq(KeyRead)
    BY <2>10, <2>11 DEF t, read
  <2>13. LET keys == Definition(t).foreignKeys
         IN /\ Len(read) = Len(keys)
            /\ \E place \in [DOMAIN keys -> DOMAIN read] :
                 /\ IsInjective(place)
                 /\ \A m \in DOMAIN keys :
                      Certain(t, keys[m]) => read[place[m]] = Reported(keys[m])
    BY <2>2, <2>12, AllPlaced
  <2> QED BY <2>13 DEF Certain, t, read
<1>2. IInv /\ CatalogInv /\ UnreferencingInv /\ [Next]_vars => [A]_vars
  BY <1>1
<1> HIDE DEF A
<1>3. Spec => [][A]_vars
  BY <1>2, Invariant, CatalogStaysConsistent, UnreferencingUntilRead, PTL DEF Spec
<1> QED BY <1>3 DEF ForeignKeysPairColumns, A
=============================================================================
