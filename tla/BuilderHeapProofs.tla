-------------------------- MODULE BuilderHeapProofs --------------------------
(***************************************************************************)
(* Whatever lists hold, however long the caller's slice is and however     *)
(* much room append leaves: no builder holds a slice of the caller's, no   *)
(* method writes into an array that was there before its call, and the     *)
(* family shows what independent values would show.                        *)
(***************************************************************************)
EXTENDS BuilderHeap, SequenceTheorems, TLAPS

Tags == {"leaf", "zero", "join", "row", "logical"}
Labels == Names \union {"", "inner", "cross", "AND"}
Kinds == {"joined", "select", "insert", "conflict", "update"}
SliceType == [array : Nat, length : Nat]
CellType == [tag : Tags, name : Labels, slice : SliceType]
ValueType == [kind : Kinds, slices : [Fields -> SliceType]]

\* A slice that a builder may hold, and one that may be passed to a method.
Held(h, s) ==
  \/ s.length = 0
  \/ s.array \in 2 .. Len(h) /\ s.length \in 1 .. Len(h[s.array])
Passed(h, s) ==
  /\ s \in SliceType
  /\ s.length = 0 \/ (s.array \in 1 .. Len(h) /\ s.length \in 1 .. Len(h[s.array]))

Items(h, cells) ==
  cells \in Seq(CellType) /\ \A i \in 1 .. Len(cells) : Held(h, cells[i].slice)
HeapOK(h) ==
  /\ h \in Seq(Seq(CellType)) /\ Len(h) >= 1
  /\ \A a \in 1 .. Len(h) : Items(h, h[a])
ValueOK(h, value) ==
  value \in ValueType /\ \A f \in Fields : Held(h, value.slices[f])

Grown(h, g) == Len(g) >= Len(h) /\ \A a \in 1 .. Len(h) : g[a] = h[a]
New(h, g, a) == a \in Len(h) + 1 .. Len(g)
Written(g, a, cells) == [g EXCEPT ![a] = cells]

\* What an allocating operator may do: leave every old array alone and return
\* a slice of a new one, unless it is empty.
Allocated(h, made) ==
  /\ HeapOK(made.heap) /\ Grown(h, made.heap)
  /\ made.slice \in SliceType /\ Held(made.heap, made.slice)
  /\ made.slice.length > 0 => made.slice.array > Len(h)

\* The slice shows these cells.
Shows(g, s, cells) ==
  s.length = Len(cells) /\ \A i \in 1 .. Len(cells) : g[s.array][i] = cells[i]

\* The inductive invariant: the heap is well formed, array 1 is the caller's,
\* and no cell of any array and no builder holds a slice of array 1.
HeapInv ==
  /\ HeapOK(heap) /\ Len(heap[1]) = Width
  /\ family \in Seq(ValueType)
  /\ \A i \in 1 .. Len(family) : ValueOK(heap, family[i])

-----------------------------------------------------------------------------
(***************************************************************************)
(* Slices.                                                                 *)
(***************************************************************************)

LEMMA FunctionIsSeq ==
  ASSUME NEW n \in Nat, NEW S, NEW f, f = [i \in 1 .. n |-> f[i]],
         \A i \in 1 .. n : f[i] \in S
  PROVE  f \in Seq(S) /\ Len(f) = n
<1>1. f \in [1 .. n -> S] /\ DOMAIN f = 1 .. n
  OBVIOUS
<1>2. f \in Seq(S)
  BY <1>1
<1> QED
  BY <1>1, <1>2, LenProperties

\* A slice stays valid when arrays are added.
LEMMA HeldGrown ==
  ASSUME NEW h, NEW g, HeapOK(h), Grown(h, g), HeapOK(g), NEW s, Held(h, s)
  PROVE  Held(g, s)
<1>1. CASE s.length = 0
  BY <1>1 DEF Held
<1>2. CASE s.array \in 2 .. Len(h) /\ s.length \in 1 .. Len(h[s.array])
  <2>1. Len(h) \in Nat /\ Len(g) \in Nat
    BY LenProperties DEF HeapOK
  <2>2. s.array \in 2 .. Len(g) /\ g[s.array] = h[s.array]
    BY <1>2, <2>1 DEF Grown
  <2> QED
    BY <1>2, <2>2 DEF Held
<1> QED
  BY <1>1, <1>2 DEF Held

LEMMA ItemsGrown ==
  ASSUME NEW h, NEW g, HeapOK(h), Grown(h, g), HeapOK(g), NEW cells, Items(h, cells)
  PROVE  Items(g, cells)
BY HeldGrown DEF Items

LEMMA ValueGrown ==
  ASSUME NEW h, NEW g, HeapOK(h), Grown(h, g), HeapOK(g), NEW value, ValueOK(h, value)
  PROVE  ValueOK(g, value)
BY HeldGrown DEF ValueOK

LEMMA GrownTransitive ==
  ASSUME NEW h, NEW g, NEW k, HeapOK(h), HeapOK(g), HeapOK(k), Grown(h, g), Grown(g, k)
  PROVE  Grown(h, k)
<1>1. Len(h) \in Nat /\ Len(g) \in Nat /\ Len(k) \in Nat
  BY LenProperties DEF HeapOK
<1> QED
  BY <1>1 DEF Grown

\* What a slice shows are cells of the heap, as many as it is long.
LEMMA CellsAreItems ==
  ASSUME NEW h, HeapOK(h), NEW s, Passed(h, s)
  PROVE  Items(h, Cells(h, s)) /\ Len(Cells(h, s)) = s.length
<1>1. CASE s.length = 0
  <2>1. Cells(h, s) = <<>>
    BY <1>1 DEF Cells
  <2> QED
    BY <1>1, <2>1 DEF Items
<1>2. CASE s.length # 0
  <2>1. s.array \in 1 .. Len(h) /\ s.length \in 1 .. Len(h[s.array])
    BY <1>2 DEF Passed
  <2>2. h[s.array] \in Seq(CellType) /\ Items(h, h[s.array])
    BY <2>1 DEF HeapOK, Items
  <2>3. Cells(h, s) = SubSeq(h[s.array], 1, s.length)
    BY <1>2 DEF Cells
  <2> DEFINE cells == h[s.array]
  <2>4. Len(cells) \in Nat
    BY <2>2, LenProperties
  <2>5. SubSeq(cells, 1, s.length) = [i \in 1 .. s.length |-> cells[i]]
    BY <2>1, <2>2, <2>4
  <2>6. \A i \in 1 .. s.length : cells[i] \in CellType /\ Held(h, cells[i].slice)
    BY <2>1, <2>2, <2>4 DEF Items
  <2>7. s.length \in Nat
    BY DEF Passed, SliceType
  <2> HIDE DEF cells
  <2>8. [i \in 1 .. s.length |-> cells[i]] \in Seq(CellType)
    BY <2>6, <2>7
  <2>9. Len([i \in 1 .. s.length |-> cells[i]]) = s.length
    BY <2>7, <2>8
  <2> QED
    BY <2>3, <2>5, <2>6, <2>8, <2>9 DEF cells, Items
<1> QED
  BY <1>1, <1>2

\* Room that append leaves.
LEMMA ZerosAreCells ==
  ASSUME NEW n \in Nat
  PROVE  /\ Zeros(n) \in Seq(CellType) /\ Len(Zeros(n)) = n
         /\ \A i \in 1 .. n : Zeros(n)[i].slice = NilSlice /\ Zeros(n)[i].slice.length = 0
<1>1. Cell("zero", "", NilSlice) \in CellType
  BY DEF Cell, CellType, Tags, Labels, NilSlice, Slice, SliceType
<1>2. Cell("zero", "", NilSlice).slice = NilSlice /\ NilSlice.length = 0
  BY DEF Cell, NilSlice, Slice
<1> DEFINE zero == Cell("zero", "", NilSlice)
<1>3. zero \in CellType /\ zero.slice = NilSlice /\ NilSlice.length = 0
  BY <1>1, <1>2
<1>4. Zeros(n) = [i \in 1 .. n |-> zero]
  BY DEF Zeros
<1> HIDE DEF zero
<1>5. [i \in 1 .. n |-> zero] \in Seq(CellType)
  BY <1>3
<1> QED
  BY <1>3, <1>4, <1>5

\* A new array of valid cells.
LEMMA HeapExtended ==
  ASSUME NEW h, HeapOK(h), NEW cells, Items(h, cells)
  PROVE  /\ HeapOK(Append(h, cells)) /\ Grown(h, Append(h, cells))
         /\ Len(Append(h, cells)) = Len(h) + 1
         /\ Append(h, cells)[Len(h) + 1] = cells
<1> DEFINE g == Append(h, cells)
<1>1. h \in Seq(Seq(CellType)) /\ cells \in Seq(CellType) /\ Len(h) \in Nat
  BY LenProperties DEF HeapOK, Items
<1>2. /\ g \in Seq(Seq(CellType)) /\ Len(g) = Len(h) + 1
      /\ \A a \in 1 .. Len(h) : g[a] = h[a]
      /\ g[Len(h) + 1] = cells
  BY <1>1, AppendProperties
<1> HIDE DEF g
<1>3. ASSUME NEW s, Held(h, s) PROVE Held(g, s)
  BY SMTT(30), <1>1, <1>2, <1>3 DEF Held
<1>4. ASSUME NEW a \in 1 .. Len(g) PROVE Items(g, g[a])
  <2>1. a = Len(h) + 1 => Items(h, g[a])
    BY <1>2
  <2>2. a \in 1 .. Len(h) => Items(h, g[a])
    BY <1>2 DEF HeapOK
  <2>3. a \in 1 .. Len(h) \/ a = Len(h) + 1
    BY <1>1, <1>2, <1>4
  <2> QED
    BY <2>1, <2>2, <2>3, <1>3 DEF Items
<1>5. HeapOK(g)
  BY <1>1, <1>2, <1>4 DEF HeapOK
<1>6. Grown(h, g)
  BY <1>1, <1>2 DEF Grown
<1> QED
  BY <1>2, <1>5, <1>6 DEF g

\* make and fill
LEMMA MadeAllocates ==
  ASSUME NEW h, HeapOK(h), NEW cells, Items(h, cells)
  PROVE  /\ Allocated(h, Made(h, cells)) /\ Made(h, cells).slice.length = Len(cells)
         /\ Shows(Made(h, cells).heap, Made(h, cells).slice, cells)
<1> DEFINE g == Append(h, cells)
<1>1. /\ HeapOK(g) /\ Grown(h, g) /\ Len(g) = Len(h) + 1 /\ g[Len(h) + 1] = cells
  BY HeapExtended
<1>2. Made(h, cells).heap = g /\ Made(h, cells).slice = Slice(Len(h) + 1, Len(cells))
  BY DEF Made
<1>3. Len(h) \in Nat /\ Len(h) >= 1 /\ Len(cells) \in Nat
  BY LenProperties DEF HeapOK, Items
<1> HIDE DEF g
<1>4. Slice(Len(h) + 1, Len(cells)) \in SliceType
  BY <1>3 DEF Slice, SliceType
<1>5. Held(g, Slice(Len(h) + 1, Len(cells)))
  BY <1>1, <1>3 DEF Slice, Held
<1>6. Shows(g, Slice(Len(h) + 1, Len(cells)), cells)
  BY <1>1 DEF Slice, Shows
<1> QED
  BY <1>1, <1>2, <1>3, <1>4, <1>5, <1>6 DEF Allocated, Slice

\* append into an array that does not exist yet
LEMMA CopiedAllocates ==
  ASSUME NEW h, HeapOK(h), NEW cells, Items(h, cells)
  PROVE  /\ Allocated(h, Copied(h, cells)) /\ Copied(h, cells).slice.length = Len(cells)
         /\ Shows(Copied(h, cells).heap, Copied(h, cells).slice, cells)
<1>1. Len(h) \in Nat /\ Len(h) >= 1 /\ Len(cells) \in Nat /\ cells \in Seq(CellType)
  BY LenProperties DEF HeapOK, Items
<1>2. CASE cells = <<>>
  <2>1. Copied(h, cells).heap = h /\ Copied(h, cells).slice = NilSlice /\ Len(cells) = 0
    BY <1>2 DEF Copied, GoAppend
  <2>2. NilSlice \in SliceType /\ NilSlice.length = 0
    BY DEF NilSlice, Slice, SliceType
  <2> QED
    BY <1>1, <2>1, <2>2 DEF Allocated, Held, Grown, Shows
<1>3. CASE cells # <<>>
  <2> DEFINE array == cells \o Zeros(Spare)
             g     == Append(h, array)
  <2>1. Len(cells) > 0
    BY <1>1, <1>3, EmptySeq
  <2>2. Copied(h, cells) = [heap |-> g, slice |-> Slice(Len(h) + 1, Len(cells))]
    <3>1. NilSlice.length = 0 /\ NilSlice.array = 0
      BY DEF NilSlice, Slice
    <3>2. Cells(h, NilSlice) = <<>> /\ Capacity(h, NilSlice) = 0
      BY <3>1 DEF Cells, Capacity
    <3>3. <<>> \o cells \o Zeros(Spare) = array
      BY <1>1
    <3>4. ~(NilSlice.length + Len(cells) <= Capacity(h, NilSlice))
          /\ NilSlice.length + Len(cells) = Len(cells)
      BY <1>1, <2>1, <3>1, <3>2
    <3> HIDE DEF array
    <3>5. GoAppend(h, NilSlice, cells) =
            [heap  |-> Append(h, Cells(h, NilSlice) \o cells \o Zeros(Spare)),
             slice |-> Slice(Len(h) + 1, NilSlice.length + Len(cells))]
      BY <1>3, <3>4, Zenon DEF GoAppend
    <3> QED
      BY <3>2, <3>3, <3>4, <3>5 DEF Copied
  <2>3. Zeros(Spare) \in Seq(CellType) /\ Len(Zeros(Spare)) = Spare
        /\ \A i \in 1 .. Spare : Zeros(Spare)[i].slice.length = 0
    BY HeapAssumption, ZerosAreCells
  <2>4. /\ array \in Seq(CellType) /\ Len(array) = Len(cells) + Spare
        /\ \A i \in 1 .. Len(array) :
             array[i] = IF i <= Len(cells) THEN cells[i] ELSE Zeros(Spare)[i - Len(cells)]
    <3> HIDE DEF array
    <3> DEFINE room == Zeros(Spare)
    <3>1. room \in Seq(CellType) /\ Len(room) = Spare /\ array = cells \o room
      BY <2>3 DEF array
    <3> HIDE DEF room
    <3>2. /\ array \in Seq(CellType) /\ Len(array) = Len(cells) + Len(room)
          /\ \A i \in 1 .. Len(cells) + Len(room) :
               array[i] = IF i <= Len(cells) THEN cells[i] ELSE room[i - Len(cells)]
      BY <1>1, <3>1, ConcatProperties
    <3> QED
      BY <3>1, <3>2 DEF room
  <2> HIDE DEF array
  <2>5. Items(h, array)
    <3> SUFFICES ASSUME NEW i \in 1 .. Len(array) PROVE Held(h, array[i].slice)
      BY <2>4 DEF Items
    <3>1. CASE i <= Len(cells)
      BY <1>1, <2>4, <3>1 DEF Items
    <3>2. CASE i > Len(cells)
      <4>1. i - Len(cells) \in 1 .. Spare
        BY <1>1, <2>4, <3>2, HeapAssumption
      <4> QED
        BY <1>1, <2>3, <2>4, <3>2, <4>1, HeapAssumption DEF Held
    <3> QED
      BY <1>1, <2>4, <3>1, <3>2, HeapAssumption
  <2>6. /\ HeapOK(g) /\ Grown(h, g) /\ Len(g) = Len(h) + 1 /\ g[Len(h) + 1] = array
    BY <2>5, HeapExtended
  <2> HIDE DEF g
  <2>7. Slice(Len(h) + 1, Len(cells)) \in SliceType
    BY <1>1 DEF Slice, SliceType
  <2>8. Held(g, Slice(Len(h) + 1, Len(cells)))
    BY <1>1, <2>1, <2>4, <2>6, HeapAssumption DEF Slice, Held
  <2>9. Shows(g, Slice(Len(h) + 1, Len(cells)), cells)
    BY <1>1, <2>4, <2>6, HeapAssumption DEF Slice, Shows
  <2> QED
    BY <1>1, <2>2, <2>6, <2>7, <2>8, <2>9 DEF Allocated, Slice
<1> QED
  BY <1>2, <1>3

\* Writing into an array of the call's own.
LEMMA HeapWritten ==
  ASSUME NEW h, HeapOK(h), NEW g, HeapOK(g), Grown(h, g),
         NEW a, New(h, g, a), NEW cells, Items(g, cells), Len(cells) = Len(g[a])
  PROVE  /\ HeapOK(Written(g, a, cells)) /\ Grown(h, Written(g, a, cells))
         /\ Len(Written(g, a, cells)) = Len(g)
         /\ \A s : Held(g, s) => Held(Written(g, a, cells), s)
<1> DEFINE k == Written(g, a, cells)
<1>1. Len(h) \in Nat /\ Len(g) \in Nat /\ a \in 1 .. Len(g)
      /\ a > Len(h) /\ g \in Seq(Seq(CellType)) /\ cells \in Seq(CellType)
  BY LenProperties DEF HeapOK, Items, New
<1>2. /\ k \in Seq(Seq(CellType)) /\ Len(k) = Len(g)
      /\ \A b \in 1 .. Len(g) : k[b] = IF b = a THEN cells ELSE g[b]
  BY <1>1, ExceptSeq DEF Written
<1> HIDE DEF k
<1>3. ASSUME NEW s, Held(g, s) PROVE Held(k, s)
  <2>1. \A b \in 1 .. Len(g) : Len(k[b]) = Len(g[b])
    BY <1>2
  <2>2. CASE s.length = 0
    BY <2>2 DEF Held
  <2>3. CASE s.array \in 2 .. Len(g) /\ s.length \in 1 .. Len(g[s.array])
    <3>1. s.array \in 1 .. Len(g) /\ s.array \in 2 .. Len(k)
      BY <1>1, <1>2, <2>3
    <3> QED
      BY <2>1, <2>3, <3>1 DEF Held
  <2> QED
    BY <1>3, <2>2, <2>3 DEF Held
<1>4. ASSUME NEW b \in 1 .. Len(k) PROVE Items(k, k[b])
  <2>1. Items(g, k[b])
    BY <1>1, <1>2, <1>4 DEF HeapOK
  <2> QED
    BY <2>1, <1>3 DEF Items
<1>5. HeapOK(k)
  BY <1>1, <1>2, <1>4 DEF HeapOK
<1>6. Grown(h, k)
  <2>1. \A b \in 1 .. Len(h) : b \in 1 .. Len(g) /\ b # a
    BY <1>1
  <2> QED
    BY <1>1, <1>2, <2>1 DEF Grown
<1> QED
  BY <1>2, <1>3, <1>5, <1>6 DEF k

\* appendCopy
LEMMA AppendCopyAllocates ==
  ASSUME NEW h, HeapOK(h), NEW base \in SliceType, Held(h, base), NEW cells, Items(h, cells)
  PROVE  LET made == AppendCopy(h, base, cells)
         IN Allocated(h, made) /\ Shows(made.heap, made.slice, Cells(h, base) \o cells)
<1> DEFINE n      == Len(cells)
           zeros  == Zeros(n)
           copied == Cells(h, base)
           room   == copied \o zeros
           all    == copied \o cells
           g      == Append(h, room)
           place  == Slice(Len(h) + 1, base.length)
           length == base.length + n
<1>1. Len(h) \in Nat /\ Len(h) >= 1 /\ n \in Nat /\ cells \in Seq(CellType)
      /\ base.length \in Nat
  BY LenProperties DEF HeapOK, Items, SliceType
<1>2. Items(h, copied) /\ Len(copied) = base.length /\ copied \in Seq(CellType)
  <2>1. Passed(h, base)
    BY <1>1 DEF Held, Passed
  <2> QED
    BY <2>1, CellsAreItems DEF Items
<1>3. zeros \in Seq(CellType) /\ Len(zeros) = n /\ \A i \in 1 .. n : zeros[i].slice.length = 0
  BY <1>1, ZerosAreCells
<1> HIDE DEF zeros, copied
<1>12. /\ Len(all) = length
       /\ \A i \in 1 .. length :
            all[i] = IF i <= base.length THEN copied[i] ELSE cells[i - base.length]
  <2>1. /\ Len(all) = Len(copied) + Len(cells)
        /\ \A i \in 1 .. Len(copied) + Len(cells) :
             all[i] = IF i <= Len(copied) THEN copied[i] ELSE cells[i - Len(copied)]
    BY <1>1, <1>2, ConcatProperties
  <2> HIDE DEF all
  <2> QED
    BY <1>2, <2>1
<1> HIDE DEF all
<1>4. /\ room \in Seq(CellType) /\ Len(room) = length
      /\ \A i \in 1 .. length :
           room[i] = IF i <= base.length THEN copied[i] ELSE zeros[i - base.length]
  <2>1. /\ room \in Seq(CellType) /\ Len(room) = Len(copied) + Len(zeros)
        /\ \A i \in 1 .. Len(copied) + Len(zeros) :
             room[i] = IF i <= Len(copied) THEN copied[i] ELSE zeros[i - Len(copied)]
    BY <1>2, <1>3, ConcatProperties
  <2> HIDE DEF room
  <2> QED
    BY <1>2, <1>3, <2>1
<1> HIDE DEF room
<1>5. Items(h, room)
  <2> SUFFICES ASSUME NEW i \in 1 .. length PROVE Held(h, room[i].slice)
    BY <1>4 DEF Items
  <2>1. CASE i <= base.length
    <3>1. room[i] = copied[i] /\ i \in 1 .. Len(copied)
      BY <1>1, <1>2, <1>4, <2>1
    <3> QED
      BY <1>2, <3>1 DEF Items
  <2>2. CASE i > base.length
    <3>1. room[i] = zeros[i - base.length] /\ i - base.length \in 1 .. n
      BY <1>1, <1>4, <2>2
    <3> QED
      BY <1>3, <3>1 DEF Held
  <2> QED
    BY <1>1, <2>1, <2>2
<1>6. /\ HeapOK(g) /\ Grown(h, g) /\ Len(g) = Len(h) + 1 /\ g[Len(h) + 1] = room
  BY <1>5, HeapExtended
<1>7. AppendCopy(h, base, cells) = GoAppend(g, place, cells)
  BY DEF AppendCopy, zeros, copied, room
<1>8. place.array = Len(h) + 1 /\ place.length = base.length /\ place \in SliceType
  BY <1>1 DEF Slice, SliceType
<1>9. Slice(place.array, length) \in SliceType
      /\ Slice(place.array, length).array = Len(h) + 1
      /\ Slice(place.array, length).length = length
  BY <1>1, <1>8 DEF Slice, SliceType
<1> HIDE DEF g, place
<1>10. CASE cells = <<>>
  <2>1. GoAppend(g, place, cells).heap = g /\ GoAppend(g, place, cells).slice = place
    BY <1>10 DEF GoAppend
  <2>2. n = 0
    BY <1>10
  <2>3. Held(g, place)
    BY <1>1, <1>4, <1>6, <1>8, <2>2 DEF Held
  <2>4. Shows(g, place, all)
    <3>1. \A i \in 1 .. length : all[i] = room[i]
      BY <1>1, <1>4, <1>12, <2>2
    <3> QED
      BY <1>1, <1>6, <1>8, <1>12, <2>2, <3>1 DEF Shows
  <2> QED
    BY <1>1, <1>6, <1>7, <1>8, <2>1, <2>2, <2>3, <2>4 DEF Allocated, all, copied
<1>11. CASE cells # <<>>
  <2> DEFINE filled == [i \in DOMAIN room |-> IF place.length < i /\ i <= place.length + n
                                              THEN cells[i - place.length] ELSE room[i]]
             k      == [g EXCEPT ![Len(h) + 1] = filled]
  <2>1. place.length + n <= Capacity(g, place) /\ place.length + n = length /\ n > 0
    BY <1>1, <1>4, <1>6, <1>8, <1>11, EmptySeq DEF Capacity
  <2>2. GoAppend(g, place, cells) = [heap |-> k, slice |-> Slice(place.array, length)]
    <3>1. GoAppend(g, place, cells) =
            [heap  |-> [g EXCEPT ![place.array] =
                          [i \in DOMAIN @ |-> IF place.length < i /\ i <= place.length + n
                                              THEN cells[i - place.length] ELSE @[i]]],
             slice |-> Slice(place.array, place.length + n)]
      BY <1>11, <2>1, Zenon DEF GoAppend
    <3> QED
      BY <1>6, <1>8, <2>1, <3>1
  <2>3. DOMAIN room = 1 .. length /\ length \in Nat
    BY <1>1, <1>4, LenProperties
  <2>4. \A i \in 1 .. length :
          filled[i] = IF base.length < i THEN cells[i - base.length] ELSE room[i]
    BY <1>1, <1>8, <2>1, <2>3
  <2>5. filled = [i \in 1 .. length |-> filled[i]]
    BY <2>3
  <2> HIDE DEF filled
  <2>6. \A i \in 1 .. length : filled[i] \in CellType /\ Held(h, filled[i].slice)
    <3> SUFFICES ASSUME NEW i \in 1 .. length
                 PROVE  filled[i] \in CellType /\ Held(h, filled[i].slice)
      OBVIOUS
    <3>1. CASE base.length < i
      <4>1. i - base.length \in 1 .. n
        BY <1>1, <3>1
      <4> QED
        BY <1>1, <2>4, <3>1, <4>1, ElementOfSeq DEF Items
    <3>2. CASE ~(base.length < i)
      BY <1>4, <1>5, <2>4, <3>2, ElementOfSeq DEF Items
    <3> QED
      BY <3>1, <3>2
  <2>7. filled \in Seq(CellType) /\ Len(filled) = length
    <3> HIDE DEF length
    <3>1. \A i \in 1 .. length : filled[i] \in CellType
      BY <2>6
    <3> QED
      BY <2>3, <2>5, <3>1, FunctionIsSeq
  <2>8. Items(h, filled)
    BY <2>6, <2>7 DEF Items
  <2>9. Items(g, filled)
    BY <1>6, <2>8, ItemsGrown
  <2>10. /\ HeapOK(k) /\ Grown(h, k) /\ Len(k) = Len(g)
    <3> DEFINE a == Len(h) + 1
    <3>1. New(h, g, a) /\ Len(filled) = Len(g[a])
      BY <1>1, <1>4, <1>6, <2>7 DEF New
    <3>2. k = Written(g, a, filled)
      BY DEF Written
    <3> HIDE DEF k, a
    <3> QED
      BY <1>6, <2>9, <3>1, <3>2, HeapWritten
  <2>11. k[Len(h) + 1] = filled
    BY <1>1, <1>6, LenProperties DEF HeapOK
  <2> HIDE DEF k
  <2>12. Held(k, Slice(place.array, length))
    BY <1>1, <1>6, <1>9, <2>1, <2>7, <2>10, <2>11 DEF Held
  <2>13. Shows(k, Slice(place.array, length), all)
    <3>1. \A i \in 1 .. length : all[i] = filled[i]
      BY <1>1, <1>4, <1>12, <2>4
    <3> QED
      BY <1>9, <1>12, <2>11, <3>1 DEF Shows
  <2> QED
    BY <1>1, <1>7, <1>9, <2>2, <2>10, <2>12, <2>13 DEF Allocated, all, copied
<1> QED
  BY <1>10, <1>11
-----------------------------------------------------------------------------
(***************************************************************************)
(* Builder values.                                                         *)
(***************************************************************************)

Kept ==
  /\ HeapInv' /\ Grown(heap, heap')
  /\ \A i \in DOMAIN family : family'[i] = family[i]
WithSlice(value, field, slice) == [value EXCEPT !.slices[field] = slice]
OfKind(value, kind) == [value EXCEPT !.kind = kind]

LEMMA NilIsHeld ==
  /\ NilSlice \in SliceType
  /\ \A h : Held(h, NilSlice)
BY DEF NilSlice, Slice, SliceType, Held

LEMMA OneItem ==
  ASSUME NEW h, NEW tag \in Tags, NEW name \in Labels, NEW s \in SliceType, Held(h, s)
  PROVE  Items(h, <<Cell(tag, name, s)>>)
<1> DEFINE cell == Cell(tag, name, s)
<1>1. cell \in CellType /\ cell.slice = s
  BY DEF Cell, CellType
<1> HIDE DEF cell
<1>2. <<cell>> \in Seq(CellType) /\ Len(<<cell>>) = 1 /\ <<cell>>[1] = cell
  BY <1>1
<1>3. \A i \in 1 .. Len(<<cell>>) : <<cell>>[i] = cell
  BY <1>2
<1> QED
  BY <1>1, <1>2, <1>3 DEF Items, cell

LEMMA SliceReplaced ==
  ASSUME NEW h, NEW value, ValueOK(h, value), NEW f \in Fields,
         NEW s \in SliceType, Held(h, s)
  PROVE  ValueOK(h, WithSlice(value, f, s))
<1> DEFINE new == WithSlice(value, f, s)
<1>1. value \in ValueType /\ \A g \in Fields : Held(h, value.slices[g])
  BY DEF ValueOK
<1>2. new \in ValueType
  BY <1>1 DEF WithSlice, ValueType
<1>3. \A g \in Fields : new.slices[g] = IF g = f THEN s ELSE value.slices[g]
  BY <1>1 DEF WithSlice, ValueType
<1> HIDE DEF new
<1>4. ASSUME NEW g \in Fields PROVE Held(h, new.slices[g])
  BY <1>1, <1>3
<1> QED
  BY <1>2, <1>4 DEF ValueOK, new

LEMMA KindReplaced ==
  ASSUME NEW h, NEW value, ValueOK(h, value), NEW kind \in Kinds
  PROVE  ValueOK(h, OfKind(value, kind))
<1>1. OfKind(value, kind) \in ValueType /\ OfKind(value, kind).slices = value.slices
  BY DEF ValueOK, ValueType, OfKind
<1> QED
  BY <1>1 DEF ValueOK

\* A method that returns a valid value of a heap that only grew.
LEMMA ReturnedKeeps ==
  ASSUME HeapInv, NEW h, HeapOK(h), Grown(heap, h), NEW new, ValueOK(h, new),
         Returned(new, h)
  PROVE  Kept
<1>1. family \in Seq(ValueType) /\ new \in ValueType /\ Len(family) \in Nat
      /\ HeapOK(heap) /\ Len(heap[1]) = Width /\ Len(heap) >= 1
      /\ \A i \in 1 .. Len(family) : ValueOK(heap, family[i])
  BY LenProperties DEF HeapInv, ValueOK, HeapOK
<1>2. family' = Append(family, new) /\ heap' = h
  BY DEF Returned
<1>3. /\ family' \in Seq(ValueType) /\ Len(family') = Len(family) + 1
      /\ \A i \in 1 .. Len(family) : family'[i] = family[i]
      /\ family'[Len(family) + 1] = new
  BY <1>1, <1>2, AppendProperties
<1>4. ASSUME NEW i \in 1 .. Len(family') PROVE ValueOK(h, family'[i])
  <2>1. i \in 1 .. Len(family) => ValueOK(h, family'[i])
    BY <1>1, <1>3, ValueGrown
  <2>2. i = Len(family) + 1 => ValueOK(h, family'[i])
    BY <1>3
  <2> QED
    BY <1>1, <1>3, <2>1, <2>2
<1>5. Len(heap'[1]) = Width
  <2>1. Len(heap) \in Nat
    BY <1>1, LenProperties DEF HeapOK
  <2> QED
    BY <1>1, <1>2, <2>1 DEF Grown
<1>6. HeapOK(heap') /\ Grown(heap, heap')
  BY <1>2
<1>7. \A i \in 1 .. Len(family') : ValueOK(heap', family'[i])
  BY <1>2, <1>4
<1>8. \A i \in DOMAIN family : family'[i] = family[i]
  BY <1>1, <1>3, LenProperties
<1> QED
  BY <1>3, <1>5, <1>6, <1>7, <1>8 DEF Kept, HeapInv

LEMMA WithKeeps ==
  ASSUME HeapInv, NEW h, HeapOK(h), Grown(heap, h), NEW value, ValueOK(h, value),
         NEW made, Allocated(h, made), NEW f \in Fields, With(value, f, made)
  PROVE  Kept
<1>1. HeapOK(made.heap) /\ Grown(h, made.heap) /\ made.slice \in SliceType
      /\ Held(made.heap, made.slice)
  BY DEF Allocated
<1>2. ValueOK(made.heap, value)
  BY <1>1, ValueGrown
<1>3. ValueOK(made.heap, WithSlice(value, f, made.slice))
  BY <1>1, <1>2, SliceReplaced
<1>4. Grown(heap, made.heap)
  BY <1>1, GrownTransitive DEF HeapInv
<1>5. Returned(WithSlice(value, f, made.slice), made.heap)
  BY DEF With, WithSlice
<1> QED
  BY <1>1, <1>3, <1>4, <1>5, ReturnedKeeps

\* The list a caller passes, and the lists a value holds, can be copied.
LEMMA ListsAreItems ==
  ASSUME HeapInv, NEW value, ValueOK(heap, value)
  PROVE  /\ HeapOK(heap) /\ Grown(heap, heap)
         /\ \A f \in Fields : /\ value.slices[f] \in SliceType /\ Held(heap, value.slices[f])
                              /\ Items(heap, Cells(heap, value.slices[f]))
                              /\ Len(Cells(heap, value.slices[f])) = value.slices[f].length
<1>1. HeapOK(heap) /\ Grown(heap, heap)
  <2>1. Len(heap) \in Nat
    BY LenProperties DEF HeapInv, HeapOK
  <2> QED
    BY <2>1 DEF HeapInv, Grown
<1>2. ASSUME NEW f \in Fields
      PROVE  value.slices[f] \in SliceType /\ Held(heap, value.slices[f])
  BY DEF ValueOK, ValueType
<1>3. ASSUME NEW f \in Fields PROVE Passed(heap, value.slices[f])
  <2>1. Len(heap) \in Nat
    BY LenProperties DEF HeapInv, HeapOK
  <2> QED
    BY <1>2, <2>1 DEF Held, Passed
<1> QED
  BY <1>1, <1>2, <1>3, CellsAreItems
-----------------------------------------------------------------------------
(***************************************************************************)
(* Methods, with a receiver of the family and a list of the caller's.      *)
(***************************************************************************)

LEMMA JoinKeeps ==
  ASSUME HeapInv, NEW value, ValueOK(heap, value), NEW kind \in {"inner", "cross"},
         Join(value, kind)
  PROVE  Kept
<1> DEFINE tables == AppendCopy(heap, value.slices["tables"], <<Leaf(kind)>>)
           joins  == AppendCopy(tables.heap, value.slices["joins"],
                                <<Cell("join", kind, NilSlice)>>)
           first  == WithSlice(value, "tables", tables.slice)
<1>1. "tables" \in Fields /\ "joins" \in Fields
  BY DEF Fields
<1>2. Items(heap, <<Leaf(kind)>>)
  BY NilIsHeld, OneItem DEF Leaf, Tags, Labels
<1>3. Allocated(heap, tables)
  BY <1>1, <1>2, ListsAreItems, AppendCopyAllocates
<1> HIDE DEF tables
<1>4. HeapOK(tables.heap) /\ Grown(heap, tables.heap) /\ HeapOK(heap)
      /\ tables.slice \in SliceType /\ Held(tables.heap, tables.slice)
  BY <1>3 DEF Allocated, HeapInv
<1>5. Items(tables.heap, <<Cell("join", kind, NilSlice)>>)
  BY NilIsHeld, OneItem DEF Tags, Labels
<1>6. value.slices["joins"] \in SliceType /\ Held(tables.heap, value.slices["joins"])
  BY <1>1, <1>4, ListsAreItems, HeldGrown
<1>7. Allocated(tables.heap, joins)
  BY <1>4, <1>5, <1>6, AppendCopyAllocates
<1>8. ValueOK(tables.heap, first)
  BY <1>1, <1>4, ValueGrown, SliceReplaced
<1>9. With(first, "joins", joins)
  BY DEF Join, WithSlice, tables
<1> HIDE DEF joins, first
<1> QED
  BY <1>1, <1>4, <1>7, <1>8, <1>9, WithKeeps

LEMMA StartQueryKeeps ==
  ASSUME HeapInv, NEW value, ValueOK(heap, value), StartQuery(value)
  PROVE  Kept
<1>1. ValueOK(heap, OfKind(value, "select"))
  BY KindReplaced DEF Kinds
<1>2. Returned(OfKind(value, "select"), heap)
  BY DEF StartQuery, OfKind
<1> QED
  BY <1>1, <1>2, ListsAreItems, ReturnedKeeps

LEMMA LimitKeeps ==
  ASSUME HeapInv, NEW value, ValueOK(heap, value), NEW count \in Names, Limit(value, count)
  PROVE  Kept
<1> DEFINE made == Made(heap, <<Leaf(count)>>)
<1>1. "limit" \in Fields
  BY DEF Fields
<1>2. Items(heap, <<Leaf(count)>>)
  BY NilIsHeld, OneItem DEF Leaf, Tags, Labels
<1>3. Allocated(heap, made)
  BY <1>2, ListsAreItems, MadeAllocates
<1>4. With(value, "limit", made)
  BY DEF Limit
<1> HIDE DEF made
<1> QED
  BY <1>1, <1>3, <1>4, ListsAreItems, WithKeeps

LEMMA ExtendKeeps ==
  ASSUME HeapInv, NEW value, ValueOK(heap, value), NEW list, Passed(heap, list),
         NEW f \in Fields, Extend(value, f, list)
  PROVE  Kept
<1> DEFINE made == AppendCopy(heap, value.slices[f], Cells(heap, list))
<1>1. HeapOK(heap) /\ Grown(heap, heap) /\ Items(heap, Cells(heap, list))
      /\ value.slices[f] \in SliceType /\ Held(heap, value.slices[f])
  BY ListsAreItems, CellsAreItems
<1>2. Allocated(heap, made)
  BY <1>1, AppendCopyAllocates
<1>3. With(value, f, made)
  BY DEF Extend
<1> HIDE DEF made
<1> QED
  BY <1>1, <1>2, <1>3, WithKeeps

LEMMA ReplaceKeeps ==
  ASSUME HeapInv, NEW value, ValueOK(heap, value), NEW list, Passed(heap, list),
         NEW f \in Fields, Replace(value, f, list)
  PROVE  Kept
<1> DEFINE made == Made(heap, Cells(heap, list))
<1>1. HeapOK(heap) /\ Grown(heap, heap) /\ Items(heap, Cells(heap, list))
  BY ListsAreItems, CellsAreItems
<1>2. Allocated(heap, made)
  BY <1>1, MadeAllocates
<1>3. With(value, f, made)
  BY DEF Replace
<1> HIDE DEF made
<1> QED
  BY <1>1, <1>2, <1>3, WithKeeps

\* OrderBy and OnConflict copy the list.
LEMMA CopyKeeps ==
  ASSUME HeapInv, NEW value, ValueOK(heap, value), NEW list, Passed(heap, list),
         NEW f \in Fields, With(value, f, Copied(heap, Cells(heap, list)))
  PROVE  Kept
<1> DEFINE made == Copied(heap, Cells(heap, list))
<1>1. HeapOK(heap) /\ Grown(heap, heap) /\ Items(heap, Cells(heap, list))
  BY ListsAreItems, CellsAreItems
<1>2. Allocated(heap, made)
  BY <1>1, CopiedAllocates
<1>3. With(value, f, made)
  OBVIOUS
<1> HIDE DEF made
<1> QED
  BY <1>1, <1>2, <1>3, WithKeeps

LEMMA ValuesKeeps ==
  ASSUME HeapInv, NEW value, ValueOK(heap, value), NEW list, Passed(heap, list),
         Values(value, list)
  PROVE  Kept
<1> DEFINE row  == AppendCopy(heap, NilSlice, Cells(heap, list))
           rows == AppendCopy(row.heap, value.slices["rows"], <<Cell("row", "", row.slice)>>)
<1>1. "rows" \in Fields
  BY DEF Fields
<1>2. HeapOK(heap) /\ Items(heap, Cells(heap, list))
  BY ListsAreItems, CellsAreItems
<1>3. Allocated(heap, row)
  BY <1>2, NilIsHeld, AppendCopyAllocates
<1>4. With(value, "rows", rows)
  BY DEF Values
<1> HIDE DEF row
<1>5. HeapOK(row.heap) /\ Grown(heap, row.heap) /\ row.slice \in SliceType
      /\ Held(row.heap, row.slice)
  BY <1>3 DEF Allocated
<1>6. Items(row.heap, <<Cell("row", "", row.slice)>>)
  BY <1>5, OneItem DEF Tags, Labels
<1>7. value.slices["rows"] \in SliceType /\ Held(row.heap, value.slices["rows"])
  BY <1>1, <1>2, <1>5, ListsAreItems, HeldGrown
<1>8. Allocated(row.heap, rows)
  BY <1>5, <1>6, <1>7, AppendCopyAllocates
<1>9. ValueOK(row.heap, value)
  BY <1>2, <1>5, ValueGrown
<1> HIDE DEF rows
<1> QED
  BY <1>1, <1>4, <1>5, <1>8, <1>9, WithKeeps

\* ON writes the copied conditions into the last of the copied joins.
OnWrote(value, cells, h, s, cell) ==
  LET last == value.slices["joins"].length
      old  == Cells(heap, value.slices["joins"])
  IN /\ HeapOK(h) /\ Grown(heap, h)
     /\ s \in SliceType /\ Held(h, s) /\ s.length = last
     /\ Returned(WithSlice(value, "joins", s), h)
     /\ \A i \in 1 .. last : h[s.array][i] = IF i = last THEN cell ELSE old[i]
     /\ cell.tag = old[last].tag /\ cell.name = old[last].name
     /\ Shows(h, cell.slice, cells)

LEMMA OnWrites ==
  ASSUME HeapInv, NEW value, ValueOK(heap, value), NEW list, Passed(heap, list),
         On(value, list)
  PROVE  \E h, s, cell : OnWrote(value, Cells(heap, list), h, s, cell)
<1> DEFINE last       == value.slices["joins"].length
           old        == Cells(heap, value.slices["joins"])
           cells      == Cells(heap, list)
           joins      == Copied(heap, old)
           conditions == Copied(joins.heap, cells)
           g          == conditions.heap
           a          == joins.slice.array
           cell       == [g[a][last] EXCEPT !.slice = conditions.slice]
           array      == [g[a] EXCEPT ![last] = cell]
           h          == Written(g, a, array)
           new        == WithSlice(value, "joins", joins.slice)
<1>1. "joins" \in Fields /\ last > 0 /\ last \in Nat /\ HeapOK(heap)
  BY ListsAreItems DEF On, Fields, SliceType
<1>2. Items(heap, cells) /\ Items(heap, old) /\ Len(old) = last
  BY SMTT(30), <1>1, CellsAreItems, ListsAreItems
<1>3. Returned(new, h)
  BY DEF On, With, WithSlice, Written
<1> HIDE DEF old, cells
<1>4. Allocated(heap, joins) /\ joins.slice.length = last
      /\ Shows(joins.heap, joins.slice, old)
  BY <1>1, <1>2, CopiedAllocates
<1> HIDE DEF joins
<1>5. HeapOK(joins.heap) /\ Grown(heap, joins.heap) /\ Held(joins.heap, joins.slice)
      /\ joins.slice \in SliceType /\ a > Len(heap)
  BY <1>1, <1>4 DEF Allocated
<1>6. Items(joins.heap, cells)
  BY <1>1, <1>2, <1>5, ItemsGrown
<1>7. Allocated(joins.heap, conditions) /\ Shows(g, conditions.slice, cells)
      /\ conditions.slice.length = Len(cells)
  BY <1>5, <1>6, CopiedAllocates
<1> HIDE DEF conditions
<1>8. HeapOK(g) /\ Grown(joins.heap, g) /\ conditions.slice \in SliceType
      /\ Held(g, conditions.slice)
      /\ (conditions.slice.length > 0 => conditions.slice.array > Len(joins.heap))
  BY <1>7 DEF Allocated
<1>9. Grown(heap, g) /\ Held(g, joins.slice)
  BY <1>1, <1>5, <1>8, GrownTransitive, HeldGrown
<1>10. a \in 1 .. Len(g) /\ last \in 1 .. Len(g[a]) /\ New(heap, g, a)
       /\ a \in 1 .. Len(joins.heap)
  <2>1. Len(g) \in Nat /\ Len(heap) \in Nat /\ Len(joins.heap) \in Nat
    BY <1>1, <1>5, <1>8, LenProperties DEF HeapOK
  <2> QED
    BY <1>1, <1>4, <1>5, <1>9, <2>1 DEF Held, New, SliceType
<1>11. \A i \in 1 .. last : g[a][i] = old[i]
  BY <1>2, <1>4, <1>8, <1>10 DEF Shows, Grown
<1> HIDE DEF g, a, last
<1>12. Items(g, g[a]) /\ g[a] \in Seq(CellType) /\ Len(g[a]) \in Nat
  BY <1>8, <1>10, LenProperties DEF HeapOK, Items
<1>13. cell \in CellType /\ cell.slice = conditions.slice
       /\ cell.tag = old[last].tag /\ cell.name = old[last].name
  <2>1. g[a][last] \in CellType /\ g[a][last] = old[last]
    BY <1>1, <1>10, <1>11, <1>12, ElementOfSeq
  <2> QED
    BY <1>8, <2>1 DEF CellType
<1> HIDE DEF cell
<1>14. /\ array \in Seq(CellType) /\ Len(array) = Len(g[a])
       /\ \A i \in 1 .. Len(g[a]) : array[i] = IF i = last THEN cell ELSE g[a][i]
  BY <1>10, <1>12, <1>13, ExceptSeq
<1> HIDE DEF array
<1>15. Items(g, array)
  <2> SUFFICES ASSUME NEW i \in 1 .. Len(array) PROVE Held(g, array[i].slice)
    BY <1>14 DEF Items
  <2>1. i = last => Held(g, array[i].slice)
    BY <1>8, <1>13, <1>14
  <2>2. i # last => Held(g, array[i].slice)
    BY <1>12, <1>14 DEF Items
  <2> QED
    BY <2>1, <2>2
<1>16. /\ HeapOK(h) /\ Grown(heap, h)
       /\ \A s : Held(g, s) => Held(h, s)
  BY <1>1, <1>8, <1>9, <1>10, <1>14, <1>15, HeapWritten
<1>17. \A b \in 1 .. Len(g) : h[b] = IF b = a THEN array ELSE g[b]
  BY <1>8, <1>10, <1>14, ExceptSeq DEF Written, HeapOK
<1> HIDE DEF h
<1>18. \A i \in 1 .. last : h[a][i] = IF i = last THEN cell ELSE old[i]
  <2>1. h[a] = array
    BY <1>10, <1>17
  <2>2. \A i \in 1 .. last : i \in 1 .. Len(g[a])
    BY <1>1, <1>10, <1>12
  <2> QED
    BY <1>11, <1>14, <2>1, <2>2
<1>19. Shows(h, cell.slice, cells)
  <2>1. CASE Len(cells) = 0
    BY <1>7, <1>13, <2>1 DEF Shows
  <2>2. CASE Len(cells) # 0
    <3>1. Len(cells) \in Nat /\ Len(g) \in Nat /\ Len(joins.heap) \in Nat
      BY <1>2, <1>5, <1>8, LenProperties DEF HeapOK, Items
    <3>2. conditions.slice.array \in 1 .. Len(g) /\ conditions.slice.array # a
      BY <1>7, <1>8, <1>10, <2>2, <3>1 DEF Held
    <3>3. h[conditions.slice.array] = g[conditions.slice.array]
      BY <1>17, <3>2
    <3> QED
      BY <1>7, <1>13, <3>3 DEF Shows
  <2> QED
    BY <2>1, <2>2
<1>20. Held(h, joins.slice)
  BY <1>9, <1>16
<1> HIDE DEF new
<1> DEFINE s == joins.slice
<1>21. h[s.array] = h[a] /\ Returned(WithSlice(value, "joins", s), h)
  BY <1>3 DEF new, a
<1> HIDE DEF s
<1>22. s \in SliceType /\ Held(h, s) /\ s.length = last
  BY <1>4, <1>5, <1>20 DEF s
<1>23. OnWrote(value, cells, h, s, cell)
  BY <1>13, <1>16, <1>18, <1>19, <1>21, <1>22 DEF OnWrote, last, old
<1> QED
  BY SMTT(30), <1>23 DEF cells

LEMMA OnKeeps ==
  ASSUME HeapInv, NEW value, ValueOK(heap, value), NEW list, Passed(heap, list),
         On(value, list)
  PROVE  Kept
<1>1. PICK h, s, cell : OnWrote(value, Cells(heap, list), h, s, cell)
  BY OnWrites
<1>2. HeapOK(h) /\ Grown(heap, h) /\ s \in SliceType /\ Held(h, s)
      /\ Returned(WithSlice(value, "joins", s), h)
  BY <1>1 DEF OnWrote
<1>3. "joins" \in Fields /\ ValueOK(h, value)
  BY <1>2, ValueGrown DEF Fields, HeapInv
<1>4. ValueOK(h, WithSlice(value, "joins", s))
  BY <1>2, <1>3, SliceReplaced
<1> QED
  BY <1>2, <1>4, ReturnedKeeps

LEMMA OnConflictKeeps ==
  ASSUME HeapInv, NEW value, ValueOK(heap, value), NEW list, Passed(heap, list),
         OnConflict(value, list)
  PROVE  Kept
<1>1. "columns" \in Fields /\ "conflict" \in Kinds
  BY DEF Fields, Kinds
<1>2. ValueOK(heap, OfKind(value, "conflict"))
  BY <1>1, KindReplaced
<1>3. With(OfKind(value, "conflict"), "columns", Copied(heap, Cells(heap, list)))
  BY DEF OnConflict, OfKind
<1> QED
  BY <1>1, <1>2, <1>3, CopyKeeps

\* The receiver of a conflict method, back in an INSERT without columns.
Back(value) == WithSlice(OfKind(value, "insert"), "columns", NilSlice)

LEMMA BackIsOK ==
  ASSUME NEW h, NEW value, ValueOK(h, value)
  PROVE  ValueOK(h, Back(value))
<1>1. "columns" \in Fields /\ "insert" \in Kinds
  BY DEF Fields, Kinds
<1>2. ValueOK(h, OfKind(value, "insert"))
  BY <1>1, KindReplaced
<1> QED
  BY <1>1, <1>2, NilIsHeld, SliceReplaced DEF Back

LEMMA DoUpdateKeeps ==
  ASSUME HeapInv, NEW value, ValueOK(heap, value), NEW list, Passed(heap, list),
         DoUpdate(value, list)
  PROVE  Kept
<1> DEFINE target      == Made(heap, Cells(heap, value.slices["columns"]))
           assignments == Made(target.heap, Cells(heap, list))
           new         == WithSlice(Back(value), "target", target.slice)
<1>1. "target" \in Fields /\ "columns" \in Fields /\ "assignments" \in Fields /\ HeapOK(heap)
  BY ListsAreItems DEF Fields
<1>2. With(new, "assignments", assignments)
  <2>1. new = [value EXCEPT !.kind = "insert", !.slices["columns"] = NilSlice,
                            !.slices["target"] = target.slice]
    BY DEF Back, WithSlice, OfKind, ValueOK, ValueType
  <2> QED
    BY <2>1 DEF DoUpdate
<1>3. Allocated(heap, target)
  BY <1>1, ListsAreItems, MadeAllocates
<1> HIDE DEF target
<1>4. HeapOK(target.heap) /\ Grown(heap, target.heap) /\ target.slice \in SliceType
      /\ Held(target.heap, target.slice)
  BY <1>3 DEF Allocated
<1>5. Items(target.heap, Cells(heap, list))
  BY <1>1, <1>4, CellsAreItems, ItemsGrown
<1>6. Allocated(target.heap, assignments)
  BY <1>4, <1>5, MadeAllocates
<1>7. ValueOK(target.heap, new)
  BY <1>1, <1>4, ValueGrown, BackIsOK, SliceReplaced
<1> HIDE DEF assignments, new
<1> QED
  BY <1>1, <1>2, <1>4, <1>6, <1>7, WithKeeps

LEMMA DoNothingKeeps ==
  ASSUME HeapInv, NEW value, ValueOK(heap, value), DoNothing(value)
  PROVE  Kept
<1> DEFINE target == Made(heap, Cells(heap, value.slices["columns"]))
           new    == WithSlice(Back(value), "assignments", NilSlice)
<1>1. "target" \in Fields /\ "columns" \in Fields /\ "assignments" \in Fields
  BY DEF Fields
<1>2. With(new, "target", target)
  <2>1. new = [value EXCEPT !.kind = "insert", !.slices["columns"] = NilSlice,
                            !.slices["assignments"] = NilSlice]
    BY DEF Back, WithSlice, OfKind, ValueOK, ValueType
  <2> QED
    BY <2>1 DEF DoNothing
<1>3. Allocated(heap, target)
  BY <1>1, ListsAreItems, MadeAllocates
<1>4. ValueOK(heap, new)
  BY <1>1, BackIsOK, NilIsHeld, SliceReplaced
<1> HIDE DEF target, new
<1> QED
  BY <1>1, <1>2, <1>3, <1>4, ListsAreItems, WithKeeps
-----------------------------------------------------------------------------
(***************************************************************************)
(* Steps.                                                                  *)
(***************************************************************************)

LEMMA CallKeeps ==
  ASSUME HeapInv, NEW value, ValueOK(heap, value), NEW list, Passed(heap, list),
         Call(value, list)
  PROVE  Kept
<1>1. Fields = {"tables", "joins", "predicates", "projections", "groupBy", "having",
                "orderBy", "limit", "rows", "columns", "target", "assignments",
                "duplicate", "returning"}
  BY DEF Fields
<1>2. CASE On(value, list)
  BY <1>2, OnKeeps
<1>3. CASE Where(value, list)
  BY <1>1, <1>3, ExtendKeeps DEF Where
<1>4. CASE Having(value, list)
  BY <1>1, <1>4, ExtendKeeps DEF Having
<1>5. CASE Set(value, list)
  BY <1>1, <1>5, ExtendKeeps DEF Set
<1>6. CASE Select(value, list)
  BY <1>1, <1>6, ReplaceKeeps DEF Select
<1>7. CASE GroupBy(value, list)
  BY <1>1, <1>7, ReplaceKeeps DEF GroupBy
<1>8. CASE OrderBy(value, list)
  BY <1>1, <1>8, CopyKeeps DEF OrderBy
<1>9. CASE Returning(value, list)
  BY <1>1, <1>9, ReplaceKeeps DEF Returning
<1>10. CASE Values(value, list)
  BY <1>10, ValuesKeeps
<1>11. CASE OnDuplicateKey(value, list)
  BY <1>1, <1>11, ReplaceKeeps DEF OnDuplicateKey
<1>12. CASE OnConflict(value, list)
  BY <1>12, OnConflictKeeps
<1>13. CASE DoUpdate(value, list)
  BY <1>13, DoUpdateKeeps
<1> QED
  BY <1>2, <1>3, <1>4, <1>5, <1>6, <1>7, <1>8, <1>9, <1>10, <1>11, <1>12, <1>13 DEF Call

\* The prefixes of the caller's slice.
LEMMA MineIsPassed ==
  ASSUME HeapInv, NEW length \in 0 .. Width
  PROVE  Passed(heap, Slice(1, length))
<1>1. Len(heap) \in Nat /\ Len(heap) >= 1 /\ Len(heap[1]) = Width
  BY LenProperties DEF HeapInv, HeapOK
<1>2. Slice(1, length) \in SliceType /\ Slice(1, length).array = 1
      /\ Slice(1, length).length = length
  BY HeapAssumption DEF Slice, SliceType
<1> QED
  BY <1>1, <1>2, HeapAssumption DEF Passed

LEMMA DeriveKeeps ==
  ASSUME HeapInv, Derive
  PROVE  Kept
<1>1. PICK i \in DOMAIN family :
        \/ \E kind \in {"inner", "cross"} : Join(family[i], kind)
        \/ \E length \in 0 .. Width : Call(family[i], Slice(1, length))
        \/ \E count \in Names : Limit(family[i], count)
        \/ StartQuery(family[i])
        \/ DoNothing(family[i])
  BY DEF Derive
<1> DEFINE value == family[i]
<1>2. ValueOK(heap, value)
  BY LenProperties DEF HeapInv
<1> HIDE DEF value
<1>3. CASE \E kind \in {"inner", "cross"} : Join(value, kind)
  BY <1>2, <1>3, JoinKeeps
<1>4. CASE \E length \in 0 .. Width : Call(value, Slice(1, length))
  <2>1. PICK length \in 0 .. Width : Call(value, Slice(1, length))
    BY <1>4
  <2> QED
    BY <1>2, <2>1, MineIsPassed, CallKeeps
<1>5. CASE \E count \in Names : Limit(value, count)
  BY <1>2, <1>5, LimitKeeps
<1>6. CASE StartQuery(value)
  BY <1>2, <1>6, StartQueryKeeps
<1>7. CASE DoNothing(value)
  BY <1>2, <1>7, DoNothingKeeps
<1> QED
  BY <1>1, <1>3, <1>4, <1>5, <1>6, <1>7 DEF value

\* Only the caller's array changes, and it stays as long as it is.
CallerKept ==
  /\ HeapInv' /\ family' = family
  /\ Len(heap') >= Len(heap) /\ \A a \in 2 .. Len(heap) : heap'[a] = heap[a]

LEMMA WriteMine ==
  ASSUME HeapInv, NEW g, HeapOK(g), Grown(heap, g), NEW i \in 1 .. Width,
         NEW cell \in CellType, Held(g, cell.slice),
         heap' = Written(g, 1, [g[1] EXCEPT ![i] = cell]), family' = family
  PROVE  CallerKept
<1> DEFINE mineNow == [g[1] EXCEPT ![i] = cell]
<1>1. Len(heap) \in Nat /\ Len(g) \in Nat /\ Len(heap) >= 1 /\ Len(g) >= Len(heap)
      /\ g \in Seq(Seq(CellType)) /\ HeapOK(heap) /\ Len(heap[1]) = Width
  BY LenProperties DEF HeapInv, HeapOK, Grown
<1>2. g[1] = heap[1] /\ g[1] \in Seq(CellType) /\ Items(g, g[1]) /\ Len(g[1]) = Width
  BY <1>1 DEF Grown, HeapOK, Items
<1>3. /\ mineNow \in Seq(CellType) /\ Len(mineNow) = Width
      /\ \A j \in 1 .. Width : mineNow[j] = IF j = i THEN cell ELSE g[1][j]
  BY <1>2, ExceptSeq
<1> HIDE DEF mineNow
<1>4. Items(g, mineNow)
  <2> SUFFICES ASSUME NEW j \in 1 .. Width PROVE Held(g, mineNow[j].slice)
    BY <1>3 DEF Items
  <2>1. j = i => Held(g, mineNow[j].slice)
    BY <1>3
  <2>2. j # i => Held(g, mineNow[j].slice)
    BY <1>2, <1>3 DEF Items
  <2> QED
    BY <2>1, <2>2
<1>5. 1 \in 1 .. Len(g)
  BY <1>1
<1>6. /\ heap' \in Seq(Seq(CellType)) /\ Len(heap') = Len(g)
      /\ \A a \in 1 .. Len(g) : heap'[a] = IF a = 1 THEN mineNow ELSE g[a]
  BY <1>1, <1>3, <1>5, ExceptSeq DEF Written, mineNow
<1>7. ASSUME NEW s, Held(g, s) PROVE Held(heap', s)
  <2>1. CASE s.length = 0
    BY <2>1 DEF Held
  <2>2. CASE s.array \in 2 .. Len(g) /\ s.length \in 1 .. Len(g[s.array])
    <3>1. s.array \in 1 .. Len(g) /\ s.array # 1
      BY SMTT(30), <1>1, <2>2
    <3> QED
      BY <1>1, <1>6, <2>2, <3>1 DEF Held
  <2> QED
    BY <1>7, <2>1, <2>2 DEF Held
<1>8. HeapOK(heap')
  <2> SUFFICES ASSUME NEW a \in 1 .. Len(g) PROVE Items(heap', heap'[a])
    BY <1>1, <1>6 DEF HeapOK
  <2>1. Items(g, heap'[a])
    BY <1>4, <1>6 DEF HeapOK
  <2> QED
    BY <2>1, <1>7 DEF Items
<1>9. Len(heap'[1]) = Width
  BY <1>3, <1>5, <1>6
<1>10. \A j \in 1 .. Len(family) : ValueOK(heap', family[j])
  <2> SUFFICES ASSUME NEW j \in 1 .. Len(family) PROVE ValueOK(heap', family[j])
    OBVIOUS
  <2>1. ValueOK(g, family[j])
    BY <1>1, ValueGrown DEF HeapInv
  <2> QED
    BY <2>1, <1>7 DEF ValueOK
<1>11. HeapInv'
  BY <1>8, <1>9, <1>10 DEF HeapInv
<1>12. \A a \in 2 .. Len(heap) : heap'[a] = heap[a]
  <2> SUFFICES ASSUME NEW a \in 2 .. Len(heap) PROVE heap'[a] = heap[a]
    OBVIOUS
  <2>1. a \in 1 .. Len(heap) /\ a \in 1 .. Len(g) /\ a # 1
    BY <1>1
  <2> QED
    BY <1>6, <2>1 DEF Grown
<1> QED
  BY <1>1, <1>6, <1>11, <1>12 DEF CallerKept

LEMMA OverwriteKeeps ==
  ASSUME HeapInv, NEW i \in 1 .. Width, NEW name \in Names, Overwrite(i, name)
  PROVE  CallerKept
<1>1. Leaf(name) \in CellType /\ Leaf(name).slice = NilSlice
  BY NilIsHeld DEF Leaf, Cell, CellType, Tags, Labels
<1>2. Held(heap, Leaf(name).slice)
  BY <1>1, NilIsHeld
<1>3. HeapOK(heap) /\ Grown(heap, heap)
  <2>1. Len(heap) \in Nat
    BY LenProperties DEF HeapInv, HeapOK
  <2> QED
    BY <2>1 DEF HeapInv, Grown
<1>4. heap' = Written(heap, 1, [heap[1] EXCEPT ![i] = Leaf(name)]) /\ family' = family
  BY DEF Overwrite, Written
<1> QED
  BY <1>1, <1>2, <1>3, <1>4, WriteMine

LEMMA CombineKeeps ==
  ASSUME HeapInv, NEW i \in 1 .. Width, Combine(i)
  PROVE  CallerKept
<1> DEFINE children == Copied(heap, Cells(heap, mine))
           cell     == Cell("logical", "AND", children.slice)
           g        == children.heap
<1>1. Passed(heap, mine)
  BY MineIsPassed, HeapAssumption DEF mine
<1>2. Allocated(heap, children)
  BY <1>1, CellsAreItems, CopiedAllocates DEF HeapInv
<1>3. heap' = Written(g, 1, [g[1] EXCEPT ![i] = cell]) /\ family' = family
  BY DEF Combine, Written
<1> HIDE DEF children
<1>4. HeapOK(g) /\ Grown(heap, g) /\ children.slice \in SliceType /\ Held(g, children.slice)
  BY <1>2 DEF Allocated
<1>5. cell \in CellType /\ cell.slice = children.slice
  BY <1>4 DEF Cell, CellType, Tags, Labels
<1> HIDE DEF cell, g
<1> QED
  BY <1>3, <1>4, <1>5, WriteMine

LEMMA InitEstablishes ==
  ASSUME Init
  PROVE  HeapInv
<1>1. PICK name \in Names : heap = <<[i \in 1 .. Width |-> Leaf(name)]>>
  BY DEF Init
<1>2. PICK kind \in Starts : family = <<Start(kind)>>
  BY DEF Init
<1> DEFINE cell  == Leaf(name)
           array == [i \in 1 .. Width |-> cell]
<1>3. cell \in CellType /\ cell.slice = NilSlice
  BY NilIsHeld DEF Leaf, Cell, CellType, Tags, Labels
<1> HIDE DEF cell
<1>4. array \in Seq(CellType) /\ Len(array) = Width /\ \A i \in 1 .. Width : array[i] = cell
  BY <1>3, HeapAssumption
<1>5. heap = <<array>>
  BY <1>1 DEF cell
<1> HIDE DEF array
<1>6. Items(heap, array)
  BY <1>3, <1>4, NilIsHeld DEF Items
<1>7. heap \in Seq(Seq(CellType)) /\ Len(heap) = 1 /\ heap[1] = array
  BY <1>4, <1>5
<1>8. \A a \in 1 .. Len(heap) : heap[a] = array
  BY <1>7
<1>9. HeapOK(heap)
  BY <1>6, <1>7, <1>8 DEF HeapOK
<1> DEFINE value == Start(kind)
<1>10. value \in ValueType /\ \A f \in Fields : value.slices[f] = NilSlice
  BY NilIsHeld, HeapAssumption DEF Start, ValueType, Kinds
<1> HIDE DEF value
<1>11. ValueOK(heap, value)
  BY <1>10, NilIsHeld DEF ValueOK
<1>12. family \in Seq(ValueType) /\ Len(family) = 1 /\ family[1] = value
  BY <1>2, <1>10 DEF value
<1>13. \A i \in 1 .. Len(family) : family[i] = value
  BY <1>12
<1> QED
  BY <1>4, <1>7, <1>9, <1>11, <1>12, <1>13 DEF HeapInv

\* Of any step: the invariant, every array but the caller's, and every value.
Steady ==
  /\ HeapInv'
  /\ Len(heap') >= Len(heap) /\ \A a \in 2 .. Len(heap) : heap'[a] = heap[a]
  /\ \A i \in DOMAIN family : family'[i] = family[i]

LEMMA StepIsSteady ==
  ASSUME HeapInv, [Next]_vars
  PROVE  Steady
<1>1. Len(heap) \in Nat /\ Len(family) \in Nat /\ DOMAIN family = 1 .. Len(family)
      /\ family \in Seq(ValueType)
  BY LenProperties DEF HeapInv, HeapOK
<1>2. CASE Derive
  <2>1. Kept
    BY <1>2, DeriveKeeps
  <2> QED
    BY <1>1, <2>1 DEF Kept, Grown, Steady
<1>3. CASE Caller
  <2>1. CallerKept
    BY <1>3, OverwriteKeeps, CombineKeeps DEF Caller
  <2> QED
    BY <2>1 DEF CallerKept, Steady
<1>4. CASE UNCHANGED vars
  <2>1. HeapInv'
    BY <1>4 DEF vars, HeapInv, HeapOK, Items, Held, ValueOK
  <2> QED
    BY <1>1, <1>4, <2>1 DEF vars, Steady
<1> QED
  BY <1>2, <1>3, <1>4 DEF Next

LEMMA TypeFollows ==
  ASSUME HeapInv
  PROVE  TypeOK
<1>1. Len(heap) \in Nat /\ DOMAIN heap = 1 .. Len(heap) /\ DOMAIN family = 1 .. Len(family)
      /\ HeapOK(heap)
  BY LenProperties DEF HeapInv, HeapOK
<1>2. \A s : Held(heap, s) => SliceOK(s)
  BY DEF Held, SliceOK
<1>3. \A i \in DOMAIN family : \A f \in Fields : SliceOK(family[i].slices[f])
  BY <1>1, <1>2 DEF HeapInv, ValueOK
<1>4. ASSUME NEW a \in DOMAIN heap, NEW i \in DOMAIN heap[a]
      PROVE  SliceOK(heap[a][i].slice)
  <2>1. Items(heap, heap[a]) /\ heap[a] \in Seq(CellType)
    BY <1>1, <1>4 DEF HeapOK, Items
  <2>2. i \in 1 .. Len(heap[a])
    BY <1>4, <2>1, LenProperties
  <2> QED
    BY <1>2, <2>1, <2>2 DEF Items
<1> QED
  BY <1>3, <1>4 DEF TypeOK

LEMMA AlwaysHeapInv == Spec => []HeapInv
<1>1. Init => HeapInv
  BY InitEstablishes
<1>2. HeapInv /\ [Next]_vars => HeapInv'
  BY StepIsSteady DEF Steady
<1> QED
  BY <1>1, <1>2, PTL DEF Spec

-----------------------------------------------------------------------------
(***************************************************************************)
(* What a caller sees.                                                     *)
(***************************************************************************)


\* Seen, SeenDeep, Contents and Content, of a given heap.
SeenIn(h, cell) ==
  [tag |-> cell.tag, name |-> cell.name,
   items |-> [i \in 1 .. cell.slice.length |-> Flat(h[cell.slice.array][i])]]
SeenDeepIn(h, cell) ==
  [tag |-> cell.tag, name |-> cell.name,
   items |-> [i \in 1 .. cell.slice.length |-> SeenIn(h, h[cell.slice.array][i])]]
ContentsIn(h, s) == [i \in 1 .. s.length |-> SeenDeepIn(h, h[s.array][i])]
ContentIn(h, value) ==
  [kind |-> value.kind, fields |-> [f \in Fields |-> ContentsIn(h, value.slices[f])]]

Same(h, k) == \A a \in 2 .. Len(h) : k[a] = h[a]

\* The array of a slice that is not empty, and the slices of its cells.
LEMMA HeldCells ==
  ASSUME NEW h, HeapOK(h), NEW k, Same(h, k), NEW s, Held(h, s), NEW i \in 1 .. s.length
  PROVE  k[s.array][i] = h[s.array][i] /\ Held(h, h[s.array][i].slice)
<1>1. s.array \in 2 .. Len(h) /\ s.length \in 1 .. Len(h[s.array])
  BY DEF Held
<1>2. Len(h) \in Nat /\ s.array \in 1 .. Len(h)
  BY <1>1, LenProperties DEF HeapOK
<1>3. Items(h, h[s.array]) /\ Len(h[s.array]) \in Nat
  BY <1>2, LenProperties DEF HeapOK, Items
<1>4. i \in 1 .. Len(h[s.array])
  BY <1>1, <1>3
<1> QED
  BY <1>1, <1>3, <1>4 DEF Same, Items

LEMMA SeenStays ==
  ASSUME NEW h, HeapOK(h), NEW k, Same(h, k), NEW cell, Held(h, cell.slice)
  PROVE  SeenIn(k, cell) = SeenIn(h, cell)
<1> DEFINE s == cell.slice
<1>1. \A i \in 1 .. s.length : Flat(k[s.array][i]) = Flat(h[s.array][i])
  BY HeldCells
<1>2. [i \in 1 .. s.length |-> Flat(k[s.array][i])] =
        [i \in 1 .. s.length |-> Flat(h[s.array][i])]
  BY <1>1
<1> QED
  BY <1>2 DEF SeenIn

LEMMA SeenDeepStays ==
  ASSUME NEW h, HeapOK(h), NEW k, Same(h, k), NEW cell, Held(h, cell.slice)
  PROVE  SeenDeepIn(k, cell) = SeenDeepIn(h, cell)
<1> DEFINE s == cell.slice
<1>1. \A i \in 1 .. s.length : SeenIn(k, k[s.array][i]) = SeenIn(h, h[s.array][i])
  BY HeldCells, SeenStays
<1>2. [i \in 1 .. s.length |-> SeenIn(k, k[s.array][i])] =
        [i \in 1 .. s.length |-> SeenIn(h, h[s.array][i])]
  BY <1>1
<1> QED
  BY <1>2 DEF SeenDeepIn

LEMMA ContentsStay ==
  ASSUME NEW h, HeapOK(h), NEW k, Same(h, k), NEW s, Held(h, s)
  PROVE  ContentsIn(k, s) = ContentsIn(h, s)
<1>1. \A i \in 1 .. s.length : SeenDeepIn(k, k[s.array][i]) = SeenDeepIn(h, h[s.array][i])
  BY HeldCells, SeenDeepStays
<1> QED
  BY <1>1 DEF ContentsIn

LEMMA ContentStays ==
  ASSUME NEW h, HeapOK(h), NEW k, Same(h, k), NEW value, ValueOK(h, value)
  PROVE  ContentIn(k, value) = ContentIn(h, value)
<1>1. \A f \in Fields : ContentsIn(k, value.slices[f]) = ContentsIn(h, value.slices[f])
  BY ContentsStay DEF ValueOK
<1> QED
  BY <1>1 DEF ContentIn

-----------------------------------------------------------------------------
(***************************************************************************)
(* Theorems.                                                               *)
(***************************************************************************)

\* No builder and no predicate ever holds a slice of the caller's, and every
\* slice lies within its array, whatever is called in whatever order.
THEOREM TypeCorrect == Spec => []TypeOK
BY AlwaysHeapInv, TypeFollows, PTL

\* Once a method has returned, no later call writes into an array that it
\* allocated, and neither does the caller.
THEOREM ArraysStay == Spec => PublishedArraysStay
<1>1. HeapInv /\ [Next]_vars => [\A a \in 2 .. Len(heap) : heap'[a] = heap[a]]_vars
  BY StepIsSteady DEF Steady
<1> QED
  BY <1>1, AlwaysHeapInv, PTL DEF Spec, PublishedArraysStay

\* A builder value shows the same content for ever: no call on it or on a
\* value derived from it, and no write of the caller to a list it passed,
\* changes what it holds.
ValuesNeverChange ==
  [][\A i \in DOMAIN family : Content(family[i])' = Content(family[i])]_vars

THEOREM ValuesStay == Spec => ValuesNeverChange
<1> DEFINE Unchanging == \A i \in DOMAIN family : Content(family[i])' = Content(family[i])
<1>1. HeapInv /\ [Next]_vars => Unchanging
  <2> SUFFICES ASSUME HeapInv, [Next]_vars, NEW i \in DOMAIN family
               PROVE  Content(family[i])' = Content(family[i])
    OBVIOUS
  <2>1. HeapOK(heap) /\ Same(heap, heap') /\ family'[i] = family[i]
    BY StepIsSteady DEF Steady, Same, HeapInv
  <2>2. ValueOK(heap, family[i])
    BY LenProperties DEF HeapInv
  <2>3. ContentIn(heap', family[i]) = ContentIn(heap, family[i])
    BY <2>1, <2>2, ContentStays
  <2>4. Content(family[i])' = ContentIn(heap', family'[i])
    BY DEF Content, Contents, SeenDeep, Seen, ContentIn, ContentsIn, SeenDeepIn, SeenIn
  <2>5. Content(family[i]) = ContentIn(heap, family[i])
    BY DEF Content, Contents, SeenDeep, Seen, ContentIn, ContentsIn, SeenDeepIn, SeenIn
  <2> QED
    BY <2>1, <2>3, <2>4, <2>5
<1> QED
  BY <1>1, AlwaysHeapInv, PTL DEF Spec, ValuesNeverChange
-----------------------------------------------------------------------------
(***************************************************************************)
(* The refinement: what the caller sees of a value is what the calls made  *)
(* of it.                                                                  *)
(***************************************************************************)

\* What the caller sees of a list of cells.
Look(h, cells) == [i \in 1 .. Len(cells) |-> SeenDeepIn(h, cells[i])]

\* What the caller's slice holds: leaves, and conjunctions of leaves.
LeafCells == {Leaf(name) : name \in Names}
Simple(h, cell) ==
  \/ cell \in LeafCells
  \/ /\ cell.tag = "logical" /\ cell.name = "AND" /\ cell.slice.length = Width
     /\ Held(h, cell.slice)
     /\ \A j \in 1 .. Width : h[cell.slice.array][j] \in LeafCells
MineInv == \A i \in 1 .. Width : Simple(heap, heap[1][i])

\* A list that is passed to a method.
Argument(h, cells) ==
  /\ Items(h, cells) /\ Len(cells) \in 0 .. Width
  /\ \A i \in 1 .. Len(cells) : Simple(h, cells[i])

LEMMA LookStays ==
  ASSUME NEW h, HeapOK(h), NEW k, Same(h, k), NEW cells, Items(h, cells)
  PROVE  Look(k, cells) = Look(h, cells)
<1>1. \A i \in 1 .. Len(cells) : SeenDeepIn(k, cells[i]) = SeenDeepIn(h, cells[i])
  BY SeenDeepStays DEF Items
<1> QED
  BY <1>1 DEF Look

LEMMA GrownSame ==
  ASSUME NEW h, HeapOK(h), NEW g, Grown(h, g)
  PROVE  Same(h, g)
<1>1. Len(h) \in Nat
  BY LenProperties DEF HeapOK
<1> QED
  BY <1>1 DEF Grown, Same

LEMMA LookIsSeq ==
  ASSUME NEW h, NEW cells \in Seq(CellType)
  PROVE  /\ Look(h, cells) \in Seq({SeenDeepIn(h, cells[i]) : i \in 1 .. Len(cells)})
         /\ Len(Look(h, cells)) = Len(cells)
<1> DEFINE S == {SeenDeepIn(h, cells[i]) : i \in 1 .. Len(cells)}
           look == Look(h, cells)
<1>1. Len(cells) \in Nat
  BY LenProperties
<1>2. look = [i \in 1 .. Len(cells) |-> look[i]] /\ \A i \in 1 .. Len(cells) : look[i] \in S
  BY DEF Look
<1> HIDE DEF S, look
<1>3. look \in Seq(S) /\ Len(look) = Len(cells)
  BY <1>1, <1>2, FunctionIsSeq
<1> QED
  BY <1>3 DEF S, look

\* What a slice shows is what the caller sees through it.
LEMMA ShownContents ==
  ASSUME NEW g, NEW s, NEW cells, Shows(g, s, cells)
  PROVE  ContentsIn(g, s) = Look(g, cells)
BY DEF Shows, ContentsIn, Look

LEMMA CellsShown ==
  ASSUME NEW h, HeapOK(h), NEW s, Passed(h, s)
  PROVE  Shows(h, s, Cells(h, s))
<1>1. Len(Cells(h, s)) = s.length /\ s.length \in Nat
  BY CellsAreItems DEF Passed, SliceType
<1>2. CASE s.length = 0
  BY <1>1, <1>2 DEF Shows
<1>3. CASE s.length # 0
  <2> DEFINE cells == h[s.array]
  <2>1. s.array \in 1 .. Len(h) /\ s.length \in 1 .. Len(h[s.array])
    BY <1>3 DEF Passed
  <2>2. cells \in Seq(CellType) /\ Len(cells) \in Nat
    BY <2>1, LenProperties DEF HeapOK, Items
  <2>3. Cells(h, s) = SubSeq(cells, 1, s.length)
    BY <1>3 DEF Cells
  <2> HIDE DEF cells
  <2>4. \A i \in 1 .. s.length : SubSeq(cells, 1, s.length)[i] = cells[i]
    BY <1>1, <2>1, <2>2 DEF cells
  <2> QED
    BY <1>1, <2>3, <2>4 DEF Shows, cells
<1> QED
  BY <1>2, <1>3

LEMMA LookConcat ==
  ASSUME NEW h, NEW a \in Seq(CellType), NEW b \in Seq(CellType)
  PROVE  Look(h, a \o b) = Look(h, a) \o Look(h, b)
<1> DEFINE x == Look(h, a)
           y == Look(h, b)
           all == a \o b
           S == {SeenDeepIn(h, a[i]) : i \in 1 .. Len(a)}
                  \union {SeenDeepIn(h, b[i]) : i \in 1 .. Len(b)}
<1>1. Len(a) \in Nat /\ Len(b) \in Nat
  BY LenProperties
<1>2. /\ Len(all) = Len(a) + Len(b)
      /\ \A i \in 1 .. Len(a) + Len(b) : all[i] = IF i <= Len(a) THEN a[i] ELSE b[i - Len(a)]
  BY ConcatProperties
<1>3. /\ \A i \in 1 .. Len(a) : x[i] = SeenDeepIn(h, a[i]) /\ x[i] \in S
      /\ \A i \in 1 .. Len(b) : y[i] = SeenDeepIn(h, b[i]) /\ y[i] \in S
  BY DEF Look
<1>4. x = [i \in 1 .. Len(a) |-> x[i]] /\ y = [i \in 1 .. Len(b) |-> y[i]]
  BY DEF Look
<1> HIDE DEF x, y, S, all
<1>5. x \in Seq(S) /\ Len(x) = Len(a) /\ y \in Seq(S) /\ Len(y) = Len(b)
  BY <1>1, <1>3, <1>4, FunctionIsSeq
<1> DEFINE m == Len(a)
           n == Len(b)
<1>6. /\ x \o y \in Seq(S) /\ Len(x \o y) = m + n
      /\ \A i \in 1 .. m + n : (x \o y)[i] = IF i <= m THEN x[i] ELSE y[i - m]
  <2>1. /\ x \o y \in Seq(S) /\ Len(x \o y) = Len(x) + Len(y)
        /\ \A i \in 1 .. Len(x) + Len(y) :
             (x \o y)[i] = IF i <= Len(x) THEN x[i] ELSE y[i - Len(x)]
    BY <1>5, ConcatProperties
  <2> QED
    BY <1>5, <2>1
<1>7. \A i \in 1 .. m + n : (x \o y)[i] = SeenDeepIn(h, all[i])
  <2>1. /\ m \in Nat /\ n \in Nat
        /\ \A i \in 1 .. m : x[i] = SeenDeepIn(h, a[i])
        /\ \A i \in 1 .. n : y[i] = SeenDeepIn(h, b[i])
        /\ \A i \in 1 .. m + n : all[i] = IF i <= m THEN a[i] ELSE b[i - m]
    BY <1>1, <1>2, <1>3
  <2> HIDE DEF m, n
  <2> SUFFICES ASSUME NEW i \in 1 .. m + n PROVE (x \o y)[i] = SeenDeepIn(h, all[i])
    OBVIOUS
  <2>2. CASE i <= m
    <3>1. i \in 1 .. m
      BY <2>1, <2>2
    <3> QED
      BY <1>6, <2>1, <2>2, <3>1
  <2>3. CASE ~(i <= m)
    <3>1. i - m \in 1 .. n
      BY <2>1, <2>3
    <3>2. (x \o y)[i] = y[i - m] /\ all[i] = b[i - m]
      BY <1>6, <2>1, <2>3
    <3> QED
      BY <2>1, <3>1, <3>2
  <2> QED
    BY <2>2, <2>3
<1>8. x \o y = [i \in 1 .. Len(a) + Len(b) |-> (x \o y)[i]]
  BY <1>1, <1>6, LenProperties
<1>9. Look(h, all) = [i \in 1 .. Len(a) + Len(b) |-> SeenDeepIn(h, all[i])]
  BY <1>2 DEF Look
<1>10. Look(h, all) = x \o y
  BY SMTT(30), <1>7, <1>8, <1>9
<1> QED
  BY <1>10 DEF x, y, all

\* Nothing of a list that a caller passes is too deep to be seen.
LEMMA LeafSeen ==
  ASSUME NEW h, NEW cell \in LeafCells
  PROVE  SeenIn(h, cell) = Flat(cell) /\ SeenDeepIn(h, cell) = Flat(cell)
         /\ Flat(cell) \in {SeenLeaf(name) : name \in Names}
<1>1. PICK name \in Names : cell = Leaf(name)
  BY DEF LeafCells
<1>2. cell.slice.length = 0
  BY <1>1 DEF Leaf, Cell, NilSlice, Slice
<1>3. [i \in 1 .. cell.slice.length |-> Flat(h[cell.slice.array][i])] = <<>>
  BY <1>2
<1>4. [i \in 1 .. cell.slice.length |-> SeenIn(h, h[cell.slice.array][i])] = <<>>
  BY <1>2
<1> QED
  BY <1>1, <1>3, <1>4 DEF SeenIn, SeenDeepIn, Flat, SeenLeaf

LEMMA SimpleSeen ==
  ASSUME NEW h, NEW cell, Simple(h, cell)
  PROVE  /\ SeenIn(h, cell) = SeenDeepIn(h, cell)
         /\ SeenDeepIn(h, cell) \in {SeenLeaf(name) : name \in Names} \union Logicals
<1>1. CASE cell \in LeafCells
  BY <1>1, LeafSeen
<1>2. CASE cell \notin LeafCells
  <2> DEFINE child(j) == h[cell.slice.array][j]
  <2>1. /\ cell.tag = "logical" /\ cell.name = "AND" /\ cell.slice.length = Width
        /\ \A j \in 1 .. Width : child(j) \in LeafCells
    BY <1>2 DEF Simple
  <2>2. \A j \in 1 .. Width : /\ SeenIn(h, child(j)) = Flat(child(j))
                              /\ Flat(child(j)) \in {SeenLeaf(name) : name \in Names}
    BY <2>1, LeafSeen
  <2>3. SeenIn(h, cell) = [tag |-> "logical", name |-> "AND",
                           items |-> [j \in 1 .. Width |-> Flat(child(j))]]
    BY <2>1 DEF SeenIn
  <2>4. SeenDeepIn(h, cell) = [tag |-> "logical", name |-> "AND",
                               items |-> [j \in 1 .. Width |-> SeenIn(h, child(j))]]
    BY <2>1 DEF SeenDeepIn
  <2> HIDE DEF child
  <2>5. [j \in 1 .. Width |-> SeenIn(h, child(j))] = [j \in 1 .. Width |-> Flat(child(j))]
    BY <2>2
  <2>6. [j \in 1 .. Width |-> Flat(child(j))] \in Leaves(Width)
    BY <2>2 DEF Leaves
  <2>7. SeenDeepIn(h, cell) = SeenIn(h, cell)
    BY <2>3, <2>4, <2>5
  <2> QED
    BY <2>3, <2>6, <2>7 DEF Logicals
<1> QED
  BY <1>1, <1>2

LEMMA ArgumentSeen ==
  ASSUME NEW h, NEW cells, Argument(h, cells)
  PROVE  Look(h, cells) \in Lists
<1> DEFINE S == {SeenLeaf(name) : name \in Names} \union Logicals
<1>1. \A i \in 1 .. Len(cells) : SeenDeepIn(h, cells[i]) \in S
  BY SimpleSeen DEF Argument
<1> HIDE DEF S
<1>2. Look(h, cells) \in [1 .. Len(cells) -> S]
  BY <1>1 DEF Look
<1> QED
  BY <1>2 DEF Lists, Argument, S

\* A list seen as the items of a cell, one level less deep.
LEMMA ArgumentItems ==
  ASSUME NEW h, HeapOK(h), NEW cells, Argument(h, cells), NEW g, Same(h, g), NEW cell,
         Shows(g, cell.slice, cells)
  PROVE  SeenDeepIn(g, cell) = [tag |-> cell.tag, name |-> cell.name, items |-> Look(h, cells)]
<1>1. \A i \in 1 .. Len(cells) : SeenIn(g, cells[i]) = SeenDeepIn(h, cells[i])
  BY SimpleSeen, SeenStays DEF Argument, Items
<1>2. cell.slice.length = Len(cells)
      /\ \A i \in 1 .. Len(cells) : g[cell.slice.array][i] = cells[i]
  BY DEF Shows
<1>3. [i \in 1 .. cell.slice.length |-> SeenIn(g, g[cell.slice.array][i])] = Look(h, cells)
  BY <1>1, <1>2 DEF Look
<1> QED
  BY <1>3 DEF SeenDeepIn

\* The step adds a value that shows v.
Became(v) == \E new : family' = Append(family, new) /\ ContentIn(heap', new) = v

LEMMA HeldContents ==
  ASSUME NEW h, HeapOK(h), NEW s \in SliceType, Held(h, s)
  PROVE  /\ Passed(h, s) /\ Items(h, Cells(h, s)) /\ Len(Cells(h, s)) = s.length
         /\ ContentsIn(h, s) = Look(h, Cells(h, s))
<1>1. Len(h) \in Nat
  BY LenProperties DEF HeapOK
<1>2. Passed(h, s)
  BY <1>1 DEF Held, Passed
<1>3. Shows(h, s, Cells(h, s))
  BY <1>2, CellsShown
<1> QED
  BY <1>2, <1>3, CellsAreItems, ShownContents

LEMMA KindSeen ==
  ASSUME NEW h, NEW value, ValueOK(h, value), NEW kind \in Kinds
  PROVE  ContentIn(h, OfKind(value, kind)) = Independent!As(ContentIn(h, value), kind)
<1> DEFINE old    == ContentIn(h, value)
           fields == [f \in Fields |-> ContentsIn(h, value.slices[f])]
<1>1. OfKind(value, kind).slices = value.slices /\ OfKind(value, kind).kind = kind
  BY DEF ValueOK, ValueType, OfKind
<1>2. ContentIn(h, OfKind(value, kind)) = [kind |-> kind, fields |-> fields]
  BY <1>1 DEF ContentIn
<1>3. old = [kind |-> value.kind, fields |-> fields]
  BY DEF ContentIn
<1> HIDE DEF old, fields
<1>4. [old EXCEPT !.kind = kind] = [kind |-> kind, fields |-> fields]
  BY <1>3
<1> QED
  BY <1>2, <1>4 DEF Independent!As, old

LEMMA SliceSeen ==
  ASSUME NEW h, HeapOK(h), NEW value, ValueOK(h, value), NEW g, Grown(h, g),
         NEW f \in Fields, NEW s \in SliceType
  PROVE  ContentIn(g, WithSlice(value, f, s)) =
           Independent!Replace(ContentIn(h, value), f, ContentsIn(g, s))
<1> DEFINE new == WithSlice(value, f, s)
           old == ContentIn(h, value)
           list == ContentsIn(g, s)
<1>1. new.kind = value.kind
      /\ \A x \in Fields : new.slices[x] = IF x = f THEN s ELSE value.slices[x]
  BY DEF ValueOK, ValueType, WithSlice
<1>2. Same(h, g)
  BY GrownSame
<1>3. \A x \in Fields : ContentsIn(g, value.slices[x]) = ContentsIn(h, value.slices[x])
  BY <1>2, ContentsStay DEF ValueOK
<1> HIDE DEF new
<1>4. ContentIn(g, new) =
        [kind |-> value.kind,
         fields |-> [x \in Fields |-> IF x = f THEN list ELSE ContentsIn(h, value.slices[x])]]
  BY <1>1, <1>3 DEF ContentIn
<1>5. old = [kind |-> value.kind, fields |-> [x \in Fields |-> ContentsIn(h, value.slices[x])]]
  BY DEF ContentIn
<1> HIDE DEF old, list
<1>6. [old EXCEPT !.fields[f] = list] =
        [kind |-> value.kind,
         fields |-> [x \in Fields |-> IF x = f THEN list ELSE ContentsIn(h, value.slices[x])]]
  BY <1>5
<1> QED
  BY <1>4, <1>6 DEF Independent!Replace, new, old, list

\* A method that replaces a list.
LEMMA ReplacedSeen ==
  ASSUME NEW h, HeapOK(h), NEW value, ValueOK(h, value), NEW cells, Items(h, cells),
         NEW made, Allocated(h, made), Shows(made.heap, made.slice, cells), NEW f \in Fields
  PROVE  ContentIn(made.heap, WithSlice(value, f, made.slice)) =
           Independent!Replace(ContentIn(h, value), f, Look(h, cells))
<1>1. Grown(h, made.heap) /\ made.slice \in SliceType
  BY DEF Allocated
<1>2. ContentsIn(made.heap, made.slice) = Look(h, cells)
  BY <1>1, GrownSame, ShownContents, LookStays
<1>3. ContentIn(made.heap, WithSlice(value, f, made.slice)) =
        Independent!Replace(ContentIn(h, value), f, ContentsIn(made.heap, made.slice))
  BY <1>1, SliceSeen
<1> QED
  BY <1>2, <1>3

LEMMA ReplacedBecomes ==
  ASSUME NEW h, HeapOK(h), NEW value, ValueOK(h, value), NEW cells, Items(h, cells),
         NEW made, Allocated(h, made), Shows(made.heap, made.slice, cells),
         NEW f \in Fields, With(value, f, made)
  PROVE  Became(Independent!Replace(ContentIn(h, value), f, Look(h, cells)))
<1>1. family' = Append(family, WithSlice(value, f, made.slice)) /\ heap' = made.heap
  BY DEF With, Returned, WithSlice
<1> QED
  BY <1>1, ReplacedSeen DEF Became

\* A method that adds to a list.
LEMMA ExtendedSeen ==
  ASSUME NEW h, HeapOK(h), NEW value, ValueOK(h, value), NEW cells, Items(h, cells),
         NEW f \in Fields
  PROVE  LET made == AppendCopy(h, value.slices[f], cells)
         IN ContentIn(made.heap, WithSlice(value, f, made.slice)) =
              Independent!Extend(ContentIn(h, value), f, Look(h, cells))
<1> DEFINE base == value.slices[f]
           made == AppendCopy(h, base, cells)
           all  == Cells(h, base) \o cells
<1>1. base \in SliceType /\ Held(h, base)
  BY DEF ValueOK, ValueType
<1>2. Items(h, Cells(h, base)) /\ ContentsIn(h, base) = Look(h, Cells(h, base))
  BY <1>1, HeldContents
<1>3. Allocated(h, made) /\ Shows(made.heap, made.slice, all)
  BY <1>1, AppendCopyAllocates
<1>4. Grown(h, made.heap) /\ made.slice \in SliceType
  BY <1>3 DEF Allocated
<1>5. Look(made.heap, all) = Look(made.heap, Cells(h, base)) \o Look(made.heap, cells)
  BY <1>2, LookConcat DEF Items
<1>6. /\ Look(made.heap, Cells(h, base)) = Look(h, Cells(h, base))
      /\ Look(made.heap, cells) = Look(h, cells)
  BY <1>2, <1>4, GrownSame, LookStays
<1>7. ContentsIn(made.heap, made.slice) = ContentsIn(h, base) \o Look(h, cells)
  BY <1>2, <1>3, <1>5, <1>6, ShownContents
<1>8. ContentIn(made.heap, WithSlice(value, f, made.slice)) =
         Independent!Replace(ContentIn(h, value), f, ContentsIn(made.heap, made.slice))
  BY <1>4, SliceSeen
<1>9. ContentIn(h, value).fields[f] = ContentsIn(h, base)
  BY DEF ContentIn
<1> HIDE DEF made, base, all
<1>10. Independent!Extend(ContentIn(h, value), f, Look(h, cells)) =
         Independent!Replace(ContentIn(h, value), f, ContentsIn(h, base) \o Look(h, cells))
  BY <1>9 DEF Independent!Extend, Independent!Replace
<1> QED
  BY <1>7, <1>8, <1>10 DEF made, base

LEMMA ExtendedBecomes ==
  ASSUME NEW h, HeapOK(h), NEW value, ValueOK(h, value), NEW cells, Items(h, cells),
         NEW f \in Fields, With(value, f, AppendCopy(h, value.slices[f], cells))
  PROVE  Became(Independent!Extend(ContentIn(h, value), f, Look(h, cells)))
<1> DEFINE made == AppendCopy(h, value.slices[f], cells)
<1>1. family' = Append(family, WithSlice(value, f, made.slice)) /\ heap' = made.heap
  BY DEF With, Returned, WithSlice
<1>2. ContentIn(made.heap, WithSlice(value, f, made.slice)) =
        Independent!Extend(ContentIn(h, value), f, Look(h, cells))
  BY ExtendedSeen
<1> QED
  BY <1>1, <1>2 DEF Became
-----------------------------------------------------------------------------
\* What each kind of value can become.
LEMMA SuccessorsOf ==
  ASSUME NEW v
  PROVE  /\ v.kind = "joined" => Independent!Successors(v) =
              Independent!Joins(v) \union Independent!Ons(v) \union {Independent!As(v, "select")}
         /\ v.kind = "select" => Independent!Successors(v) = Independent!Selects(v)
         /\ v.kind = "insert" => Independent!Successors(v) = Independent!Inserts(v)
         /\ v.kind = "conflict" => Independent!Successors(v) = Independent!Conflicts(v)
         /\ v.kind = "update" => Independent!Successors(v) = Independent!Updates(v)
BY DEF Independent!Successors

\* A step of the abstract specification, from this value.
Follows(value) ==
  \E v \in Independent!Successors(ContentIn(heap, value)) : Became(v)

LEMMA ExtendFollows ==
  ASSUME HeapInv, NEW value, ValueOK(heap, value), NEW list,
         Argument(heap, Cells(heap, list)), NEW f \in Fields, Extend(value, f, list)
  PROVE  \E l \in Lists : Became(Independent!Extend(ContentIn(heap, value), f, l))
<1> DEFINE cells == Cells(heap, list)
<1>1. HeapOK(heap) /\ Items(heap, cells) /\ Look(heap, cells) \in Lists
  BY ArgumentSeen DEF HeapInv, Argument
<1>2. With(value, f, AppendCopy(heap, value.slices[f], cells))
  BY DEF Extend
<1> HIDE DEF cells
<1>3. Became(Independent!Extend(ContentIn(heap, value), f, Look(heap, cells)))
  BY <1>1, <1>2, ExtendedBecomes
<1> QED
  BY <1>1, <1>3

LEMMA ReplaceFollows ==
  ASSUME HeapInv, NEW value, ValueOK(heap, value), NEW list,
         Argument(heap, Cells(heap, list)), NEW f \in Fields, Replace(value, f, list)
  PROVE  \E l \in Lists : Became(Independent!Replace(ContentIn(heap, value), f, l))
<1> DEFINE cells == Cells(heap, list)
           made  == Made(heap, cells)
<1>1. HeapOK(heap) /\ Items(heap, cells) /\ Look(heap, cells) \in Lists
  BY ArgumentSeen DEF HeapInv, Argument
<1>2. With(value, f, made)
  BY DEF Replace
<1> HIDE DEF cells
<1>3. Allocated(heap, made) /\ Shows(made.heap, made.slice, cells)
  BY <1>1, MadeAllocates
<1> HIDE DEF made
<1>4. Became(Independent!Replace(ContentIn(heap, value), f, Look(heap, cells)))
  BY <1>1, <1>2, <1>3, ReplacedBecomes
<1> QED
  BY <1>1, <1>4

LEMMA CopyFollows ==
  ASSUME HeapInv, NEW value, ValueOK(heap, value), NEW list,
         Argument(heap, Cells(heap, list)), NEW f \in Fields,
         With(value, f, Copied(heap, Cells(heap, list)))
  PROVE  \E l \in Lists : Became(Independent!Replace(ContentIn(heap, value), f, l))
<1> DEFINE cells == Cells(heap, list)
           made  == Copied(heap, cells)
<1>1. HeapOK(heap) /\ Items(heap, cells) /\ Look(heap, cells) \in Lists
  BY ArgumentSeen DEF HeapInv, Argument
<1>2. With(value, f, made)
  OBVIOUS
<1> HIDE DEF cells
<1>3. Allocated(heap, made) /\ Shows(made.heap, made.slice, cells)
  BY <1>1, CopiedAllocates
<1> HIDE DEF made
<1>4. Became(Independent!Replace(ContentIn(heap, value), f, Look(heap, cells)))
  BY <1>1, <1>2, <1>3, ReplacedBecomes
<1> QED
  BY <1>1, <1>4

\* The methods of a list each, by the kind of their receiver.
LEMMA SelectSuccessors ==
  ASSUME NEW value, value.kind = "select", NEW l \in Lists
  PROVE  LET v == ContentIn(heap, value)
         IN /\ \A f \in {"predicates", "having"} :
                 Became(Independent!Extend(v, f, l)) => Follows(value)
            /\ \A f \in {"projections", "groupBy", "orderBy"} :
                 Became(Independent!Replace(v, f, l)) => Follows(value)
<1> DEFINE v == ContentIn(heap, value)
<1>1. v.kind = "select"
  BY DEF ContentIn
<1> HIDE DEF v
<1>2. Independent!Successors(v) = Independent!Selects(v)
  BY <1>1, SuccessorsOf
<1>3. \A f \in {"predicates", "having"} : Independent!Extend(v, f, l) \in Independent!Selects(v)
  BY DEF Independent!Selects, Independent!Extended
<1>4. \A f \in {"projections", "groupBy", "orderBy"} :
        Independent!Replace(v, f, l) \in Independent!Selects(v)
  BY DEF Independent!Selects, Independent!Replaced
<1> QED
  BY <1>2, <1>3, <1>4 DEF Follows, v

LEMMA InsertSuccessors ==
  ASSUME NEW value, value.kind = "insert", NEW l \in Lists
  PROVE  LET v == ContentIn(heap, value)
         IN /\ \A f \in {"duplicate", "returning"} :
                 Became(Independent!Replace(v, f, l)) => Follows(value)
            /\ Became(Independent!Extend(v, "rows", <<Independent!Item("row", "", l)>>))
                 => Follows(value)
            /\ Became(Independent!As(Independent!Replace(v, "columns", l), "conflict"))
                 => Follows(value)
<1> DEFINE v == ContentIn(heap, value)
<1>1. v.kind = "insert"
  BY DEF ContentIn
<1> HIDE DEF v
<1>2. Independent!Successors(v) = Independent!Inserts(v)
  BY <1>1, SuccessorsOf
<1>3. \A f \in {"duplicate", "returning"} :
        Independent!Replace(v, f, l) \in Independent!Inserts(v)
  <2>1. \A f \in {"duplicate", "returning"} :
          Independent!Replace(v, f, l) \in Independent!Replaced(v, {"duplicate", "returning"})
    BY DEF Independent!Replaced
  <2> QED
    BY <2>1 DEF Independent!Inserts
<1>4. Independent!Extend(v, "rows", <<Independent!Item("row", "", l)>>)
        \in Independent!Inserts(v)
  BY DEF Independent!Inserts
<1>5. Independent!As(Independent!Replace(v, "columns", l), "conflict")
        \in Independent!Inserts(v)
  <2>1. Independent!Replace(v, "columns", l) \in Independent!Replaced(v, {"columns"})
    BY DEF Independent!Replaced
  <2> QED
    BY <2>1 DEF Independent!Inserts
<1> QED
  BY <1>2, <1>3, <1>4, <1>5 DEF Follows, v

LEMMA UpdateSuccessors ==
  ASSUME NEW value, value.kind = "update", NEW l \in Lists
  PROVE  LET v == ContentIn(heap, value)
         IN /\ \A f \in {"assignments", "predicates"} :
                 Became(Independent!Extend(v, f, l)) => Follows(value)
            /\ Became(Independent!Replace(v, "returning", l)) => Follows(value)
<1> DEFINE v == ContentIn(heap, value)
<1>1. v.kind = "update"
  BY DEF ContentIn
<1> HIDE DEF v
<1>2. Independent!Successors(v) = Independent!Updates(v)
  BY <1>1, SuccessorsOf
<1>3. \A f \in {"assignments", "predicates"} :
        Independent!Extend(v, f, l) \in Independent!Updates(v)
  BY DEF Independent!Updates, Independent!Extended
<1>4. Independent!Replace(v, "returning", l) \in Independent!Updates(v)
  BY DEF Independent!Updates, Independent!Replaced
<1> QED
  BY <1>2, <1>3, <1>4 DEF Follows, v
-----------------------------------------------------------------------------
LEMMA OneLook ==
  ASSUME NEW h, NEW cell
  PROVE  Look(h, <<cell>>) = <<SeenDeepIn(h, cell)>>
BY DEF Look

\* A cell without a list of its own.
LEMMA BareSeen ==
  ASSUME NEW h, NEW tag, NEW name
  PROVE  SeenDeepIn(h, Cell(tag, name, NilSlice)) = Independent!Item(tag, name, <<>>)
<1> DEFINE cell == Cell(tag, name, NilSlice)
<1>1. cell.slice.length = 0 /\ cell.tag = tag /\ cell.name = name
  BY DEF Cell, NilSlice, Slice
<1> HIDE DEF cell
<1>2. [i \in 1 .. cell.slice.length |-> SeenIn(h, h[cell.slice.array][i])] = <<>>
  BY <1>1
<1>3. SeenDeepIn(h, cell) = Independent!Item(tag, name, <<>>)
  BY <1>1, <1>2 DEF SeenDeepIn, Independent!Item
<1> QED
  BY <1>3 DEF cell

LEMMA NilSeen ==
  ASSUME NEW h
  PROVE  ContentsIn(h, NilSlice) = <<>>
<1>1. NilSlice.length = 0
  BY DEF NilSlice, Slice
<1> QED
  BY <1>1 DEF ContentsIn

\* The parts of a value can be replaced in any order.
LEMMA KindApart ==
  ASSUME NEW h, NEW value, NEW kind, NEW f \in Fields, NEW l
  PROVE  Independent!As(Independent!Replace(ContentIn(h, value), f, l), kind) =
           Independent!Replace(Independent!As(ContentIn(h, value), kind), f, l)
<1> DEFINE v == ContentIn(h, value)
           fields == [x \in Fields |-> ContentsIn(h, value.slices[x])]
<1>1. v = [kind |-> value.kind, fields |-> fields]
  BY DEF ContentIn
<1> HIDE DEF v, fields
<1> DEFINE first == [v EXCEPT !.fields[f] = l]
           second == [v EXCEPT !.kind = kind]
           put == [fields EXCEPT ![f] = l]
<1>2. first = [kind |-> value.kind, fields |-> put]
      /\ second = [kind |-> kind, fields |-> fields]
  BY <1>1
<1>3. put = [fields EXCEPT ![f] = l]
  OBVIOUS
<1> HIDE DEF first, second, put
<1>4. /\ [first EXCEPT !.kind = kind] = [kind |-> kind, fields |-> put]
      /\ [second EXCEPT !.fields[f] = l] = [kind |-> kind, fields |-> put]
  BY <1>2, <1>3
<1> QED
  BY <1>4 DEF Independent!As, Independent!Replace, v, first, second

LEMMA FieldsApart ==
  ASSUME NEW h, NEW value, NEW f \in Fields, NEW g \in Fields, f # g, NEW l, NEW m
  PROVE  Independent!Replace(Independent!Replace(ContentIn(h, value), f, l), g, m) =
           Independent!Replace(Independent!Replace(ContentIn(h, value), g, m), f, l)
<1> DEFINE v == ContentIn(h, value)
           fields == [x \in Fields |-> ContentsIn(h, value.slices[x])]
           kind == value.kind
<1>1. v = [kind |-> kind, fields |-> fields]
  BY DEF ContentIn
<1>2. DOMAIN fields = Fields
  OBVIOUS
<1> HIDE DEF v, fields, kind
<1> DEFINE first == [v EXCEPT !.fields[f] = l]
           second == [v EXCEPT !.fields[g] = m]
           put == [fields EXCEPT ![f] = l]
           set == [fields EXCEPT ![g] = m]
<1>3. first = [kind |-> kind, fields |-> put] /\ second = [kind |-> kind, fields |-> set]
  BY <1>1
<1>4. [put EXCEPT ![g] = m] = [set EXCEPT ![f] = l]
  BY <1>2
<1> HIDE DEF first, second, put, set
<1>5. /\ [first EXCEPT !.fields[g] = m] = [kind |-> kind, fields |-> [put EXCEPT ![g] = m]]
      /\ [second EXCEPT !.fields[f] = l] = [kind |-> kind, fields |-> [set EXCEPT ![f] = l]]
  BY <1>3
<1> QED
  BY <1>4, <1>5 DEF Independent!Replace, v, first, second
-----------------------------------------------------------------------------
LEMMA LimitFollows ==
  ASSUME HeapInv, NEW value, ValueOK(heap, value), NEW count \in Names, Limit(value, count)
  PROVE  Follows(value)
<1> DEFINE v     == ContentIn(heap, value)
           cells == <<Leaf(count)>>
           made  == Made(heap, cells)
           leaf  == Independent!Leaf(count)
<1>1. "limit" \in Fields /\ HeapOK(heap)
  BY DEF Fields, HeapInv
<1>2. Items(heap, cells)
  BY NilIsHeld, OneItem DEF Leaf, Tags, Labels
<1>3. Look(heap, cells) = <<leaf>>
  BY OneLook, BareSeen DEF Leaf, Independent!Leaf
<1>4. With(value, "limit", made) /\ v.kind = "select"
  BY DEF Limit, ContentIn
<1> HIDE DEF cells
<1>5. Allocated(heap, made) /\ Shows(made.heap, made.slice, cells)
  BY <1>1, <1>2, MadeAllocates
<1> HIDE DEF made, v, leaf
<1>6. Became(Independent!Replace(v, "limit", <<leaf>>))
  BY <1>1, <1>2, <1>3, <1>4, <1>5, ReplacedBecomes DEF v
<1>7. Independent!Replace(v, "limit", <<leaf>>) \in Independent!Selects(v)
  BY DEF Independent!Selects, leaf
<1>8. Independent!Selects(v) = Independent!Successors(v)
  BY <1>4, SuccessorsOf
<1> QED
  BY <1>6, <1>7, <1>8 DEF Follows, v

LEMMA StartQueryFollows ==
  ASSUME HeapInv, NEW value, ValueOK(heap, value), StartQuery(value)
  PROVE  Follows(value)
<1> DEFINE v == ContentIn(heap, value)
<1>1. "select" \in Kinds /\ v.kind = "joined"
  BY DEF Kinds, StartQuery, ContentIn
<1>2. family' = Append(family, OfKind(value, "select")) /\ heap' = heap
  BY DEF StartQuery, Returned, OfKind
<1>3. ContentIn(heap, OfKind(value, "select")) = Independent!As(v, "select")
  BY <1>1, KindSeen
<1> HIDE DEF v
<1>4. Became(Independent!As(v, "select"))
  BY <1>2, <1>3 DEF Became
<1>5. Independent!As(v, "select") \in Independent!Successors(v)
  BY <1>1, SuccessorsOf
<1> QED
  BY <1>4, <1>5 DEF Follows, v

LEMMA JoinFollows ==
  ASSUME HeapInv, NEW value, ValueOK(heap, value), NEW kind \in {"inner", "cross"},
         Join(value, kind)
  PROVE  Follows(value)
<1> DEFINE v      == ContentIn(heap, value)
           table  == <<Leaf(kind)>>
           join   == <<Cell("join", kind, NilSlice)>>
           tables == AppendCopy(heap, value.slices["tables"], table)
           first  == WithSlice(value, "tables", tables.slice)
           new    == Independent!Extend(
                       Independent!Extend(v, "tables", <<Independent!Leaf(kind)>>),
                       "joins", <<Independent!Item("join", kind, <<>>)>>)
<1>1. "tables" \in Fields /\ "joins" \in Fields /\ HeapOK(heap) /\ v.kind = "joined"
  BY DEF Fields, HeapInv, Join, ContentIn
<1>2. Items(heap, table)
  BY NilIsHeld, OneItem DEF Leaf, Tags, Labels
<1>3. Look(heap, table) = <<Independent!Leaf(kind)>>
  BY OneLook, BareSeen DEF Leaf, Independent!Leaf
<1>4. \A h : Look(h, join) = <<Independent!Item("join", kind, <<>>)>> /\ Items(h, join)
  <2> SUFFICES ASSUME NEW h
               PROVE  Look(h, join) = <<Independent!Item("join", kind, <<>>)>> /\ Items(h, join)
    OBVIOUS
  <2>1. Look(h, join) = <<Independent!Item("join", kind, <<>>)>>
    BY OneLook, BareSeen
  <2>2. Items(h, join)
    BY NilIsHeld, OneItem DEF Tags, Labels
  <2> QED
    BY <2>1, <2>2
<1>5. first.slices["joins"] = value.slices["joins"]
  BY <1>1 DEF WithSlice, ValueOK, ValueType
<1>6. With(first, "joins", AppendCopy(tables.heap, first.slices["joins"], join))
  BY <1>5 DEF Join, WithSlice
<1> HIDE DEF table, join
<1>7. Allocated(heap, tables)
  BY <1>1, <1>2, ListsAreItems, AppendCopyAllocates
<1>8. ContentIn(tables.heap, first) =
        Independent!Extend(v, "tables", <<Independent!Leaf(kind)>>)
  BY <1>1, <1>2, <1>3, ExtendedSeen
<1> HIDE DEF tables
<1>9. HeapOK(tables.heap) /\ Grown(heap, tables.heap) /\ tables.slice \in SliceType
      /\ Held(tables.heap, tables.slice)
  BY <1>7 DEF Allocated
<1>10. ValueOK(tables.heap, first)
  BY <1>1, <1>9, ValueGrown, SliceReplaced
<1> HIDE DEF first, v
<1>11. Became(new)
  BY <1>1, <1>4, <1>6, <1>8, <1>9, <1>10, ExtendedBecomes
<1>12. new \in Independent!Joins(v)
  BY DEF Independent!Joins
<1>13. Independent!Joins(v) \subseteq Independent!Successors(v)
  BY <1>1, SuccessorsOf
<1> QED
  BY <1>11, <1>12, <1>13 DEF Follows, v

LEMMA ValuesFollows ==
  ASSUME HeapInv, NEW value, ValueOK(heap, value), NEW list,
         Argument(heap, Cells(heap, list)), Values(value, list)
  PROVE  Follows(value)
<1> DEFINE v     == ContentIn(heap, value)
           cells == Cells(heap, list)
           row   == AppendCopy(heap, NilSlice, cells)
           cell  == Cell("row", "", row.slice)
           seen  == Independent!Item("row", "", Look(heap, cells))
<1>1. "rows" \in Fields /\ HeapOK(heap) /\ value.kind = "insert"
  BY DEF Fields, HeapInv, Values
<1>2. Items(heap, cells) /\ cells \in Seq(CellType) /\ Look(heap, cells) \in Lists
  BY ArgumentSeen DEF Argument, Items
<1>3. With(value, "rows", AppendCopy(row.heap, value.slices["rows"], <<cell>>))
  BY DEF Values
<1>4. Cells(heap, NilSlice) \o cells = cells
  <2>1. Cells(heap, NilSlice) = <<>>
    BY DEF Cells, NilSlice, Slice
  <2> HIDE DEF cells
  <2> QED
    BY <1>2, <2>1
<1>5. Argument(heap, cells)
  OBVIOUS
<1> HIDE DEF cells
<1>6. Allocated(heap, row) /\ Shows(row.heap, row.slice, cells)
  BY <1>1, <1>2, <1>4, NilIsHeld, AppendCopyAllocates
<1> HIDE DEF row
<1>7. HeapOK(row.heap) /\ Grown(heap, row.heap) /\ row.slice \in SliceType
      /\ Held(row.heap, row.slice) /\ Same(heap, row.heap)
  BY <1>1, <1>6, GrownSame DEF Allocated
<1>8. Items(row.heap, <<cell>>)
  BY <1>7, OneItem DEF Tags, Labels
<1>9. SeenDeepIn(row.heap, cell) = seen
  <2>1. cell.slice = row.slice /\ cell.tag = "row" /\ cell.name = ""
    BY DEF Cell
  <2> HIDE DEF cell
  <2>2. Shows(row.heap, cell.slice, cells)
    BY <1>6, <2>1
  <2>3. SeenDeepIn(row.heap, cell) =
          [tag |-> cell.tag, name |-> cell.name, items |-> Look(heap, cells)]
    BY <1>1, <1>5, <1>7, <2>2, ArgumentItems
  <2> QED
    BY <2>1, <2>3 DEF Independent!Item
<1>10. ValueOK(row.heap, value) /\ ContentIn(row.heap, value) = v
  BY <1>1, <1>7, ValueGrown, ContentStays
<1> HIDE DEF cell, seen, v
<1>11. Look(row.heap, <<cell>>) = <<seen>>
  BY <1>9, OneLook
<1>12. Became(Independent!Extend(v, "rows", <<seen>>))
  BY <1>1, <1>3, <1>7, <1>8, <1>10, <1>11, ExtendedBecomes
<1> QED
  BY <1>1, <1>2, <1>12, InsertSuccessors DEF v, seen

LEMMA OnConflictFollows ==
  ASSUME HeapInv, NEW value, ValueOK(heap, value), NEW list,
         Argument(heap, Cells(heap, list)), OnConflict(value, list)
  PROVE  Follows(value)
<1> DEFINE v == ContentIn(heap, value)
<1>1. "columns" \in Fields /\ "conflict" \in Kinds /\ value.kind = "insert"
  BY DEF Fields, Kinds, OnConflict
<1>2. ValueOK(heap, OfKind(value, "conflict"))
  BY <1>1, KindReplaced
<1>3. With(OfKind(value, "conflict"), "columns", Copied(heap, Cells(heap, list)))
  BY DEF OnConflict, OfKind
<1>4. PICK l \in Lists :
        Became(Independent!Replace(ContentIn(heap, OfKind(value, "conflict")), "columns", l))
  BY <1>1, <1>2, <1>3, CopyFollows
<1>5. ContentIn(heap, OfKind(value, "conflict")) = Independent!As(v, "conflict")
  BY <1>1, KindSeen
<1>6. Independent!As(Independent!Replace(v, "columns", l), "conflict") =
        Independent!Replace(Independent!As(v, "conflict"), "columns", l)
  BY <1>1, KindApart
<1> QED
  BY <1>1, <1>4, <1>5, <1>6, InsertSuccessors

\* The receiver of a conflict method, as the INSERT it came from.
Inserting(v) == Independent!Replace(Independent!As(v, "insert"), "columns", <<>>)

LEMMA BackSeen ==
  ASSUME NEW h, HeapOK(h), NEW value, ValueOK(h, value)
  PROVE  ContentIn(h, Back(value)) = Inserting(ContentIn(h, value))
<1>1. "columns" \in Fields /\ "insert" \in Kinds
  BY DEF Fields, Kinds
<1>2. Grown(h, h)
  <2>1. Len(h) \in Nat
    BY LenProperties DEF HeapOK
  <2> QED
    BY <2>1 DEF Grown
<1>3. ValueOK(h, OfKind(value, "insert"))
  BY <1>1, KindReplaced
<1>4. ContentIn(h, Back(value)) =
        Independent!Replace(ContentIn(h, OfKind(value, "insert")), "columns",
                            ContentsIn(h, NilSlice))
  BY <1>1, <1>2, <1>3, NilIsHeld, SliceSeen DEF Back
<1> QED
  BY <1>1, <1>4, KindSeen, NilSeen DEF Inserting

LEMMA ConflictSuccessors ==
  ASSUME NEW value, value.kind = "conflict", NEW l \in Lists \union {<<>>}
  PROVE  LET v      == ContentIn(heap, value)
             target == Independent!Replace(Inserting(v), "target", v.fields["columns"])
         IN Became(Independent!Replace(target, "assignments", l)) => Follows(value)
<1> DEFINE v      == ContentIn(heap, value)
           target == Independent!Replace(Inserting(v), "target", v.fields["columns"])
           new    == Independent!Replace(target, "assignments", l)
<1>1. v.kind = "conflict"
  BY DEF ContentIn
<1> HIDE DEF v
<1>2. Independent!Successors(v) = Independent!Conflicts(v)
  BY <1>1, SuccessorsOf
<1>3. Independent!Conflicts(v) =
        Independent!Replaced(target, {"assignments"})
          \union {Independent!Replace(target, "assignments", <<>>)}
  BY DEF Independent!Conflicts, Inserting
<1> HIDE DEF target
<1>4. l \in Lists => new \in Independent!Replaced(target, {"assignments"})
  BY DEF Independent!Replaced
<1>5. new \in Independent!Conflicts(v)
  BY <1>3, <1>4
<1> QED
  BY <1>2, <1>5 DEF Follows, v, target

LEMMA DoUpdateFollows ==
  ASSUME HeapInv, NEW value, ValueOK(heap, value), NEW list,
         Argument(heap, Cells(heap, list)), DoUpdate(value, list)
  PROVE  Follows(value)
<1> DEFINE v       == ContentIn(heap, value)
           columns == Cells(heap, value.slices["columns"])
           cells   == Cells(heap, list)
           made    == Made(heap, columns)
           new     == WithSlice(Back(value), "target", made.slice)
           after   == Made(made.heap, cells)
           target  == Independent!Replace(Inserting(v), "target", v.fields["columns"])
<1>1. "target" \in Fields /\ "columns" \in Fields /\ "assignments" \in Fields /\ HeapOK(heap)
      /\ value.kind = "conflict"
  BY DEF Fields, HeapInv, DoUpdate
<1>2. With(new, "assignments", after)
  <2>1. new = [value EXCEPT !.kind = "insert", !.slices["columns"] = NilSlice,
                            !.slices["target"] = made.slice]
    BY DEF Back, WithSlice, OfKind, ValueOK, ValueType
  <2> QED
    BY <2>1 DEF DoUpdate
<1>3. Items(heap, columns) /\ Look(heap, columns) = v.fields["columns"]
  <2>1. value.slices["columns"] \in SliceType /\ Held(heap, value.slices["columns"])
    BY <1>1 DEF ValueOK, ValueType
  <2>2. v.fields["columns"] = ContentsIn(heap, value.slices["columns"])
    BY <1>1 DEF ContentIn
  <2> HIDE DEF v
  <2> QED
    BY <1>1, <2>1, <2>2, HeldContents
<1>4. Items(heap, cells) /\ Look(heap, cells) \in Lists
  BY ArgumentSeen DEF Argument
<1>5. ValueOK(heap, Back(value)) /\ ContentIn(heap, Back(value)) = Inserting(v)
  BY <1>1, BackIsOK, BackSeen
<1> HIDE DEF columns, cells, v
<1>6. Allocated(heap, made) /\ Shows(made.heap, made.slice, columns)
  BY <1>1, <1>3, MadeAllocates
<1> HIDE DEF made
<1>7. ContentIn(made.heap, new) = target
  BY <1>1, <1>3, <1>5, <1>6, ReplacedSeen
<1>8. HeapOK(made.heap) /\ Grown(heap, made.heap) /\ made.slice \in SliceType
      /\ Held(made.heap, made.slice)
  BY <1>6 DEF Allocated
<1>9. ValueOK(made.heap, new)
  BY <1>1, <1>5, <1>8, ValueGrown, SliceReplaced
<1>10. Items(made.heap, cells) /\ Look(made.heap, cells) = Look(heap, cells)
  BY <1>1, <1>4, <1>8, ItemsGrown, GrownSame, LookStays
<1>11. Allocated(made.heap, after) /\ Shows(after.heap, after.slice, cells)
  BY <1>8, <1>10, MadeAllocates
<1> HIDE DEF new, after, target
<1>12. Became(Independent!Replace(target, "assignments", Look(heap, cells)))
  BY <1>1, <1>2, <1>7, <1>8, <1>9, <1>10, <1>11, ReplacedBecomes
<1> QED
  BY <1>1, <1>4, <1>12, ConflictSuccessors DEF target, v

LEMMA DoNothingFollows ==
  ASSUME HeapInv, NEW value, ValueOK(heap, value), DoNothing(value)
  PROVE  Follows(value)
<1> DEFINE v       == ContentIn(heap, value)
           columns == Cells(heap, value.slices["columns"])
           made    == Made(heap, columns)
           back    == Back(value)
           new     == WithSlice(back, "assignments", NilSlice)
           seen    == v.fields["columns"]
<1>1. "target" \in Fields /\ "columns" \in Fields /\ "assignments" \in Fields /\ HeapOK(heap)
      /\ value.kind = "conflict"
  BY DEF Fields, HeapInv, DoNothing
<1>2. With(new, "target", made)
  <2>1. new = [value EXCEPT !.kind = "insert", !.slices["columns"] = NilSlice,
                            !.slices["assignments"] = NilSlice]
    BY DEF Back, WithSlice, OfKind, ValueOK, ValueType
  <2> QED
    BY <2>1 DEF DoNothing
<1>3. Items(heap, columns) /\ Look(heap, columns) = seen
  <2>1. value.slices["columns"] \in SliceType /\ Held(heap, value.slices["columns"])
    BY <1>1 DEF ValueOK, ValueType
  <2>2. seen = ContentsIn(heap, value.slices["columns"])
    BY <1>1 DEF ContentIn
  <2> HIDE DEF seen
  <2> QED
    BY <1>1, <2>1, <2>2, HeldContents
<1>4. Allocated(heap, made) /\ Shows(made.heap, made.slice, columns)
  BY <1>1, <1>3, MadeAllocates
<1>5. ValueOK(heap, back) /\ ContentIn(heap, back) = Inserting(v)
  BY <1>1, BackIsOK, BackSeen
<1>6. Grown(heap, heap)
  BY ListsAreItems
<1> HIDE DEF columns, v, made, back, seen
<1>7. ValueOK(heap, new)
  BY <1>1, <1>5, NilIsHeld, SliceReplaced
<1>8. ContentIn(heap, new) = Independent!Replace(Inserting(v), "assignments", <<>>)
  BY <1>1, <1>5, <1>6, NilIsHeld, NilSeen, SliceSeen
<1> HIDE DEF new
<1>9. Became(Independent!Replace(Independent!Replace(Inserting(v), "assignments", <<>>),
                                 "target", seen))
  BY <1>1, <1>2, <1>3, <1>4, <1>7, <1>8, ReplacedBecomes
<1>10. Independent!Replace(Independent!Replace(Inserting(v), "assignments", <<>>),
                           "target", seen) =
         Independent!Replace(Independent!Replace(Inserting(v), "target", seen),
                             "assignments", <<>>)
  BY <1>1, <1>5, FieldsApart
<1> QED
  BY <1>1, <1>9, <1>10, ConflictSuccessors DEF seen, v

\* ON replaces the conditions of the last join.
LEMMA OnFollows ==
  ASSUME HeapInv, NEW value, ValueOK(heap, value), NEW list, Passed(heap, list),
         Argument(heap, Cells(heap, list)), On(value, list)
  PROVE  Follows(value)
<1> DEFINE v     == ContentIn(heap, value)
           slice == value.slices["joins"]
           last  == slice.length
           old   == Cells(heap, slice)
           cells == Cells(heap, list)
           items == Look(heap, cells)
           seen  == v.fields["joins"]
<1>1. "joins" \in Fields /\ last > 0 /\ last \in Nat /\ HeapOK(heap) /\ value.kind = "joined"
  BY ListsAreItems DEF On, Fields, SliceType
<1>2. Items(heap, old) /\ Len(old) = last /\ items \in Lists
  BY <1>1, ListsAreItems, ArgumentSeen
<1>3. seen = Look(heap, old)
  <2>1. slice \in SliceType /\ Held(heap, slice)
    BY <1>1 DEF ValueOK, ValueType
  <2>2. seen = ContentsIn(heap, slice)
    BY <1>1 DEF ContentIn
  <2> HIDE DEF seen
  <2> QED
    BY <1>1, <2>1, <2>2, HeldContents
<1>4. PICK h, s, cell : OnWrote(value, cells, h, s, cell)
  BY OnWrites
<1>5. /\ HeapOK(h) /\ Grown(heap, h) /\ s \in SliceType /\ s.length = last
      /\ Returned(WithSlice(value, "joins", s), h)
      /\ \A i \in 1 .. last : h[s.array][i] = IF i = last THEN cell ELSE old[i]
      /\ cell.tag = old[last].tag /\ cell.name = old[last].name
      /\ Shows(h, cell.slice, cells)
  BY <1>4 DEF OnWrote
<1>6. Argument(heap, cells) /\ Same(heap, h)
  BY <1>1, <1>5, GrownSame
<1>7. v.kind = "joined"
  BY <1>1 DEF ContentIn
<1>8. ContentIn(h, WithSlice(value, "joins", s)) =
        Independent!Replace(v, "joins", ContentsIn(h, s))
  BY <1>1, <1>5, SliceSeen
<1> HIDE DEF old, cells, items, seen
<1>9. SeenDeepIn(h, cell) = [tag |-> cell.tag, name |-> cell.name, items |-> items]
  BY <1>1, <1>5, <1>6, ArgumentItems DEF items
<1> DEFINE deep(i) == SeenDeepIn(heap, old[i])
<1>10. \A i \in 1 .. last : SeenDeepIn(h, old[i]) = deep(i)
  BY <1>1, <1>2, <1>6, SeenDeepStays DEF Items
<1>11. SeenDeepIn(h, cell) = [deep(last) EXCEPT !.items = items]
  <2>1. deep(last).tag = cell.tag /\ deep(last).name = cell.name
    BY <1>5 DEF SeenDeepIn
  <2>2. deep(last) = [tag |-> cell.tag, name |-> cell.name, items |-> deep(last).items]
    BY <1>5 DEF SeenDeepIn
  <2> HIDE DEF deep
  <2> QED
    BY <1>9, <2>2
<1>12. seen = [i \in 1 .. last |-> deep(i)]
  BY <1>2, <1>3 DEF Look
<1> HIDE DEF deep
<1>13. ContentsIn(h, s) = [i \in 1 .. last |-> SeenDeepIn(h, h[s.array][i])]
  BY <1>5 DEF ContentsIn
<1>14. [i \in 1 .. last |-> SeenDeepIn(h, h[s.array][i])] =
         [i \in 1 .. last |-> IF i = last THEN [deep(last) EXCEPT !.items = items]
                                          ELSE deep(i)]
  <2>1. \A i \in 1 .. last : SeenDeepIn(h, h[s.array][i]) =
          IF i = last THEN [deep(last) EXCEPT !.items = items] ELSE deep(i)
    BY <1>5, <1>10, <1>11
  <2> QED
    BY <2>1
<1>15. [seen EXCEPT ![last].items = items] =
         [i \in 1 .. last |-> IF i = last THEN [deep(last) EXCEPT !.items = items]
                                          ELSE deep(i)]
  <2>1. seen[last] = deep(last) /\ DOMAIN seen = 1 .. last
    BY <1>1, <1>12
  <2>2. [seen EXCEPT ![last].items = items] =
          [i \in 1 .. last |-> IF i = last THEN [seen[last] EXCEPT !.items = items]
                                           ELSE seen[i]]
    BY <2>1
  <2>3. \A i \in 1 .. last : seen[i] = deep(i)
    BY <1>12
  <2> QED
    BY <2>1, <2>2, <2>3
<1>16. Len(seen) = last /\ seen # <<>>
  <2>1. Len(seen) = last
    BY <1>2, <1>3, LookIsSeq DEF Items
  <2>2. Len(<<>>) = 0
    OBVIOUS
  <2> QED
    BY <1>1, <2>1, <2>2
<1> HIDE DEF v, last
<1> DEFINE new == [v EXCEPT !.fields["joins"][Len(v.fields["joins"])].items = items]
<1>17. new = Independent!Replace(v, "joins", ContentsIn(h, s))
  <2>1. new = [v EXCEPT !.fields["joins"] = [seen EXCEPT ![last].items = items]]
    BY <1>16 DEF seen
  <2>2. ContentsIn(h, s) = [seen EXCEPT ![last].items = items]
    BY <1>13, <1>14, <1>15
  <2> QED
    BY <2>1, <2>2 DEF Independent!Replace
<1>18. Became(new)
  BY <1>5, <1>8, <1>17 DEF Became, Returned
<1>19. new \in Independent!Ons(v)
  BY <1>2, <1>16 DEF Independent!Ons, seen
<1>20. Independent!Ons(v) \subseteq Independent!Successors(v)
  BY <1>7, SuccessorsOf
<1> HIDE DEF new
<1> QED
  BY SMTT(30), <1>18, <1>19, <1>20 DEF Follows, v
-----------------------------------------------------------------------------
LEMMA CallFollows ==
  ASSUME HeapInv, NEW value, ValueOK(heap, value), NEW list, Passed(heap, list),
         Argument(heap, Cells(heap, list)), Call(value, list)
  PROVE  Follows(value)
<1>1. Fields = {"tables", "joins", "predicates", "projections", "groupBy", "having",
                "orderBy", "limit", "rows", "columns", "target", "assignments",
                "duplicate", "returning"}
  BY DEF Fields
<1>2. CASE On(value, list)
  BY <1>2, OnFollows
<1>3. CASE Where(value, list)
  <2>1. "predicates" \in Fields /\ value.kind \in {"select", "update"}
        /\ Extend(value, "predicates", list)
    BY <1>1, <1>3 DEF Where
  <2>2. PICK l \in Lists :
          Became(Independent!Extend(ContentIn(heap, value), "predicates", l))
    BY <2>1, ExtendFollows
  <2>3. value.kind = "select" => Follows(value)
    BY <2>2, SelectSuccessors
  <2>4. value.kind = "update" => Follows(value)
    BY <2>2, UpdateSuccessors
  <2> QED
    BY <2>1, <2>3, <2>4
<1>4. CASE Having(value, list)
  BY <1>1, <1>4, ExtendFollows, SelectSuccessors DEF Having
<1>5. CASE Set(value, list)
  BY <1>1, <1>5, ExtendFollows, UpdateSuccessors DEF Set
<1>6. CASE Select(value, list)
  BY <1>1, <1>6, ReplaceFollows, SelectSuccessors DEF Select
<1>7. CASE GroupBy(value, list)
  BY <1>1, <1>7, ReplaceFollows, SelectSuccessors DEF GroupBy
<1>8. CASE OrderBy(value, list)
  BY <1>1, <1>8, CopyFollows, SelectSuccessors DEF OrderBy
<1>9. CASE Returning(value, list)
  <2>1. "returning" \in Fields /\ value.kind \in {"insert", "update"}
        /\ Replace(value, "returning", list)
    BY <1>1, <1>9 DEF Returning
  <2>2. PICK l \in Lists :
          Became(Independent!Replace(ContentIn(heap, value), "returning", l))
    BY <2>1, ReplaceFollows
  <2>3. value.kind = "insert" => Follows(value)
    BY <2>2, InsertSuccessors
  <2>4. value.kind = "update" => Follows(value)
    BY <2>2, UpdateSuccessors
  <2> QED
    BY <2>1, <2>3, <2>4
<1>10. CASE Values(value, list)
  BY <1>10, ValuesFollows
<1>11. CASE OnDuplicateKey(value, list)
  BY <1>1, <1>11, ReplaceFollows, InsertSuccessors DEF OnDuplicateKey
<1>12. CASE OnConflict(value, list)
  BY <1>12, OnConflictFollows
<1>13. CASE DoUpdate(value, list)
  BY <1>13, DoUpdateFollows
<1> QED
  BY <1>2, <1>3, <1>4, <1>5, <1>6, <1>7, <1>8, <1>9, <1>10, <1>11, <1>12, <1>13 DEF Call

\* Whatever prefix of its slice the caller passes is an argument.
LEMMA MineIsArgument ==
  ASSUME HeapInv, MineInv, NEW length \in 0 .. Width
  PROVE  Argument(heap, Cells(heap, Slice(1, length)))
<1> DEFINE s     == Slice(1, length)
           cells == Cells(heap, s)
<1>1. s.array = 1 /\ s.length = length /\ Passed(heap, s) /\ HeapOK(heap)
  BY MineIsPassed DEF Slice, HeapInv
<1> HIDE DEF s
<1>2. Items(heap, cells) /\ Len(cells) = length /\ Shows(heap, s, cells)
  BY <1>1, CellsAreItems, CellsShown
<1> HIDE DEF cells
<1>3. \A i \in 1 .. length : cells[i] = heap[1][i] /\ i \in 1 .. Width
  BY <1>1, <1>2, HeapAssumption DEF Shows
<1>4. \A i \in 1 .. length : Simple(heap, cells[i])
  BY <1>3 DEF MineInv
<1>5. Argument(heap, cells)
  BY <1>2, <1>4 DEF Argument
<1> QED
  BY <1>5 DEF cells, s

LEMMA DeriveFollows ==
  ASSUME HeapInv, MineInv, Derive
  PROVE  \E i \in DOMAIN family : Follows(family[i])
<1>1. PICK i \in DOMAIN family :
        \/ \E kind \in {"inner", "cross"} : Join(family[i], kind)
        \/ \E length \in 0 .. Width : Call(family[i], Slice(1, length))
        \/ \E count \in Names : Limit(family[i], count)
        \/ StartQuery(family[i])
        \/ DoNothing(family[i])
  BY DEF Derive
<1> DEFINE value == family[i]
<1>2. ValueOK(heap, value)
  BY LenProperties DEF HeapInv
<1> SUFFICES Follows(value)
  OBVIOUS
<1> HIDE DEF value
<1>3. CASE \E kind \in {"inner", "cross"} : Join(value, kind)
  BY <1>2, <1>3, JoinFollows
<1>4. CASE \E length \in 0 .. Width : Call(value, Slice(1, length))
  <2>1. PICK length \in 0 .. Width : Call(value, Slice(1, length))
    BY <1>4
  <2>2. Passed(heap, Slice(1, length)) /\ Argument(heap, Cells(heap, Slice(1, length)))
    BY MineIsPassed, MineIsArgument
  <2> QED
    BY <1>2, <2>1, <2>2, CallFollows
<1>5. CASE \E count \in Names : Limit(value, count)
  BY <1>2, <1>5, LimitFollows
<1>6. CASE StartQuery(value)
  BY <1>2, <1>6, StartQueryFollows
<1>7. CASE DoNothing(value)
  BY <1>2, <1>7, DoNothingFollows
<1> QED
  BY <1>1, <1>3, <1>4, <1>5, <1>6, <1>7 DEF value
-----------------------------------------------------------------------------
\* The caller's slice stays a list that can be passed.
LEMMA SimpleStays ==
  ASSUME NEW h, HeapOK(h), NEW k, Same(h, k), Len(k) \in Nat, Len(k) >= Len(h),
         NEW cell, Simple(h, cell)
  PROVE  Simple(k, cell)
<1>1. CASE cell \in LeafCells
  BY <1>1 DEF Simple
<1>2. CASE cell \notin LeafCells
  <2> DEFINE s == cell.slice
  <2>1. /\ cell.tag = "logical" /\ cell.name = "AND" /\ s.length = Width
        /\ Held(h, s) /\ \A j \in 1 .. Width : h[s.array][j] \in LeafCells
    BY <1>2 DEF Simple
  <2>2. \A j \in 1 .. s.length : k[s.array][j] = h[s.array][j]
    BY <2>1, HeldCells
  <2>3. Held(k, s)
    <3>1. Len(h) \in Nat
      BY LenProperties DEF HeapOK
    <3> QED
      BY <2>1, <3>1 DEF Held, Same
  <2> QED
    BY <2>1, <2>2, <2>3 DEF Simple
<1> QED
  BY <1>1, <1>2

LEMMA MineWritten ==
  ASSUME HeapInv, NEW g, HeapOK(g), Grown(heap, g), NEW i \in 1 .. Width,
         NEW cell \in CellType, heap' = Written(g, 1, [g[1] EXCEPT ![i] = cell])
  PROVE  /\ \A j \in 1 .. Width : heap'[1][j] = IF j = i THEN cell ELSE heap[1][j]
         /\ Len(heap') = Len(g) /\ Len(g) \in Nat /\ Len(g) >= Len(heap) /\ Same(g, heap')
         /\ Same(heap, heap')
<1> DEFINE mineNow == [g[1] EXCEPT ![i] = cell]
<1>1. Len(heap) \in Nat /\ Len(g) \in Nat /\ Len(heap) >= 1 /\ Len(g) >= Len(heap)
      /\ g \in Seq(Seq(CellType)) /\ Len(heap[1]) = Width
  BY LenProperties DEF HeapInv, HeapOK, Grown
<1>2. g[1] = heap[1] /\ g[1] \in Seq(CellType) /\ Len(g[1]) = Width
  BY <1>1 DEF Grown, HeapOK, Items
<1>3. /\ mineNow \in Seq(CellType)
      /\ \A j \in 1 .. Width : mineNow[j] = IF j = i THEN cell ELSE g[1][j]
  BY <1>2, ExceptSeq
<1>4. 1 \in 1 .. Len(g)
  BY <1>1
<1> HIDE DEF mineNow
<1>5. /\ Len(heap') = Len(g)
      /\ \A a \in 1 .. Len(g) : heap'[a] = IF a = 1 THEN mineNow ELSE g[a]
  BY <1>1, <1>3, <1>4, ExceptSeq DEF Written, mineNow
<1>6. \A a \in 2 .. Len(g) : a \in 1 .. Len(g) /\ a # 1
  BY <1>1
<1>7. Same(g, heap')
  BY <1>5, <1>6 DEF Same
<1>8. \A a \in 2 .. Len(heap) : a \in 2 .. Len(g) /\ a \in 1 .. Len(heap)
  BY <1>1
<1>9. Same(heap, heap')
  BY <1>7, <1>8 DEF Same, Grown
<1> QED
  BY <1>1, <1>2, <1>3, <1>4, <1>5, <1>7, <1>9

LEMMA OverwriteMine ==
  ASSUME HeapInv, MineInv, NEW i \in 1 .. Width, NEW name \in Names, Overwrite(i, name)
  PROVE  MineInv'
<1>1. Leaf(name) \in CellType
  BY NilIsHeld DEF Leaf, Cell, CellType, Tags, Labels
<1>2. HeapOK(heap) /\ Grown(heap, heap)
  <2>1. Len(heap) \in Nat
    BY LenProperties DEF HeapInv, HeapOK
  <2> QED
    BY <2>1 DEF HeapInv, Grown
<1>3. heap' = Written(heap, 1, [heap[1] EXCEPT ![i] = Leaf(name)])
  BY DEF Overwrite, Written
<1>4. /\ \A j \in 1 .. Width : heap'[1][j] = IF j = i THEN Leaf(name) ELSE heap[1][j]
      /\ Len(heap') \in Nat /\ Len(heap') >= Len(heap) /\ Same(heap, heap')
  BY <1>1, <1>2, <1>3, MineWritten
<1>5. ASSUME NEW j \in 1 .. Width PROVE Simple(heap', heap'[1][j])
  <2>1. CASE j = i
    <3>1. heap'[1][j] = Leaf(name)
      BY <1>4, <2>1
    <3> QED
      BY <3>1 DEF Simple, LeafCells
  <2>2. CASE j # i
    <3>1. heap'[1][j] = heap[1][j] /\ Simple(heap, heap[1][j])
      BY <1>4, <2>2 DEF MineInv
    <3> QED
      BY <1>2, <1>4, <3>1, SimpleStays
  <2> QED
    BY <2>1, <2>2
<1> QED
  BY <1>5 DEF MineInv

LEMMA CombineMine ==
  ASSUME HeapInv, MineInv, NEW i \in 1 .. Width, Combine(i)
  PROVE  MineInv'
<1> DEFINE cells    == Cells(heap, mine)
           children == Copied(heap, cells)
           s        == children.slice
           cell     == Cell("logical", "AND", s)
           g        == children.heap
<1>1. mine.array = 1 /\ mine.length = Width /\ Passed(heap, mine) /\ HeapOK(heap)
  BY MineIsPassed, HeapAssumption DEF mine, Slice, HeapInv
<1>2. Items(heap, cells) /\ Len(cells) = Width /\ Shows(heap, mine, cells)
  BY <1>1, CellsAreItems, CellsShown
<1>3. heap' = Written(g, 1, [g[1] EXCEPT ![i] = cell])
      /\ \A j \in 1 .. Width : heap[1][j].tag = "leaf"
  BY DEF Combine, Written
<1> HIDE DEF cells
<1>4. \A j \in 1 .. Width : cells[j] \in LeafCells
  <2>1. \A j \in 1 .. Width : cells[j] = heap[1][j]
    BY <1>1, <1>2 DEF Shows
  <2>2. \A j \in 1 .. Width : heap[1][j] \in LeafCells
    BY <1>3 DEF MineInv, Simple
  <2> QED
    BY <2>1, <2>2
<1>5. Allocated(heap, children) /\ s.length = Width /\ Shows(g, s, cells)
  BY <1>1, <1>2, CopiedAllocates
<1> HIDE DEF children
<1>6. HeapOK(g) /\ Grown(heap, g) /\ s \in SliceType /\ Held(g, s)
  BY <1>5 DEF Allocated
<1>7. cell \in CellType /\ cell.slice = s /\ cell.tag = "logical" /\ cell.name = "AND"
  BY <1>6 DEF Cell, CellType, Tags, Labels
<1> HIDE DEF cell, g, s
<1>8. /\ \A j \in 1 .. Width : heap'[1][j] = IF j = i THEN cell ELSE heap[1][j]
      /\ Len(heap') \in Nat /\ Len(heap') >= Len(g) /\ Len(heap') >= Len(heap)
      /\ Same(g, heap') /\ Same(heap, heap')
  BY <1>3, <1>6, <1>7, MineWritten
<1>9. Simple(g, cell)
  <2>1. \A j \in 1 .. Width : g[s.array][j] \in LeafCells
    BY <1>2, <1>4, <1>5 DEF Shows
  <2> QED
    BY <1>5, <1>6, <1>7, <2>1 DEF Simple
<1>10. ASSUME NEW j \in 1 .. Width PROVE Simple(heap', heap'[1][j])
  <2>1. CASE j = i
    <3>1. heap'[1][j] = cell
      BY <1>8, <2>1
    <3> QED
      BY <1>6, <1>8, <1>9, <3>1, SimpleStays
  <2>2. CASE j # i
    <3>1. heap'[1][j] = heap[1][j] /\ Simple(heap, heap[1][j])
      BY <1>8, <2>2 DEF MineInv
    <3> QED
      BY <1>1, <1>8, <3>1, SimpleStays
  <2> QED
    BY <2>1, <2>2
<1> QED
  BY <1>10 DEF MineInv

LEMMA StepKeepsMine ==
  ASSUME HeapInv, MineInv, [Next]_vars
  PROVE  MineInv'
<1>1. CASE Derive
  <2>1. HeapOK(heap') /\ Grown(heap, heap') /\ HeapOK(heap)
    BY <1>1, DeriveKeeps DEF Kept, HeapInv
  <2>2. Len(heap) \in Nat /\ Len(heap) >= 1 /\ Len(heap') \in Nat /\ Len(heap') >= Len(heap)
    BY <2>1, LenProperties DEF HeapOK, Grown
  <2>3. heap'[1] = heap[1] /\ Same(heap, heap')
    BY <2>1, <2>2, GrownSame DEF Grown
  <2>4. ASSUME NEW i \in 1 .. Width PROVE Simple(heap', heap'[1][i])
    <3>1. Simple(heap, heap[1][i])
      BY DEF MineInv
    <3> QED
      BY <2>1, <2>2, <2>3, <3>1, SimpleStays
  <2> QED
    BY <2>4 DEF MineInv
<1>2. CASE Caller
  BY <1>2, OverwriteMine, CombineMine DEF Caller
<1>3. CASE UNCHANGED vars
  BY <1>3 DEF vars, MineInv, Simple, Held
<1> QED
  BY <1>1, <1>2, <1>3 DEF Next

LEMMA InitMine ==
  ASSUME Init
  PROVE  MineInv
<1>1. PICK name \in Names : heap = <<[i \in 1 .. Width |-> Leaf(name)]>>
  BY DEF Init
<1>2. \A i \in 1 .. Width : heap[1][i] = Leaf(name)
  BY <1>1
<1> QED
  BY <1>2 DEF MineInv, Simple, LeafCells

LEMMA AlwaysMineInv == Spec => [](HeapInv /\ MineInv)
<1>1. Init => HeapInv /\ MineInv
  BY InitEstablishes, InitMine
<1>2. HeapInv /\ MineInv /\ [Next]_vars => (HeapInv /\ MineInv)'
  BY StepIsSteady, StepKeepsMine DEF Steady
<1> QED
  BY <1>1, <1>2, PTL DEF Spec
-----------------------------------------------------------------------------
\* What the caller sees of the family.
Bar == [i \in DOMAIN family |-> Content(family[i])]

LEMMA BarIs ==
  ASSUME HeapInv
  PROVE  Bar = [i \in 1 .. Len(family) |-> ContentIn(heap, family[i])]
<1>1. DOMAIN family = 1 .. Len(family)
  BY LenProperties DEF HeapInv
<1>2. \A i \in 1 .. Len(family) : Content(family[i]) = ContentIn(heap, family[i])
  BY DEF Content, Contents, SeenDeep, Seen, ContentIn, ContentsIn, SeenDeepIn, SeenIn
<1> QED
  BY <1>1, <1>2 DEF Bar

LEMMA NextBarIs ==
  ASSUME HeapInv'
  PROVE  Bar' = [i \in 1 .. Len(family') |-> ContentIn(heap', family'[i])]
<1>1. DOMAIN family' = 1 .. Len(family')
  BY LenProperties DEF HeapInv
<1>2. \A i \in 1 .. Len(family') : Content(family[i])' = ContentIn(heap', family'[i])
  BY DEF Content, Contents, SeenDeep, Seen, ContentIn, ContentsIn, SeenDeepIn, SeenIn
<1> QED
  BY <1>1, <1>2 DEF Bar

\* Old values show what they showed.
LEMMA OldStay ==
  ASSUME HeapInv, [Next]_vars
  PROVE  \A i \in 1 .. Len(family) :
           ContentIn(heap', family'[i]) = ContentIn(heap, family[i])
<1> SUFFICES ASSUME NEW i \in 1 .. Len(family)
             PROVE  ContentIn(heap', family'[i]) = ContentIn(heap, family[i])
  OBVIOUS
<1>1. HeapOK(heap) /\ Same(heap, heap') /\ family'[i] = family[i]
  BY StepIsSteady, LenProperties DEF Steady, Same, HeapInv
<1>2. ValueOK(heap, family[i])
  BY DEF HeapInv
<1> QED
  BY <1>1, <1>2, ContentStays

LEMMA DeriveSeen ==
  ASSUME HeapInv, MineInv, Derive
  PROVE  \E v \in UNION {Independent!Successors(Bar[i]) : i \in DOMAIN Bar} :
           Bar' = Append(Bar, v)
<1> DEFINE n == Len(family)
           old(i) == ContentIn(heap, family[i])
<1>1. HeapInv' /\ [Next]_vars /\ n \in Nat /\ DOMAIN family = 1 .. n /\ family \in Seq(ValueType)
  BY DeriveKeeps, LenProperties DEF Kept, Next, HeapInv
<1>2. PICK i \in 1 .. n : Follows(family[i])
  BY <1>1, DeriveFollows
<1>3. PICK v \in Independent!Successors(old(i)) : Became(v)
  BY <1>2 DEF Follows
<1>4. PICK new : family' = Append(family, new) /\ ContentIn(heap', new) = v
  BY <1>3 DEF Became
<1>5. /\ Len(family') = n + 1 /\ family'[n + 1] = new
  BY <1>1, <1>4, AppendProperties DEF HeapInv
<1> DEFINE T == {old(j) : j \in 1 .. n} \union {v}
           bar == Bar
           all == Append(bar, v)
           now == Bar'
<1>6. bar = [j \in 1 .. n |-> old(j)]
  BY BarIs
<1>7. bar = [j \in 1 .. n |-> bar[j]] /\ \A j \in 1 .. n : bar[j] = old(j) /\ bar[j] \in T
  BY <1>6
<1>8. v \in T
  OBVIOUS
<1>9. now = [j \in 1 .. n + 1 |-> ContentIn(heap', family'[j])]
  BY <1>1, <1>5, NextBarIs
<1>10. \A j \in 1 .. n : ContentIn(heap', family'[j]) = old(j)
  BY <1>1, OldStay
<1>11. ContentIn(heap', family'[n + 1]) = v
  BY <1>4, <1>5
<1>12. v \in UNION {Independent!Successors(bar[j]) : j \in DOMAIN bar}
  BY <1>4, <1>6, <1>7
<1> HIDE DEF T, bar, old, n, now
<1>13. bar \in Seq(T) /\ Len(bar) = n
  BY <1>1, <1>7, FunctionIsSeq
<1>14. /\ all \in Seq(T) /\ Len(all) = n + 1 /\ all[n + 1] = v
       /\ \A j \in 1 .. n : all[j] = bar[j]
  BY <1>8, <1>13, AppendProperties
<1> HIDE DEF all
<1>15. all = [j \in 1 .. n + 1 |-> all[j]]
  BY <1>1, <1>14, LenProperties
<1>16. \A j \in 1 .. n + 1 : all[j] = ContentIn(heap', family'[j])
  <2> SUFFICES ASSUME NEW j \in 1 .. n + 1 PROVE all[j] = ContentIn(heap', family'[j])
    OBVIOUS
  <2>1. j \in 1 .. n \/ j = n + 1
    BY <1>1
  <2> QED
    BY <1>7, <1>10, <1>11, <1>14, <2>1
<1>17. all = now
  BY <1>9, <1>15, <1>16
<1> QED
  BY <1>12, <1>17 DEF all, bar, now

LEMMA StepSeen ==
  ASSUME HeapInv, MineInv, [Next]_vars
  PROVE  [Independent!Derive]_(Independent!vars)
<1>1. CASE Derive
  <2>1. PICK v \in UNION {Independent!Successors(Bar[i]) : i \in DOMAIN Bar} :
          Bar' = Append(Bar, v)
    BY <1>1, DeriveSeen
  <2>2. Independent!Derive
    BY <2>1 DEF Independent!Derive, Bar
  <2> QED
    BY <2>2
<1>2. CASE ~Derive
  <2>1. family' = family
    BY <1>2 DEF Next, Caller, Combine, Overwrite, vars
  <2>2. HeapInv'
    BY StepIsSteady DEF Steady
  <2>3. [i \in 1 .. Len(family') |-> ContentIn(heap', family'[i])] =
          [i \in 1 .. Len(family) |-> ContentIn(heap, family[i])]
    BY <2>1, OldStay
  <2>4. Bar' = Bar
    BY <2>2, <2>3, BarIs, NextBarIs
  <2> QED
    BY <2>4 DEF Bar, Independent!vars
<1> QED
  BY <1>1, <1>2

LEMMA InitSeen ==
  ASSUME Init
  PROVE  Independent!Init
<1>1. PICK kind \in Starts : family = <<Start(kind)>>
  BY DEF Init
<1> DEFINE value == Start(kind)
           seen  == [kind |-> kind, fields |-> [f \in Fields |-> <<>>]]
<1>2. value.kind = kind /\ \A f \in Fields : value.slices[f] = NilSlice
  BY DEF Start
<1>3. Len(family) = 1 /\ family[1] = value
  BY <1>1
<1> HIDE DEF value
<1>4. ContentIn(heap, value) = seen
  BY <1>2, NilSeen DEF ContentIn
<1> HIDE DEF seen
<1>5. Bar = [i \in 1 .. 1 |-> seen]
  BY <1>3, <1>4, InitEstablishes, BarIs
<1>6. Bar = <<seen>>
  BY <1>5
<1>7. seen \in {[kind |-> k, fields |-> [f \in Fields |-> <<>>]] : k \in Starts}
  BY DEF seen
<1> QED
  BY <1>6, <1>7 DEF Independent!Init, Bar

\* What a caller sees of its builders is what independent values would show:
\* each method returns a value that holds what its receiver held and what the
\* call added, at the moment of the call, and nothing done later, to any other
\* value or to the slices the caller passed, shows in any of them.
THEOREM Refinement == Spec => BehavesAsValues
<1>1. Init => Independent!Init
  BY InitSeen
<1>2. HeapInv /\ MineInv /\ [Next]_vars => [Independent!Derive]_(Independent!vars)
  BY StepSeen
<1> QED
  BY <1>1, <1>2, AlwaysMineInv, PTL DEF Spec, BehavesAsValues, Independent!Spec
=============================================================================
