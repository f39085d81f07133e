----------------------------- MODULE BuilderHeap -----------------------------
(***************************************************************************)
(* The memory behind the builders.  A builder is a Go struct passed by     *)
(* value, but its lists are slices: a reference to a backing array, with a *)
(* length.  Two queries derived from one, and the caller who passed a      *)
(* list, may therefore share an array, and append writes into an array     *)
(* that has room.                                                          *)
(*                                                                         *)
(* heap[a] is backing array number a, as long as its capacity.  A program  *)
(* holds a family of builder values and one slice of its own, array 1,     *)
(* which it passes to the methods and overwrites as it likes.              *)
(***************************************************************************)
EXTENDS Naturals, Sequences

CONSTANTS
  Names,        \* predicates, columns, values, assignments: what lists hold
  Width,        \* length of the caller's own slice
  Spare,        \* cells the allocator adds when append outgrows an array
  Starts,       \* the kinds of builder a program begins with
  MaxFamily,    \* bound: builder values the program holds
  MaxArrays     \* bound: arrays allocated before the caller stops using And

ASSUME HeapAssumption ==
  /\ Width \in Nat /\ Spare \in Nat
  /\ Starts \subseteq {"joined", "insert", "update"}

VARIABLES heap, family

vars == <<heap, family>>

Fields ==
  {"tables", "joins", "predicates", "projections", "groupBy", "having", "orderBy", "limit",
   "rows", "columns", "target", "assignments", "duplicate", "returning"}

Slice(array, length) == [array |-> array, length |-> length]
NilSlice == Slice(0, 0)
Cell(tag, name, slice) == [tag |-> tag, name |-> name, slice |-> slice]
Leaf(name) == Cell("leaf", name, NilSlice)
Zeros(n) == [i \in 1 .. n |-> Cell("zero", "", NilSlice)]

mine == Slice(1, Width)
-----------------------------------------------------------------------------
(***************************************************************************)
(* Slices.  Each operator that allocates returns the heap and the slice.   *)
(***************************************************************************)

Cells(h, s) == IF s.length = 0 THEN <<>> ELSE SubSeq(h[s.array], 1, s.length)
Capacity(h, s) == IF s.array = 0 THEN 0 ELSE Len(h[s.array])

\* append(s, values...)
GoAppend(h, s, values) ==
  LET length == s.length + Len(values)
  IN IF values = <<>> THEN [heap |-> h, slice |-> s]
     ELSE IF length <= Capacity(h, s)
     THEN [heap  |-> [h EXCEPT ![s.array] =
                        [i \in DOMAIN @ |-> IF s.length < i /\ i <= length
                                            THEN values[i - s.length] ELSE @[i]]],
           slice |-> Slice(s.array, length)]
     ELSE [heap  |-> Append(h, Cells(h, s) \o values \o Zeros(Spare)),
           slice |-> Slice(Len(h) + 1, length)]

\* append([]T(nil), values...)
Copied(h, values) == GoAppend(h, NilSlice, values)

\* make([]T, len(values)), filled element by element
Made(h, values) ==
  [heap |-> Append(h, values), slice |-> Slice(Len(h) + 1, Len(values))]

\* Fault: plain append, which uses the room left behind the base.
AppendShared(h, base, values) == GoAppend(h, base, values)

\* appendCopy: an array of exactly the needed capacity, the base copied, then
\* append into the room just made.
AppendCopy(h, base, values) ==
  GoAppend(Append(h, Cells(h, base) \o Zeros(Len(values))),
           Slice(Len(h) + 1, base.length), values)
-----------------------------------------------------------------------------
(***************************************************************************)
(* Methods.  Each adds the value it returns to the family.                 *)
(***************************************************************************)

Start(kind) == [kind |-> kind, slices |-> [f \in Fields |-> NilSlice]]

Init ==
  /\ \E name \in Names : heap = <<[i \in 1 .. Width |-> Leaf(name)]>>
  /\ \E kind \in Starts : family = <<Start(kind)>>

Returned(new, h) == family' = Append(family, new) /\ heap' = h
With(value, field, made) == Returned([value EXCEPT !.slices[field] = made.slice], made.heap)

Join(value, kind) ==
  LET tables == AppendCopy(heap, value.slices["tables"], <<Leaf(kind)>>)
      joins  == AppendCopy(tables.heap, value.slices["joins"], <<Cell("join", kind, NilSlice)>>)
  IN /\ value.kind = "joined"
     /\ With([value EXCEPT !.slices["tables"] = tables.slice], "joins", joins)

\* Fault: the conditions are written into the joins the receiver shares.
OnInPlace(value, list) ==
  LET joins      == value.slices["joins"]
      conditions == Copied(heap, Cells(heap, list))
  IN /\ value.kind = "joined" /\ joins.length > 0
     /\ Returned(value, [conditions.heap EXCEPT ![joins.array][joins.length].slice =
                                                   conditions.slice])

\* Fault: the argument list itself is kept.
OnKeepsArgument(value, list) ==
  LET joins == Copied(heap, Cells(heap, value.slices["joins"]))
      last  == value.slices["joins"].length
  IN /\ value.kind = "joined" /\ last > 0
     /\ With(value, "joins",
             [joins EXCEPT !.heap[joins.slice.array][last].slice = list])

On(value, list) ==
  LET joins      == Copied(heap, Cells(heap, value.slices["joins"]))
      conditions == Copied(joins.heap, Cells(heap, list))
      last       == value.slices["joins"].length
  IN /\ value.kind = "joined" /\ last > 0
     /\ With(value, "joins",
             [slice |-> joins.slice,
              heap  |-> [conditions.heap EXCEPT ![joins.slice.array][last].slice =
                                                   conditions.slice]])

StartQuery(value) ==
  value.kind = "joined" /\ Returned([value EXCEPT !.kind = "select"], heap)

Extend(value, field, list) ==
  With(value, field, AppendCopy(heap, value.slices[field], Cells(heap, list)))
Replace(value, field, list) == With(value, field, Made(heap, Cells(heap, list)))

Where(value, list) == value.kind \in {"select", "update"} /\ Extend(value, "predicates", list)
Having(value, list) == value.kind = "select" /\ Extend(value, "having", list)
Set(value, list) == value.kind = "update" /\ Extend(value, "assignments", list)

Select(value, list) == value.kind = "select" /\ Replace(value, "projections", list)
GroupBy(value, list) == value.kind = "select" /\ Replace(value, "groupBy", list)
OrderBy(value, list) ==
  value.kind = "select" /\ With(value, "orderBy", Copied(heap, Cells(heap, list)))
Returning(value, list) ==
  value.kind \in {"insert", "update"} /\ Replace(value, "returning", list)

\* The pointer to the method's own parameter: a slice of length 1.
Limit(value, count) == value.kind = "select" /\ With(value, "limit", Made(heap, <<Leaf(count)>>))

Values(value, list) ==
  LET row == AppendCopy(heap, NilSlice, Cells(heap, list))
  IN /\ value.kind = "insert"
     /\ With(value, "rows",
             AppendCopy(row.heap, value.slices["rows"], <<Cell("row", "", row.slice)>>))

OnDuplicateKey(value, list) == value.kind = "insert" /\ Replace(value, "duplicate", list)

OnConflict(value, list) ==
  /\ value.kind = "insert"
  /\ With([value EXCEPT !.kind = "conflict"], "columns", Copied(heap, Cells(heap, list)))

\* The conflict clause is a new struct; its target is copied again.
DoUpdate(value, list) ==
  LET target      == Made(heap, Cells(heap, value.slices["columns"]))
      assignments == Made(target.heap, Cells(heap, list))
  IN /\ value.kind = "conflict"
     /\ With([value EXCEPT !.kind = "insert", !.slices["columns"] = NilSlice,
                           !.slices["target"] = target.slice],
             "assignments", assignments)

DoNothing(value) ==
  /\ value.kind = "conflict"
  /\ With([value EXCEPT !.kind = "insert", !.slices["columns"] = NilSlice,
                        !.slices["assignments"] = NilSlice],
          "target", Made(heap, Cells(heap, value.slices["columns"])))

Call(value, list) ==
  \/ On(value, list) \/ Where(value, list) \/ Having(value, list) \/ Set(value, list)
  \/ Select(value, list) \/ GroupBy(value, list) \/ OrderBy(value, list)
  \/ Returning(value, list) \/ Values(value, list) \/ OnDuplicateKey(value, list)
  \/ OnConflict(value, list) \/ DoUpdate(value, list)

\* Any value of the family, however old, may be the receiver.
Derive ==
  /\ Len(family) < MaxFamily
  /\ \E i \in DOMAIN family :
       \/ \E kind \in {"inner", "cross"} : Join(family[i], kind)
       \/ \E length \in 0 .. Width : Call(family[i], Slice(1, length))
       \/ \E count \in Names : Limit(family[i], count)
       \/ StartQuery(family[i])
       \/ DoNothing(family[i])

\* The caller reuses the slice it passed.
Overwrite(i, name) == heap' = [heap EXCEPT ![1][i] = Leaf(name)] /\ UNCHANGED family

\* ... and puts And(mine...) into it, which copies its children.
Combine(i) ==
  LET children == Copied(heap, Cells(heap, mine))
  IN /\ Len(heap) < MaxArrays
     /\ \A j \in 1 .. Width : heap[1][j].tag = "leaf"
     /\ heap' = [children.heap EXCEPT ![1][i] = Cell("logical", "AND", children.slice)]
     /\ UNCHANGED family

Caller == \E i \in 1 .. Width : Combine(i) \/ \E name \in Names : Overwrite(i, name)

Next == Derive \/ Caller

Spec == Init /\ [][Next]_vars
-----------------------------------------------------------------------------
(***************************************************************************)
(* Properties.                                                             *)
(***************************************************************************)


\* Every slice lies within an array that was allocated, and none that a
\* builder or a predicate holds is the caller's own: whatever list was passed,
\* the method took a copy.
SliceOK(s) ==
  \/ s.length = 0
  \/ s.array \in 2 .. Len(heap) /\ s.length \in 1 .. Len(heap[s.array])

TypeOK ==
  /\ \A i \in DOMAIN family : \A f \in Fields : SliceOK(family[i].slices[f])
  /\ \A a \in DOMAIN heap : \A i \in DOMAIN heap[a] : SliceOK(heap[a][i].slice)

\* An array is never written after the method that allocated it has returned;
\* only the caller writes, and only its own.  Queries derived from one prefix
\* may therefore share arrays, and methods may be called on one query by
\* several goroutines at once.
PublishedArraysStay ==
  [][\A a \in 2 .. Len(heap) : heap'[a] = heap[a]]_vars

\* What the caller sees through a slice: three levels deep at most, the
\* children of a condition of a join.
Flat(cell) == [tag |-> cell.tag, name |-> cell.name, items |-> <<>>]
Seen(cell) ==
  [tag |-> cell.tag, name |-> cell.name,
   items |-> [i \in 1 .. cell.slice.length |-> Flat(heap[cell.slice.array][i])]]
SeenDeep(cell) ==
  [tag |-> cell.tag, name |-> cell.name,
   items |-> [i \in 1 .. cell.slice.length |-> Seen(heap[cell.slice.array][i])]]
Contents(s) == [i \in 1 .. s.length |-> SeenDeep(heap[s.array][i])]
Content(value) ==
  [kind |-> value.kind, fields |-> [f \in Fields |-> Contents(value.slices[f])]]

\* All lists the caller's slice can hold.
SeenLeaf(name) == Flat(Leaf(name))
Leaves(n) == [1 .. n -> {SeenLeaf(name) : name \in Names}]
Logicals == {[tag |-> "logical", name |-> "AND", items |-> l] : l \in Leaves(Width)}
Lists ==
  UNION {[1 .. n -> {SeenLeaf(name) : name \in Names} \union Logicals] : n \in 0 .. Width}

Independent == INSTANCE BuilderValues WITH
  Arguments <- Lists,
  Numbers   <- Names,
  Starts    <- {[kind |-> kind, fields |-> [f \in Fields |-> <<>>]] : kind \in Starts},
  family    <- [i \in DOMAIN family |-> Content(family[i])]

\* The family behaves like independent values: each derived query holds what
\* its receiver held and what the call added, at the moment of the call, and
\* no later call on any query and no write of the caller changes it.
BehavesAsValues == Independent!Spec
=============================================================================
