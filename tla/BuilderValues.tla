---------------------------- MODULE BuilderValues ----------------------------
(***************************************************************************)
(* What the builders promise about values: a query is what the calls that  *)
(* led to it made of it, and nothing done later, to another query or to    *)
(* the slices a caller passed, changes it.                                 *)
(***************************************************************************)
EXTENDS Naturals, Sequences

CONSTANTS
  Arguments,   \* the lists a caller can pass
  Numbers,     \* the counts a caller can pass to Limit
  Fields,
  Starts       \* the builders a caller starts from

VARIABLE family   \* every builder value the program holds, oldest first

vars == <<family>>

\* An item is a plain thing with a name, or one that has items of its own.
Item(tag, name, items) == [tag |-> tag, name |-> name, items |-> items]
Leaf(name) == Item("leaf", name, <<>>)

Extend(value, field, list) == [value EXCEPT !.fields[field] = @ \o list]
Replace(value, field, list) == [value EXCEPT !.fields[field] = list]
As(value, kind) == [value EXCEPT !.kind = kind]

Joins(value) ==
  {Extend(Extend(value, "tables", <<Leaf(kind)>>), "joins", <<Item("join", kind, <<>>)>>) :
     kind \in {"inner", "cross"}}

\* ON replaces the conditions of the last join only.
Ons(value) ==
  {[value EXCEPT !.fields["joins"][Len(value.fields["joins"])].items = list] :
     list \in {l \in Arguments : value.fields["joins"] # <<>>}}

Extended(value, fields) == {Extend(value, f, l) : f \in fields, l \in Arguments}
Replaced(value, fields) == {Replace(value, f, l) : f \in fields, l \in Arguments}

Selects(value) ==
  Extended(value, {"predicates", "having"})
    \union Replaced(value, {"projections", "groupBy", "orderBy"})
    \union {Replace(value, "limit", <<Leaf(n)>>) : n \in Numbers}

Inserts(value) ==
  {Extend(value, "rows", <<Item("row", "", l)>>) : l \in Arguments}
    \union Replaced(value, {"duplicate", "returning"})
    \union {As(new, "conflict") : new \in Replaced(value, {"columns"})}

Conflicts(value) ==
  LET target == Replace(Replace(As(value, "insert"), "columns", <<>>),
                        "target", value.fields["columns"])
  IN Replaced(target, {"assignments"}) \union {Replace(target, "assignments", <<>>)}

Updates(value) ==
  Extended(value, {"assignments", "predicates"}) \union Replaced(value, {"returning"})

Successors(value) ==
  CASE value.kind = "joined" -> Joins(value) \union Ons(value) \union {As(value, "select")}
    [] value.kind = "select" -> Selects(value)
    [] value.kind = "insert" -> Inserts(value)
    [] value.kind = "conflict" -> Conflicts(value)
    [] value.kind = "update" -> Updates(value)

Init == \E value \in Starts : family = <<value>>

Derive ==
  family' \in {Append(family, new) : new \in UNION {Successors(family[i]) : i \in DOMAIN family}}

Spec == Init /\ [][Derive]_vars
=============================================================================
