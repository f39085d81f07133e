--------------------------- MODULE BoundStatement ---------------------------
(***************************************************************************)
(* What Build promises, whichever builder it belongs to.                   *)
(*                                                                         *)
(* The caller changes a query as it likes.  Build either refuses it, and   *)
(* then there is no statement at all, or returns a statement in which      *)
(* every value the caller supplied is bound where the caller put it, once, *)
(* and in which nothing else is bound.  No partly bound statement exists.  *)
(***************************************************************************)
CONSTANTS
  Queries,    \* the values a builder can hold
  Wanted(_)   \* Wanted(query): the set of <<slot, value>> it asks for

VARIABLES query, result

vars == <<query, result>>

Pending == [status |-> "pending", slots |-> {}]
Refused == [status |-> "refused", slots |-> {}]
Bound(slots) == [status |-> "bound", slots |-> slots]

Init == query \in Queries /\ result = Pending

\* A builder method yields another query, which has not been built.
Change == query' \in Queries /\ result' = Pending

Refuse == result' = Refused /\ UNCHANGED query

Bind == result' = Bound(Wanted(query)) /\ UNCHANGED query

Next == Change \/ (result = Pending /\ (Refuse \/ Bind))

Spec == Init /\ [][Next]_vars
=============================================================================
