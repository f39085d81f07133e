----------------------------- MODULE MC_Builders -----------------------------
(***************************************************************************)
(* Up to three calls on a first value, each on any of the values there     *)
(* are, with lists of length 0 and 1 from a slice the caller rewrites in   *)
(* between; append leaves one spare cell.                                  *)
(***************************************************************************)
EXTENDS BuilderHeap, TLC

CONSTANTS p, q
AllNames == {p, q}
Names2 == Permutations(AllNames)
AllStarts == {"joined", "insert", "update"}
=============================================================================
