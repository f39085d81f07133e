----------------------------- MODULE MC_TiqqGen ------------------------------
(***************************************************************************)
(* Two runs of tiqq-gen for one output file and one power failure.         *)
(***************************************************************************)
EXTENDS TiqqGen

CONSTANTS r1, r2, before

TwoRuns == {r1, r2}
=============================================================================
