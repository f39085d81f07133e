----------------------------- MODULE Subsequences -----------------------------
(***************************************************************************)
(* Rows and metadata are picked from lists.                                *)
(***************************************************************************)
EXTENDS SequencesExt

\* The elements of s that are in S, in their order: SelectSeq by a set, as a
\* concatenation, so that proofs can use what is known of FlattenSeq.
Those(s, S) == FlattenSeq([i \in DOMAIN s |-> IF s[i] \in S THEN <<s[i]>> ELSE <<>>])
=============================================================================
