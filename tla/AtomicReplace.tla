---------------------------- MODULE AtomicReplace ----------------------------
(***************************************************************************)
(* What tiqq-gen promises about its output file (README: "atomically       *)
(* replaces the output file.  A failed connection, introspection, or       *)
(* generation leaves an existing output untouched").                       *)
(*                                                                         *)
(* Each run either replaces the file in one step, and then reports         *)
(* success, or never touches it.  A crash of the machine ends what is      *)
(* running and may undo replacements, but only back to an earlier whole    *)
(* file.                                                                   *)
(***************************************************************************)
CONSTANTS Runs, Old

VARIABLES
  output,   \* whose source the file holds: Old or a run
  status    \* what each run came to

vars == <<output, status>>

Statuses == {"running", "published", "printed", "failed"}

Init ==
  /\ output = Old
  /\ status = [r \in Runs |-> "running"]

Publish(r) ==
  /\ status[r] = "running"
  /\ output' = r
  /\ status' = [status EXCEPT ![r] = "published"]

\* The run failed, was killed, or wrote to standard output.
Leave(r) ==
  /\ status[r] = "running"
  /\ \E s \in {"printed", "failed"} : status' = [status EXCEPT ![r] = s]
  /\ UNCHANGED output

Crash ==
  /\ \E lost \in SUBSET {r \in Runs : status[r] = "running"} :
       status' = [r \in Runs |-> IF r \in lost THEN "failed" ELSE status[r]]
  /\ output' \in {Old} \union {r \in Runs : status[r] = "published"}

Next == Crash \/ \E r \in Runs : Publish(r) \/ Leave(r)

Spec == Init /\ [][Next]_vars
=============================================================================
