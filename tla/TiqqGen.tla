------------------------------- MODULE TiqqGen -------------------------------
(***************************************************************************)
(* Runs of the tiqq-gen command (cmd/tiqq-gen/main.go) that write the same *)
(* output file: from the command line to the exit code, one system call of *)
(* writeGenerated per step, each of which may fail.  Any run may be        *)
(* killed at any point and the machine may lose power.                     *)
(*                                                                         *)
(* The file system is as weak as POSIX allows: a power failure may lose    *)
(* what was written but not synced, and may undo the creation, the rename  *)
(* or the removal of a file, none of which syncs the directory.            *)
(***************************************************************************)
EXTENDS Naturals

CONSTANTS
  Runs,
  Old,        \* the output file before the first run; may be absent
  MaxCrashes  \* bound on power failures

ASSUME RunsAssumption == Old \notin Runs /\ MaxCrashes \in Nat

VARIABLES
  job,        \* where a run reads the schema and writes the source
  pc,
  code,       \* what dispatch returned: "none" while it has not
  expired,    \* the deadline of the run's context has passed
  committed,  \* writeGenerated's local variable
  temp,       \* the temporary file still has its name
  data,       \* what the file a run created holds
  synced,     \* that file has reached the disk
  output,     \* the file under the output name: Old or the one a run created
  durable,    \* files a power failure may leave under the output name
  crashes

process == <<job, code, expired, committed>>
disk == <<temp, data, synced, output, durable, crashes>>
vars == <<pc, process, disk>>

Jobs == [input : {"database", "schema"}, path : {"file", "stdout"}]
Running ==
  {"parse", "connect", "introspect", "decode", "generate", "print",
   "create", "chmod", "write", "sync", "close", "rename", "cleanup"}
-----------------------------------------------------------------------------
Init ==
  /\ job \in [Runs -> Jobs]
  /\ pc = [r \in Runs |-> "parse"]
  /\ code = [r \in Runs |-> "none"]
  /\ expired = [r \in Runs |-> FALSE]
  /\ committed = [r \in Runs |-> FALSE]
  /\ temp = [r \in Runs |-> FALSE]
  /\ data = [r \in Runs |-> "none"]
  /\ synced = [r \in Runs |-> FALSE]
  /\ output = Old
  /\ durable = {Old}
  /\ crashes = 0

GoTo(r, place) == pc' = [pc EXCEPT ![r] = place]

\* An error, or success, returned from outside writeGenerated's deferred part.
Return(r, result) ==
  /\ GoTo(r, "exit")
  /\ code' = [code EXCEPT ![r] = result]
  /\ UNCHANGED <<job, expired, committed>>

\* The same from inside it: the deferred function runs first.
ReturnAfterCleanup(r, result) ==
  /\ GoTo(r, "cleanup")
  /\ code' = [code EXCEPT ![r] = result]
  /\ UNCHANGED <<job, expired, committed>>

Proceed(r, place) == GoTo(r, place) /\ UNCHANGED process
-----------------------------------------------------------------------------
(***************************************************************************)
(* Up to the generated source.                                             *)
(***************************************************************************)

\* Flags, the DSN from the environment, opening the driver or the input.
Parse(r) ==
  /\ pc[r] = "parse"
  /\ \/ Proceed(r, IF job[r].input = "database" THEN "connect" ELSE "decode")
     \/ Return(r, "failed")
  /\ UNCHANGED disk

\* The context's timer.  It runs for database inputs only.
Expire(r) ==
  /\ job[r].input = "database"
  /\ pc[r] \in Running \ {"parse"}
  /\ ~expired[r]
  /\ expired' = [expired EXCEPT ![r] = TRUE]
  /\ UNCHANGED <<pc, job, code, committed, disk>>

\* PingContext and Introspect answer, or the server reports an error.
Answer(r) ==
  /\ pc[r] \in {"connect", "introspect"}
  /\ \/ /\ ~expired[r]
        /\ Proceed(r, IF pc[r] = "connect" THEN "introspect" ELSE "generate")
     \/ Return(r, "failed")
  /\ UNCHANGED disk

\* Fault: the deadline bounds the connection attempt only.
GiveUpConnecting(r) ==
  /\ pc[r] = "connect" /\ expired[r]
  /\ Return(r, "failed")
  /\ UNCHANGED disk

\* The driver notices that the context is done.
GiveUp(r) ==
  /\ pc[r] \in {"connect", "introspect"} /\ expired[r]
  /\ Return(r, "failed")
  /\ UNCHANGED disk

\* json.Decoder reads the input to the end of the value; nothing bounds it.
Decode(r) ==
  /\ pc[r] = "decode"
  /\ Proceed(r, "generate") \/ Return(r, "failed")
  /\ UNCHANGED disk

Generate(r) ==
  /\ pc[r] = "generate"
  /\ \/ Proceed(r, IF job[r].path = "stdout" THEN "print" ELSE "create")
     \/ Return(r, "failed")
  /\ UNCHANGED disk

PrintSource(r) ==
  /\ pc[r] = "print"
  /\ \E result \in {"ok", "failed"} : Return(r, result)
  /\ UNCHANGED disk
-----------------------------------------------------------------------------
(***************************************************************************)
(* writeGenerated.                                                         *)
(***************************************************************************)

CreateTemp(r) ==
  /\ pc[r] = "create"
  /\ \/ /\ Proceed(r, "chmod")
        /\ temp' = [temp EXCEPT ![r] = TRUE]
        /\ data' = [data EXCEPT ![r] = "empty"]
        /\ UNCHANGED <<synced, output, durable, crashes>>
     \/ Return(r, "failed") /\ UNCHANGED disk

Chmod(r) ==
  /\ pc[r] = "chmod"
  /\ Proceed(r, "write") \/ ReturnAfterCleanup(r, "failed")
  /\ UNCHANGED disk

\* Fault: a short write is not reported.
WriteIgnoringErrors(r) ==
  /\ pc[r] = "write"
  /\ Proceed(r, "sync")
  /\ \E written \in {"partial", "full"} : data' = [data EXCEPT ![r] = written]
  /\ UNCHANGED <<temp, synced, output, durable, crashes>>

\* A failing write may have written a part.
Write(r) ==
  /\ pc[r] = "write"
  /\ \/ /\ Proceed(r, "sync")
        /\ data' = [data EXCEPT ![r] = "full"]
     \/ /\ ReturnAfterCleanup(r, "failed")
        /\ \E written \in {"empty", "partial"} : data' = [data EXCEPT ![r] = written]
  /\ UNCHANGED <<temp, synced, output, durable, crashes>>

\* Fault: the data stays in the page cache.
SyncDoesNothing(r) ==
  /\ pc[r] = "sync"
  /\ Proceed(r, "close") \/ ReturnAfterCleanup(r, "failed")
  /\ UNCHANGED disk

Sync(r) ==
  /\ pc[r] = "sync"
  /\ \/ Proceed(r, "close") /\ synced' = [synced EXCEPT ![r] = TRUE]
     \/ ReturnAfterCleanup(r, "failed") /\ UNCHANGED synced
  /\ UNCHANGED <<temp, data, output, durable, crashes>>

Close(r) ==
  /\ pc[r] = "close"
  /\ Proceed(r, "rename") \/ ReturnAfterCleanup(r, "failed")
  /\ UNCHANGED disk

Replace(r) ==
  /\ output' = r
  /\ durable' = durable \union {r}
  /\ temp' = [temp EXCEPT ![r] = FALSE]
  /\ UNCHANGED <<data, synced, crashes>>

Commit(r, result) ==
  /\ GoTo(r, "cleanup")
  /\ committed' = [committed EXCEPT ![r] = TRUE]
  /\ code' = [code EXCEPT ![r] = result]
  /\ UNCHANGED <<job, expired>>

\* Fault: committed is set before the rename.
CommitEarly(r) ==
  /\ pc[r] = "rename"
  /\ \/ Commit(r, "ok") /\ Replace(r)
     \/ Commit(r, "failed") /\ UNCHANGED disk

\* Fault: the error of the rename is dropped.
RenameIgnoringErrors(r) ==
  /\ pc[r] = "rename"
  /\ \/ Commit(r, "ok") /\ Replace(r)
     \/ ReturnAfterCleanup(r, "ok") /\ UNCHANGED disk

Rename(r) ==
  /\ pc[r] = "rename"
  /\ \/ Commit(r, "ok") /\ Replace(r)
     \/ ReturnAfterCleanup(r, "failed") /\ UNCHANGED disk

\* The deferred function.  The result of os.Remove is discarded.
Cleanup(r) ==
  /\ pc[r] = "cleanup"
  /\ Proceed(r, "exit")
  /\ temp' = IF committed[r] THEN temp ELSE [temp EXCEPT ![r] = FALSE]
  /\ UNCHANGED <<data, synced, output, durable, crashes>>

\* os.Remove failed: the directory became read-only, for instance.
CleanupFails(r) ==
  /\ pc[r] = "cleanup" /\ ~committed[r]
  /\ GoTo(r, "littered")
  /\ UNCHANGED <<process, disk>>
-----------------------------------------------------------------------------
(***************************************************************************)
(* The environment.                                                        *)
(***************************************************************************)

Kill(r) ==
  /\ pc[r] \in Running
  /\ GoTo(r, "dead")
  /\ UNCHANGED <<process, disk>>

\* What a file that keeps a name through a power failure may hold.
Kept(r) ==
  IF synced[r] \/ data[r] \in {"none", "empty"} THEN {data[r]}
  ELSE {"empty", "partial"} \union {data[r]}

\* A power failure.  Runs that had not started may start after it.  A file may
\* be found under its temporary name again, though it was renamed or removed;
\* one that is found under no name is gone.
Crash ==
  /\ crashes < MaxCrashes
  /\ crashes' = crashes + 1
  /\ pc' = [r \in Runs |-> IF pc[r] \in Running \ {"parse"} THEN "dead" ELSE pc[r]]
  /\ output' \in durable
  /\ durable' = {output'}
  /\ temp' \in [Runs -> BOOLEAN]
  /\ \A r \in Runs : temp'[r] => data[r] # "none" /\ r # output'
  /\ data' \in [Runs -> {"none", "empty", "partial", "full"}]
  /\ \A r \in Runs :
       data'[r] \in IF temp'[r] \/ r = output' THEN Kept(r) ELSE {"none"}
  /\ synced' = [r \in Runs |-> synced[r] /\ data'[r] # "none"]
  /\ UNCHANGED process

\* Steps that need nothing but the processor and the disk.
Step(r) ==
  \/ Parse(r) \/ GiveUp(r) \/ Generate(r) \/ PrintSource(r)
  \/ CreateTemp(r) \/ Chmod(r) \/ Write(r) \/ Sync(r) \/ Close(r) \/ Rename(r)
  \/ Cleanup(r) \/ CleanupFails(r)

Next ==
  \/ \E r \in Runs : Step(r) \/ Expire(r) \/ Answer(r) \/ Decode(r) \/ Kill(r)
  \/ Crash

Fairness == \A r \in Runs : WF_vars(Step(r)) /\ WF_vars(Expire(r))

Spec == Init /\ [][Next]_vars /\ Fairness
-----------------------------------------------------------------------------
(***************************************************************************)
(* Properties.                                                             *)
(***************************************************************************)

\* The types, and that Sync is only reached with everything written.
TypeOK ==
  /\ job \in [Runs -> Jobs]
  /\ pc \in [Runs -> Running \union {"exit", "littered", "dead"}]
  /\ code \in [Runs -> {"none", "ok", "failed"}]
  /\ expired \in [Runs -> BOOLEAN] /\ committed \in [Runs -> BOOLEAN]
  /\ temp \in [Runs -> BOOLEAN]
  /\ data \in [Runs -> {"none", "empty", "partial", "full"}]
  /\ synced \in [Runs -> BOOLEAN]
  /\ \A r \in Runs : synced[r] => data[r] = "full"
  /\ output \in durable /\ durable \subseteq Runs \union {Old}
  /\ crashes \in 0 .. MaxCrashes

\* Whoever reads the output file, at any moment and after any crash, finds a
\* whole source file: the old one or all that some run generated.
OutputIsWhole == output # Old => data[output] = "full"

\* A run that ends by itself, successfully or not, leaves no temporary file
\* behind, unless removing it failed.  (A power failure may bring it back
\* later, so this is said of the step that ends the run.)
NoLitter == [][\A r \in Runs : pc[r] # "exit" /\ pc'[r] = "exit" => ~temp'[r]]_vars

\* What a run came to, as its exit code tells; a run that is killed before
\* it has one counts as failed.
Outcome(r) ==
  CASE code[r] = "ok" -> IF job[r].path = "file" THEN "published" ELSE "printed"
    [] code[r] = "failed" -> "failed"
    [] code[r] = "none" -> IF pc[r] = "dead" THEN "failed" ELSE "running"

Promise == INSTANCE AtomicReplace WITH status <- [r \in Runs |-> Outcome(r)]

\* Runs that overlap, fail, are killed or lose power keep the promise of
\* AtomicReplace: the exit code says whether this run replaced the file.
ReplacesAtomically == Promise!Spec

\* A run that reads a database comes to an end, even if the server never
\* answers: connecting and introspecting share one deadline.
Terminates == \A r \in Runs : job[r].input = "database" ~> pc[r] \notin Running
=============================================================================
