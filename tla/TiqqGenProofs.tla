---------------------------- MODULE TiqqGenProofs ----------------------------
(***************************************************************************)
(* Theorems about tiqq-gen: the output file is whole and replaced          *)
(* atomically, for any number of overlapping runs and of power failures.   *)
(***************************************************************************)
EXTENDS TiqqGen, TLAPS

\* Where a run has no temporary file yet, and where it has not synced it.
Before == {"parse", "connect", "introspect", "decode", "generate", "print", "create"}
Unsynced == Before \union {"chmod", "write", "sync"}
Writing == {"create", "chmod", "write", "sync", "close", "rename"}

\* What holds of one run at its present place.
PlaceOK(r) ==
  /\ pc[r] \in Unsynced => ~synced[r]
  /\ pc[r] = "sync" => data[r] = "full"
  /\ pc[r] \in {"close", "rename"} => synced[r]
  /\ pc[r] \in Before => ~temp[r] /\ data[r] = "none"
  /\ pc[r] \in Writing => job[r].path = "file"
  /\ pc[r] = "print" => job[r].path = "stdout"
  /\ pc[r] \in Running \ {"cleanup"} => code[r] = "none"
  /\ pc[r] \in {"cleanup", "exit", "littered"} => code[r] # "none"
  /\ committed[r] => code[r] # "none" /\ (pc[r] = "cleanup" => ~temp[r])

\* Whatever a power failure may leave was synced by a run that says "ok".
DurableOK ==
  \A r \in Runs : r \in durable => synced[r] /\ code[r] = "ok" /\ job[r].path = "file"

GenInv == TypeOK /\ (\A r \in Runs : PlaceOK(r)) /\ DurableOK
-----------------------------------------------------------------------------
LEMMA InitInv == Init => GenInv
BY RunsAssumption
DEF Init, GenInv, TypeOK, PlaceOK, DurableOK, Jobs, Running, Before, Unsynced, Writing

\* Steps before the temporary file exists.
LEMMA EarlyInv ==
  ASSUME GenInv, NEW r \in Runs,
         Parse(r) \/ Expire(r) \/ Answer(r) \/ GiveUp(r) \/ Decode(r) \/ Generate(r) \/ PrintSource(r)
  PROVE  GenInv'
<1>1. TypeOK'
  <2>1. CASE Parse(r)
    BY <2>1 DEF Parse, Return, Proceed, GoTo, process, disk, GenInv, TypeOK, Jobs, Running
  <2>2. CASE Expire(r)
    BY <2>2 DEF Expire, Return, Proceed, GoTo, process, disk, GenInv, TypeOK, Jobs, Running
  <2>3. CASE Answer(r)
    BY <2>3 DEF Answer, Return, Proceed, GoTo, process, disk, GenInv, TypeOK, Jobs, Running
  <2>4. CASE GiveUp(r)
    BY <2>4 DEF GiveUp, Return, Proceed, GoTo, process, disk, GenInv, TypeOK, Jobs, Running
  <2>5. CASE Decode(r)
    BY <2>5 DEF Decode, Return, Proceed, GoTo, process, disk, GenInv, TypeOK, Jobs, Running
  <2>6. CASE Generate(r)
    BY <2>6 DEF Generate, Return, Proceed, GoTo, process, disk, GenInv, TypeOK, Jobs, Running
  <2>7. CASE PrintSource(r)
    BY <2>7 DEF PrintSource, Return, Proceed, GoTo, process, disk, GenInv, TypeOK, Jobs, Running
  <2> QED BY <2>1, <2>2, <2>3, <2>4, <2>5, <2>6, <2>7
<1> USE DEF Parse, Expire, Answer, GiveUp, Decode, Generate, PrintSource,
            Return, Proceed, GoTo, process, disk
<1>2. ASSUME NEW s \in Runs PROVE PlaceOK(s)'
  BY DEF GenInv, TypeOK, PlaceOK, Jobs, Running, Before, Unsynced, Writing
<1>3. DurableOK'
  BY DEF GenInv, TypeOK, DurableOK, PlaceOK, Running
<1> QED BY <1>1, <1>2, <1>3 DEF GenInv

\* Steps that create and fill it.
LEMMA WritingInv ==
  ASSUME GenInv, NEW r \in Runs,
         CreateTemp(r) \/ Chmod(r) \/ Write(r) \/ Sync(r) \/ Close(r)
  PROVE  GenInv'
<1>1. TypeOK'
  <2>1. CASE CreateTemp(r)
    <3>1. ~synced[r]
      BY <2>1 DEF CreateTemp, GenInv, PlaceOK, Unsynced, Before
    <3>2. CASE Return(r, "failed") /\ UNCHANGED disk
      BY <3>2 DEF Return, GoTo, disk, GenInv, TypeOK, Jobs, Running
    <3>3. CASE Proceed(r, "chmod")
      BY <2>1, <3>1, <3>3
      DEF CreateTemp, Return, Proceed, GoTo, process, disk, GenInv, TypeOK, Jobs, Running
    <3> QED BY <2>1, <3>2, <3>3 DEF CreateTemp
  <2>2. CASE Chmod(r)
    BY <2>2 DEF Chmod, ReturnAfterCleanup, Proceed, GoTo, process, disk, GenInv, TypeOK, Jobs, Running
  <2>3. CASE Write(r)
    <3>1. ~synced[r]
      BY <2>3 DEF Write, GenInv, PlaceOK, Unsynced, Before
    <3> QED BY SMTT(30), <2>3, <3>1
        DEF Write, ReturnAfterCleanup, Proceed, GoTo, process, disk, GenInv, TypeOK, Jobs, Running
  <2>4. CASE Sync(r)
    <3>1. data[r] = "full"
      BY <2>4 DEF Sync, GenInv, PlaceOK
    <3> QED BY <2>4, <3>1
        DEF Sync, ReturnAfterCleanup, Proceed, GoTo, process, GenInv, TypeOK, Jobs, Running
  <2>5. CASE Close(r)
    BY <2>5 DEF Close, ReturnAfterCleanup, Proceed, GoTo, process, disk, GenInv, TypeOK, Jobs, Running
  <2> QED BY <2>1, <2>2, <2>3, <2>4, <2>5
<1> USE DEF CreateTemp, Chmod, Write, Sync, Close,
            Return, ReturnAfterCleanup, Proceed, GoTo, process, disk
<1>2. ASSUME NEW s \in Runs PROVE PlaceOK(s)'
  BY DEF GenInv, TypeOK, PlaceOK, Jobs, Running, Before, Unsynced, Writing
<1>3. DurableOK'
  BY DEF GenInv, TypeOK, DurableOK, PlaceOK, Running
<1> QED BY <1>1, <1>2, <1>3 DEF GenInv

LEMMA RenameInv ==
  ASSUME GenInv, NEW r \in Runs, Rename(r)
  PROVE  GenInv'
<1> USE DEF Rename, Commit, Replace, ReturnAfterCleanup, GoTo, process, disk
<1>1. TypeOK'
  BY ZenonT(40) DEF GenInv, TypeOK, Jobs, Running
<1>2. ASSUME NEW s \in Runs PROVE PlaceOK(s)'
  BY DEF GenInv, TypeOK, PlaceOK, Jobs, Running, Before, Unsynced, Writing
<1>3. DurableOK'
  BY DEF GenInv, TypeOK, DurableOK, PlaceOK, Running, Writing
<1> QED BY <1>1, <1>2, <1>3 DEF GenInv

LEMMA EndInv ==
  ASSUME GenInv, NEW r \in Runs, Cleanup(r) \/ CleanupFails(r) \/ Kill(r)
  PROVE  GenInv'
<1> USE DEF Cleanup, CleanupFails, Kill, Proceed, GoTo, process, disk
<1>1. TypeOK'
  BY ZenonT(40) DEF GenInv, TypeOK, Jobs, Running
<1>2. ASSUME NEW s \in Runs PROVE PlaceOK(s)'
  BY DEF GenInv, TypeOK, PlaceOK, Jobs, Running, Before, Unsynced, Writing
<1>3. DurableOK'
  BY DEF GenInv, TypeOK, DurableOK, PlaceOK, Running
<1> QED BY <1>1, <1>2, <1>3 DEF GenInv

LEMMA CrashInv ==
  ASSUME GenInv, Crash
  PROVE  GenInv'
<1>1. /\ temp' \in [Runs -> BOOLEAN]
      /\ data' \in [Runs -> {"none", "empty", "partial", "full"}]
      /\ synced' \in [Runs -> BOOLEAN]
      /\ \A r \in Runs : synced'[r] <=> synced[r] /\ data'[r] # "none"
  BY DEF Crash, GenInv, TypeOK
<1>2. ASSUME NEW r \in Runs, data'[r] # "none" PROVE data'[r] \in Kept(r)
  BY <1>2 DEF Crash
<1>3. ASSUME NEW r \in Runs, synced'[r] PROVE data'[r] = "full"
  BY <1>1, <1>2, <1>3 DEF Kept, GenInv, TypeOK
<1>4. output' \in durable /\ durable' = {output'} /\ UNCHANGED process
      /\ pc' = [r \in Runs |-> IF pc[r] \in Running \ {"parse"} THEN "dead" ELSE pc[r]]
      /\ crashes' \in 0 .. MaxCrashes
  BY RunsAssumption DEF Crash, GenInv, TypeOK
<1>5. TypeOK'
  BY <1>1, <1>3, <1>4 DEF GenInv, TypeOK, process, Running
<1>6. ASSUME NEW r \in Runs, r = output' PROVE synced'[r]
  <2>1. synced[r] /\ data[r] = "full"
    BY <1>4, <1>6 DEF GenInv, TypeOK, DurableOK
  <2>2. data'[r] \in Kept(r)
    BY <1>6 DEF Crash
  <2> QED BY <1>1, <2>1, <2>2 DEF Kept
<1>7. DurableOK'
  BY <1>4, <1>6 DEF GenInv, DurableOK, process
<1>8. ASSUME NEW r \in Runs PROVE PlaceOK(r)'
  <2>1. PlaceOK(r) /\ TypeOK
    BY DEF GenInv
  <2>2. CASE pc[r] = "parse"
    <3>1. data'[r] = "none" /\ ~temp'[r] /\ ~synced'[r]
      BY <1>1, <1>2, <2>1, <2>2 DEF Crash, Kept, PlaceOK, Before, Unsynced
    <3>2. pc'[r] = "parse" /\ job' = job /\ code' = code /\ committed' = committed
      BY <1>4, <2>2 DEF process
    <3> QED BY <2>1, <2>2, <3>1, <3>2 DEF PlaceOK, Before, Unsynced, Writing, Running
  <2>3. CASE pc[r] # "parse"
    <3>1. pc'[r] \in {"dead", "exit", "littered"}
      BY <1>4, <2>1, <2>3 DEF TypeOK
    <3>2. pc'[r] \in {"exit", "littered"} => pc[r] \in {"exit", "littered"}
      BY <1>4
    <3> QED BY <1>4, <2>1, <3>1, <3>2 DEF PlaceOK, Before, Unsynced, Writing, Running, process
  <2> QED BY <2>2, <2>3
<1> QED BY <1>5, <1>7, <1>8 DEF GenInv

LEMMA StepInv == GenInv /\ [Next]_vars => GenInv'
<1> SUFFICES ASSUME GenInv, [Next]_vars PROVE GenInv'
  OBVIOUS
<1>1. CASE UNCHANGED vars
  BY <1>1 DEF vars, process, disk, GenInv, TypeOK, PlaceOK, DurableOK
<1>2. CASE Next
  BY <1>2, EarlyInv, WritingInv, RenameInv, EndInv, CrashInv DEF Next, Step
<1> QED BY <1>1, <1>2

\* The types, the places of the runs and what is durable, for any number of
\* runs and power failures.
THEOREM Invariance == Spec => []GenInv
BY InitInv, StepInv, PTL DEF Spec

\* The variables keep their types.
THEOREM TypeCorrect == Spec => []TypeOK
<1>1. GenInv => TypeOK
  BY DEF GenInv
<1> QED BY <1>1, Invariance, PTL

\* Whoever opens the output file finds a whole source, however many runs
\* overlap, fail, are killed or lose power.
THEOREM OutputStaysWhole == Spec => []OutputIsWhole
<1>1. GenInv => OutputIsWhole
  BY DEF GenInv, TypeOK, DurableOK, OutputIsWhole
<1> QED BY <1>1, Invariance, PTL

\* The step that ends a run, and nothing else, takes it to its exit: then the
\* temporary file was never created, was renamed or has been removed.
LEMMA EndsClean ==
  ASSUME GenInv, [Next]_vars, NEW r \in Runs, pc[r] # "exit", pc'[r] = "exit"
  PROVE  ~temp'[r]
<1>1. PlaceOK(r) /\ TypeOK
  BY DEF GenInv
<1>2. PICK s \in Runs : Step(s) \/ Expire(s) \/ Answer(s) \/ Decode(s) \/ Kill(s)
  BY DEF Next, Crash, vars
<1>3. r = s
  BY <1>1, <1>2
  DEF TypeOK, Step, Parse, Expire, Answer, GiveUp, Decode, Generate, PrintSource, CreateTemp,
      Chmod, Write, Sync, Close, Rename, Cleanup, CleanupFails, Kill,
      Return, ReturnAfterCleanup, Proceed, GoTo, Commit
<1>4. \/ Parse(r) \/ Answer(r) \/ GiveUp(r) \/ Decode(r) \/ Generate(r) \/ PrintSource(r)
      \/ (CreateTemp(r) /\ UNCHANGED disk) \/ Cleanup(r)
  BY <1>1, <1>2, <1>3
  DEF TypeOK, Step, Expire, CreateTemp, Chmod, Write, Sync, Close, Rename, CleanupFails, Kill,
      ReturnAfterCleanup, Proceed, GoTo, Commit
<1>5. CASE Cleanup(r)
  BY <1>1, <1>5 DEF Cleanup, TypeOK, PlaceOK
<1>6. CASE ~Cleanup(r)
  <2>1. pc[r] \in Before /\ UNCHANGED temp
    BY <1>4, <1>6
    DEF Parse, Answer, GiveUp, Decode, Generate, PrintSource, CreateTemp, disk, Before
  <2> QED BY <1>1, <2>1 DEF PlaceOK
<1> QED BY <1>5, <1>6

\* A run that ends by itself has removed or renamed its temporary file, for any
\* number of runs and power failures.
THEOREM LeavesNoLitter == Spec => NoLitter
<1>1. GenInv /\ [Next]_vars
        => [\A r \in Runs : pc[r] # "exit" /\ pc'[r] = "exit" => ~temp'[r]]_vars
  BY EndsClean
<1> QED BY <1>1, Invariance, PTL DEF Spec, NoLitter
-----------------------------------------------------------------------------
(***************************************************************************)
(* Refinement of AtomicReplace.                                            *)
(***************************************************************************)

outcomes == [r \in Runs |-> Outcome(r)]

LEMMA InitRefines == Init => Promise!Init
BY DEF Init, Promise!Init, Outcome, Jobs

\* A step that leaves the file alone and the outcome of all runs but r, and
\* takes r from running to an outcome that replaces nothing, if it ends it.
Quiet(r) ==
  /\ UNCHANGED output
  /\ \A s \in Runs \ {r} : Outcome(s)' = Outcome(s)
  /\ \/ Outcome(r)' = Outcome(r)
     \/ Outcome(r) = "running" /\ Outcome(r)' \in {"printed", "failed"}

LEMMA QuietStep ==
  ASSUME NEW r \in Runs, Quiet(r)
  PROVE  [Promise!Next]_(Promise!vars)
<1>1. CASE Outcome(r)' = Outcome(r)
  <2>1. \A s \in Runs : Outcome(s)' = Outcome(s)
    BY <1>1 DEF Quiet
  <2>2. outcomes' = outcomes
    BY <2>1 DEF outcomes
  <2> QED BY <2>2 DEF Quiet, Promise!vars, outcomes
<1>2. CASE Outcome(r) = "running" /\ Outcome(r)' \in {"printed", "failed"}
  <2>1. outcomes' = [outcomes EXCEPT ![r] = Outcome(r)']
    BY <1>2 DEF Quiet, outcomes
  <2>2. Promise!Leave(r)
    BY <1>2, <2>1 DEF Quiet, Promise!Leave, outcomes
  <2> QED BY <2>2 DEF Promise!Next
<1> QED BY <1>1, <1>2 DEF Quiet

\* Every step of a run but a rename that succeeds.
LEMMA QuietSteps ==
  ASSUME GenInv, NEW r \in Runs,
         \/ Parse(r) \/ Expire(r) \/ Answer(r) \/ GiveUp(r) \/ Decode(r) \/ Generate(r)
         \/ PrintSource(r) \/ CreateTemp(r) \/ Chmod(r) \/ Write(r) \/ Sync(r) \/ Close(r)
         \/ Rename(r) /\ UNCHANGED disk
         \/ Cleanup(r) \/ CleanupFails(r) \/ Kill(r)
  PROVE  [Promise!Next]_(Promise!vars)
<1>1. UNCHANGED output
  BY DEF Parse, Expire, Answer, GiveUp, Decode, Generate, PrintSource, CreateTemp,
         Chmod, Write, Sync, Close, Rename, Cleanup, CleanupFails, Kill, disk
<1>2. \A s \in Runs \ {r} : Outcome(s)' = Outcome(s)
  BY DEF Parse, Expire, Answer, GiveUp, Decode, Generate, PrintSource, CreateTemp,
         Chmod, Write, Sync, Close, Rename, Cleanup, CleanupFails, Kill,
         Return, ReturnAfterCleanup, Proceed, GoTo, Commit, Replace, process, disk,
         GenInv, TypeOK, Outcome
<1>3. \/ Outcome(r)' = Outcome(r)
      \/ Outcome(r) = "running" /\ Outcome(r)' \in {"printed", "failed"}
  <2> USE DEF Return, ReturnAfterCleanup, Proceed, GoTo, process, disk,
              GenInv, TypeOK, PlaceOK, Outcome, Running, Jobs
  <2>1. CASE Parse(r) \/ Answer(r) \/ GiveUp(r)
    BY <2>1 DEF Parse, Answer, GiveUp
  <2>2. CASE Expire(r)
    BY <2>2 DEF Expire
  <2>3. CASE Decode(r) \/ Generate(r)
    BY <2>3 DEF Decode, Generate
  <2>4. CASE PrintSource(r)
    BY <2>4 DEF PrintSource
  <2>5. CASE CreateTemp(r) \/ Chmod(r)
    BY <2>5 DEF CreateTemp, Chmod
  <2>6. CASE Write(r)
    BY <2>6 DEF Write
  <2>7. CASE Sync(r) \/ Close(r)
    BY <2>7 DEF Sync, Close
  <2>8. CASE Rename(r) /\ UNCHANGED disk
    BY <2>8 DEF Rename, Replace, Commit, DurableOK
  <2>9. CASE Cleanup(r) \/ CleanupFails(r)
    BY <2>9 DEF Cleanup, CleanupFails
  <2>10. CASE Kill(r)
    BY <2>10 DEF Kill
  <2> QED BY <2>1, <2>2, <2>3, <2>4, <2>5, <2>6, <2>7, <2>8, <2>9, <2>10
<1>4. Quiet(r)
  BY <1>1, <1>2, <1>3 DEF Quiet
<1> QED BY <1>4, QuietStep

LEMMA RenameRefines ==
  ASSUME GenInv, NEW r \in Runs, Rename(r)
  PROVE  [Promise!Next]_(Promise!vars)
<1>1. CASE UNCHANGED disk
  BY <1>1, QuietSteps
<1>2. CASE Commit(r, "ok") /\ Replace(r)
  <2>1. Outcome(r) = "running" /\ Outcome(r)' = "published"
    BY <1>2 DEF Rename, Commit, GoTo, GenInv, TypeOK, PlaceOK, Outcome, Running, Writing
  <2>2. \A s \in Runs \ {r} : Outcome(s)' = Outcome(s)
    BY <1>2 DEF Commit, GoTo, GenInv, TypeOK, Outcome
  <2>3. outcomes' = [outcomes EXCEPT ![r] = "published"]
    BY <2>1, <2>2 DEF outcomes
  <2>4. Promise!Publish(r)
    BY <1>2, <2>1, <2>3 DEF Replace, Promise!Publish, outcomes
  <2> QED BY <2>4 DEF Promise!Next
<1> QED BY <1>1, <1>2 DEF Rename

LEMMA CrashRefines ==
  ASSUME GenInv, Crash
  PROVE  Promise!Crash
<1> DEFINE lost == {r \in Runs : Outcome(r) = "running" /\ pc[r] # "parse"}
<1>1. ASSUME NEW r \in Runs
      PROVE  Outcome(r)' = IF r \in lost THEN "failed" ELSE Outcome(r)
  BY DEF Crash, process, GenInv, TypeOK, PlaceOK, Outcome, Running, Jobs
<1>2. outcomes' = [r \in Runs |-> IF r \in lost THEN "failed" ELSE outcomes[r]]
  BY <1>1 DEF outcomes
<1>3. lost \in SUBSET {r \in Runs : outcomes[r] = "running"}
  BY DEF outcomes
<1>4. output' \in {Old} \union {r \in Runs : outcomes[r] = "published"}
  BY DEF Crash, GenInv, TypeOK, DurableOK, Outcome, outcomes
<1> HIDE DEF lost
<1> QED BY <1>2, <1>3, <1>4 DEF Promise!Crash, outcomes

LEMMA StepRefines == GenInv /\ [Next]_vars => [Promise!Next]_(Promise!vars)
<1> SUFFICES ASSUME GenInv, [Next]_vars PROVE [Promise!Next]_(Promise!vars)
  OBVIOUS
<1>1. CASE UNCHANGED vars
  <2>1. \A r \in Runs : Outcome(r)' = Outcome(r)
    BY <1>1 DEF vars, process, Outcome
  <2> QED BY <1>1, <2>1 DEF vars, disk, Promise!vars
<1>2. CASE Crash
  BY <1>2, CrashRefines DEF Promise!Next
<1>3. CASE Next /\ ~Crash
  BY <1>3, QuietSteps, RenameRefines DEF Next, Step
<1> QED BY <1>1, <1>2, <1>3

\* tiqq-gen implements AtomicReplace, for any number of runs and crashes: a
\* run replaces the whole file and says so, or leaves it alone.
THEOREM Refinement == Spec => ReplacesAtomically
BY InitRefines, Invariance, StepRefines, PTL DEF Spec, ReplacesAtomically, Promise!Spec
=============================================================================
