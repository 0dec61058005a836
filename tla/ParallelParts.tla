---------------------------- MODULE ParallelParts ----------------------------
(***************************************************************************)
(* The two stages of the pipeline that run several programs at once:       *)
(* executePanRpc without Argo ("rpc") and executePansharpenParallel        *)
(* ("sharpen").  A stage divides its parts (areas, bands) into groups; a   *)
(* goroutine per group waits for the semaphore, runs a program that writes *)
(* the group's parts into a workers directory and copies them to the       *)
(* output directory.  The first error cancels the other goroutines.        *)
(*                                                                         *)
(* Without path isolation the directories are those of the input files,    *)
(* not of the task: a second goroutine of the same task, or a task on the  *)
(* same files, works in them too.  An executor is whoever runs the stage.  *)
(*                                                                         *)
(* Each change of the file system is a step.  A part stands for the files  *)
(* of one area or band.                                                    *)
(***************************************************************************)
EXTENDS Integers, FiniteSets

CONSTANTS
    Executors,    \* goroutines that may run the stage
    NumParts,     \* per mode: areas or bands (4 and 3 in the code)
    Parallelism,  \* per mode: places of the semaphore
    MaxRetries,   \* StageMaxRetries
    Budget,       \* how often each hazard may strike, see Hazards
    Together      \* the sets of hazards that may strike in one behaviour

Modes == {"rpc", "sharpen"}

\*   script     a program fails
\*   file       a directory cannot be created or removed or a copy breaks off
\*   timeout    the stage's context expires
\*   crash      the executor's process is killed
\*   duplicate  a second executor starts while another is at work or has ended
Hazards == {"script", "file", "timeout", "crash", "duplicate"}

ASSUME PartsAssumption ==
    /\ NumParts \in [Modes -> Nat \ {0}]
    /\ Parallelism \in [Modes -> Nat \ {0}]
    /\ MaxRetries \in Nat
    /\ Budget \in [Hazards -> Nat]
    /\ Together \subseteq SUBSET Hazards

VARIABLES
    mode,       \* which of the two stages runs
    pc,         \* where each executor stands
    attempt,    \* runStage's attempt
    expired,    \* the attempt's context has timed out
    cancelled,  \* a goroutine of the attempt has called cancel
    errs,       \* errors in errCh
    go,         \* the goroutines of each executor, one per group
    src,        \* the directory of each group under workers
    out,        \* each part in the output directory
    spent       \* hazards that have struck

vars == <<mode, pc, attempt, expired, cancelled, errs, go, src, out, spent>>
attemptVars == <<pc, attempt, expired, cancelled>>

-----------------------------------------------------------------------------
(* Parts and groups.                                                       *)

PartsIn(m) == 1 .. NumParts[m]

\* chunkAreaIndexes puts the areas into at most Parallelism groups of neighbours;
\* each band is a group of its own.
ChunkSize(m) == IF m = "sharpen" THEN 1
                ELSE (NumParts[m] + Parallelism[m] - 1) \div Parallelism[m]
GroupOf(m, p) == (p - 1) \div ChunkSize(m) + 1
GroupsIn(m)   == {GroupOf(m, p) : p \in PartsIn(m)}

AllParts  == UNION {PartsIn(m) : m \in Modes}
AllGroups == UNION {GroupsIn(m) : m \in Modes}

Parts      == PartsIn(mode)
Groups     == GroupsIn(mode)
PartsOf(g) == {p \in Parts : GroupOf(mode, p) = g}

-----------------------------------------------------------------------------
(* Goroutines.  left are the parts still to be copied, whole says whether  *)
(* the source of the one being copied was complete when it was opened.     *)

GoPC == {"none", "select", "mkdir", "start", "run", "open", "copy", "remove", "ended"}
Go   == [pc : GoPC, left : SUBSET AllParts, whole : BOOLEAN]
None == [pc |-> "none", left |-> {}, whole |-> FALSE]

At(e, g, l)   == go[e][g].pc = l
Goto(e, g, l) == go' = [go EXCEPT ![e][g].pc = l]
Copying(e, g, l, ps, w) ==
    go' = [go EXCEPT ![e][g] = [pc |-> l, left |-> ps, whole |-> w]]
End(e, g)     == go' = [go EXCEPT ![e][g] = [None EXCEPT !.pc = "ended"]]

\* The goroutines of e that hold a place of the semaphore.
Holding(e) == {g \in Groups : go[e][g].pc \notin {"none", "select", "ended"}}

\* stageCtx is done.
Done(e) == expired[e] \/ cancelled[e]

Spend(h) ==
    /\ spent[h] < Budget[h]
    /\ \E hs \in Together : {k \in Hazards : spent[k] > 0} \cup {h} \subseteq hs
    /\ spent' = [spent EXCEPT ![h] = @ + 1]
NoHazard == UNCHANGED spent

Init ==
    /\ mode \in Modes
    /\ pc = [e \in Executors |-> "idle"]
    /\ attempt = [e \in Executors |-> 1]
    /\ expired = [e \in Executors |-> FALSE]
    /\ cancelled = [e \in Executors |-> FALSE]
    /\ errs = [e \in Executors |-> 0]
    /\ go = [e \in Executors |-> [g \in AllGroups |-> None]]
    /\ src = [g \in AllGroups |-> "absent"]
    /\ out = [p \in AllParts |-> "none"]
    /\ spent = [h \in Hazards |-> 0]

-----------------------------------------------------------------------------
(* The executor.                                                           *)

\* Mutant: the retry runs under the context of the attempt before.
NewContextKept(e) == expired' = [expired EXCEPT ![e] = FALSE] /\ UNCHANGED cancelled

\* A context with the stage timeout, and one that the goroutines can cancel.
NewContext(e) ==
    /\ expired' = [expired EXCEPT ![e] = FALSE]
    /\ cancelled' = [cancelled EXCEPT ![e] = FALSE]

\* runStage calls the executor for the first time.
Begin(e) ==
    /\ pc[e] = "idle"
    /\ IF \A f \in Executors : pc[f] = "idle" THEN NoHazard ELSE Spend("duplicate")
    /\ pc' = [pc EXCEPT ![e] = "clean"]
    /\ attempt' = [attempt EXCEPT ![e] = 1]
    /\ NewContext(e)
    /\ UNCHANGED <<mode, errs, go, src, out>>

\* Mutant: one attempt too many.
AttemptFailsOnceMore(e) ==
    IF attempt[e] <= MaxRetries + 1
    THEN /\ pc' = [pc EXCEPT ![e] = "clean"]
         /\ attempt' = [attempt EXCEPT ![e] = @ + 1]
         /\ NewContext(e)
    ELSE /\ pc' = [pc EXCEPT ![e] = "failed"]
         /\ UNCHANGED <<attempt, expired, cancelled>>

\* runStage after an error: another attempt, or the stage has failed.
AttemptFails(e) ==
    IF attempt[e] <= MaxRetries
    THEN /\ pc' = [pc EXCEPT ![e] = "clean"]
         /\ attempt' = [attempt EXCEPT ![e] = @ + 1]
         /\ NewContext(e)
    ELSE /\ pc' = [pc EXCEPT ![e] = "failed"]
         /\ UNCHANGED <<attempt, expired, cancelled>>

\* os.RemoveAll of the directories of some groups; its error is only logged.
RemoveAll(gs) ==
    \/ /\ src' = [g \in AllGroups |-> IF g \in gs THEN "absent" ELSE src[g]]
       /\ NoHazard
    \/ Spend("file") /\ UNCHANGED src

\* The workers directory of an earlier execution is removed and the goroutines are
\* started, unless a directory cannot be created: PAN RPC creates its own before the
\* removal, pansharpening its own after it.
StartGroups(e) ==
    /\ pc[e] = "clean"
    /\ \/ /\ pc' = [pc EXCEPT ![e] = "wait"]
          /\ RemoveAll(AllGroups)
          /\ go' = [go EXCEPT ![e] =
                       [g \in AllGroups |-> IF g \in Groups THEN [None EXCEPT !.pc = "select"]
                                            ELSE None]]
          /\ errs' = [errs EXCEPT ![e] = 0]
          /\ UNCHANGED <<attempt, expired, cancelled>>
       \/ /\ Spend("file")
          /\ AttemptFails(e)
          /\ src' = IF mode = "rpc" THEN src ELSE [g \in AllGroups |-> "absent"]
          /\ UNCHANGED <<go, errs>>
    /\ UNCHANGED <<mode, out>>

\* wg.Wait, then the errors of errCh.
Gather(e) ==
    /\ pc[e] = "wait"
    /\ \A g \in Groups : At(e, g, "ended")
    /\ IF errs[e] > 0 THEN AttemptFails(e)
       ELSE /\ pc' = [pc EXCEPT ![e] = "tidy"]
            /\ UNCHANGED <<attempt, expired, cancelled>>
    /\ UNCHANGED <<mode, errs, go, src, out, spent>>

\* The workers directory is removed.
Tidy(e) ==
    /\ pc[e] = "tidy"
    /\ pc' = [pc EXCEPT ![e] = "check"]
    /\ RemoveAll(AllGroups)
    /\ UNCHANGED <<mode, attempt, expired, cancelled, errs, go, out>>

\* Mutant: pansharpening does not look whether its bands are there.
OutputsExistUnasked == TRUE

\* ensurePansharpenOutputs; executePanRpc has no such test.
OutputsExist == mode = "sharpen" => \A p \in Parts : out[p] # "none"

Conclude(e) ==
    /\ pc[e] = "check"
    /\ IF OutputsExist
       THEN /\ pc' = [pc EXCEPT ![e] = "success"]
            /\ UNCHANGED <<attempt, expired, cancelled>>
       ELSE AttemptFails(e)
    /\ UNCHANGED <<mode, errs, go, src, out, spent>>

Active(e) == pc[e] \in {"clean", "wait", "tidy", "check"}

Expire(e) ==
    /\ Active(e)
    /\ ~expired[e]
    /\ Spend("timeout")
    /\ expired' = [expired EXCEPT ![e] = TRUE]
    /\ UNCHANGED <<mode, pc, attempt, cancelled, errs, go, src, out>>

\* The process is killed, its programs with it; the job is delivered again.
Crash(e) ==
    /\ Active(e)
    /\ Spend("crash")
    /\ pc' = [pc EXCEPT ![e] = "idle"]
    /\ go' = [go EXCEPT ![e] = [g \in AllGroups |-> None]]
    /\ UNCHANGED <<mode, attempt, expired, cancelled, errs, src, out>>

-----------------------------------------------------------------------------
(* The goroutine of group g.                                               *)

\* Mutant: errCh has room for one error only.
GroupErrorOne(e, g) ==
    /\ errs[e] < 1
    /\ errs' = [errs EXCEPT ![e] = @ + 1]
    /\ cancelled' = [cancelled EXCEPT ![e] = TRUE]
    /\ End(e, g)

\* An error is sent, for which errCh has room, and the others are cancelled.
GroupError(e, g) ==
    /\ errs[e] < Cardinality(Groups)
    /\ errs' = [errs EXCEPT ![e] = @ + 1]
    /\ cancelled' = [cancelled EXCEPT ![e] = TRUE]
    /\ End(e, g)

\* Mutant: the programs are started without the semaphore.
AcquireNothing(e, g) ==
    /\ At(e, g, "select")
    /\ Goto(e, g, "mkdir")
    /\ UNCHANGED <<mode, attemptVars, errs, src, out, spent>>

\* The select statement: a place of the semaphore, or the context is done.  When
\* both are ready either is taken.
Acquire(e, g) ==
    /\ At(e, g, "select")
    /\ Cardinality(Holding(e)) < Parallelism[mode]
    /\ Goto(e, g, "mkdir")
    /\ UNCHANGED <<mode, attemptVars, errs, src, out, spent>>

GiveWay(e, g) ==
    /\ At(e, g, "select")
    /\ Done(e)
    /\ End(e, g)
    /\ UNCHANGED <<mode, attemptVars, errs, src, out, spent>>

MakeDir(e, g) ==
    /\ At(e, g, "mkdir")
    /\ \/ /\ src' = [src EXCEPT ![g] = IF @ = "absent" THEN "empty" ELSE @]
          /\ Goto(e, g, "start")
          /\ NoHazard
          /\ UNCHANGED <<cancelled, errs>>
       \/ Spend("file") /\ GroupError(e, g) /\ UNCHANGED src
    /\ UNCHANGED <<mode, pc, attempt, expired, out>>

\* runPython does not start a program for a context that is done.  The program
\* begins to write its parts.
StartProgram(e, g) ==
    /\ At(e, g, "start")
    /\ IF Done(e) THEN GroupError(e, g) /\ UNCHANGED src
       ELSE /\ src' = [src EXCEPT ![g] = IF @ = "absent" THEN @ ELSE "torn"]
            /\ Goto(e, g, "run")
            /\ UNCHANGED <<cancelled, errs>>
    /\ UNCHANGED <<mode, pc, attempt, expired, out, spent>>

\* The program ends.  Its files are complete unless the directory was removed
\* under it or a program of another executor writes the same files.
EndProgram(e, g) ==
    /\ At(e, g, "run")
    /\ src' = [src EXCEPT ![g] =
                  IF @ = "torn" /\ \A f \in Executors \ {e} : ~At(f, g, "run")
                  THEN "full" ELSE @]
    /\ Copying(e, g, "open", PartsOf(g), FALSE)
    /\ UNCHANGED <<mode, attemptVars, errs, out, spent>>

\* It fails, or is killed because the context is done.
FailProgram(e, g) ==
    /\ At(e, g, "run")
    /\ IF Done(e) THEN NoHazard ELSE Spend("script")
    /\ GroupError(e, g)
    /\ UNCHANGED <<mode, pc, attempt, expired, src, out>>

\* The part the loop of the goroutine is at.
Current(e, g, p) == p \in go[e][g].left /\ \A q \in go[e][g].left : p <= q

\* copyFile opens the source and truncates the destination.
OpenPart(e, g) ==
    /\ At(e, g, "open")
    /\ IF src[g] \in {"absent", "empty"}
       THEN GroupError(e, g) /\ UNCHANGED out
       ELSE /\ \E p \in AllParts : Current(e, g, p) /\ out' = [out EXCEPT ![p] = "torn"]
            /\ Copying(e, g, "copy", go[e][g].left, src[g] = "full")
            /\ UNCHANGED <<cancelled, errs>>
    /\ UNCHANGED <<mode, pc, attempt, expired, src, spent>>

\* The contents are copied, complete unless the source was not or another
\* executor has truncated the destination; next part of the group, or its end.
CopyPart(e, g) ==
    /\ At(e, g, "copy")
    /\ \/ /\ \E p \in AllParts :
                /\ Current(e, g, p)
                /\ out' = [out EXCEPT ![p] =
                              IF go[e][g].whole /\ \A f \in Executors \ {e} : ~At(f, g, "copy")
                              THEN "full" ELSE "torn"]
                /\ Copying(e, g, IF go[e][g].left = {p} THEN "remove" ELSE "open",
                           go[e][g].left \ {p}, FALSE)
          /\ NoHazard
          /\ UNCHANGED <<cancelled, errs>>
       \/ Spend("file") /\ GroupError(e, g) /\ UNCHANGED out
    /\ UNCHANGED <<mode, pc, attempt, expired, src>>

\* The group's directory is removed and its place freed.
RemoveDir(e, g) ==
    /\ At(e, g, "remove")
    /\ RemoveAll({g})
    /\ End(e, g)
    /\ UNCHANGED <<mode, attemptVars, errs, out>>

-----------------------------------------------------------------------------

ExecutorStep(e) == StartGroups(e) \/ Gather(e) \/ Tidy(e) \/ Conclude(e)

GroupStep(e, g) ==
    \/ Acquire(e, g) \/ GiveWay(e, g) \/ MakeDir(e, g)
    \/ StartProgram(e, g) \/ EndProgram(e, g) \/ FailProgram(e, g)
    \/ OpenPart(e, g) \/ CopyPart(e, g) \/ RemoveDir(e, g)

Step(e) == ExecutorStep(e) \/ \E g \in Groups : GroupStep(e, g)

Next == \E e \in Executors : Begin(e) \/ Step(e) \/ Expire(e) \/ Crash(e)

Spec == Init /\ [][Next]_vars

\* The stage is begun by somebody, and again after a crash; a process runs one of
\* its goroutines if any can run, and programs end.
Fairness ==
    /\ WF_vars(\E e \in Executors : Begin(e))
    /\ \A e \in Executors : WF_vars(Step(e))

FairSpec == Spec /\ Fairness

-----------------------------------------------------------------------------
(* Properties.                                                             *)

\* The goroutines are started with the wait and are gone when it is over.
TypeOK ==
    /\ mode \in Modes
    /\ pc \in [Executors -> {"idle", "clean", "wait", "tidy", "check", "success", "failed"}]
    /\ attempt \in [Executors -> 1 .. (MaxRetries + 1)]
    /\ expired \in [Executors -> BOOLEAN] /\ cancelled \in [Executors -> BOOLEAN]
    /\ errs \in [Executors -> Nat]
    /\ go \in [Executors -> [AllGroups -> Go]]
    /\ src \in [AllGroups -> {"absent", "empty", "torn", "full"}]
    /\ out \in [AllParts -> {"none", "torn", "full"}]
    /\ spent \in [Hazards -> Nat]

\* Nobody else has worked in the directories.
Alone == spent["duplicate"] = 0

\* A stage that one executor at a time has worked on, however often it was
\* killed, and that succeeds before its timeout has every part, complete, in the
\* output directory.  After the timeout a goroutine that had not got its place
\* ends without an error (the select statement); pansharpening then still finds
\* a band that was never written (ensurePansharpenOutputs).
SuccessHasAllParts ==
    \A e \in Executors : pc[e] = "success" =>
        /\ (Alone /\ ~expired[e]) => \A p \in Parts : out[p] = "full"
        /\ mode = "sharpen" => \A p \in Parts : out[p] # "none"

\* At most Parallelism programs of a stage run, which for PAN RPC is what its
\* memory budget allows (maxByMem).
ProgramsBounded ==
    \A e \in Executors : Cardinality({g \in Groups : At(e, g, "run")}) <= Parallelism[mode]

\* Attempts of e that have failed since its stage was begun.
FailedAttempts(e) == IF pc[e] = "failed" THEN attempt[e] ELSE attempt[e] - 1

\* An attempt fails only through a failed program, a file error or the timeout:
\* what a killed executor or a failed attempt left behind makes no other fail.
FailsForAReason ==
    \A e \in Executors : Alone =>
        FailedAttempts(e) <= spent["script"] + spent["file"] + spent["timeout"]

\* The stage ends: nobody waits for ever for a place, for room in errCh or for the
\* other goroutines.
StageEnds == <>(\E e \in Executors : pc[e] \in {"success", "failed"})
=============================================================================
