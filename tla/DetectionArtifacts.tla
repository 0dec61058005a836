------------------------- MODULE DetectionArtifacts -------------------------
(***************************************************************************)
(* The artifact rows of a task's detection stage: they are inserted by the *)
(* stage (executeObjectDetection and the loop over res.Artifacts in        *)
(* runStage) and, in every GET of the artifacts of a completed task,       *)
(* brought in line with the files in the directory of the detection        *)
(* (syncDetectionArtifactsFromDisk).  GetDetectionStats counts the rows.   *)
(*                                                                         *)
(* A detection can run for a completed task too: TaskPipeline shows how.   *)
(* A walk through the directory is one step here.                          *)
(***************************************************************************)
EXTENDS Naturals, FiniteSets

CONSTANTS
    Detections,  \* runs of the stage, in rs-workers or od-workers
    Gets,        \* requests
    Images,      \* tiles, numbered in the order of their paths
    MaxErrors    \* statements that fail

Procs == Detections \cup Gets

\* detections.txt
Summary == 0
Paths   == {Summary} \cup Images

\* Of the constants.
ArtifactsAssumption ==
    /\ Detections \cap Gets = {}
    /\ Images \subseteq Nat \ {0}
    /\ MaxErrors \in Nat

VARIABLES
    disk,        \* the files of the detection
    rows,        \* its artifact rows, with the process that inserted each
    completed,   \* the task is completed
    pc,
    out,         \* the files that the program of a detection is going to write
    entries,     \* CollectArtifactEntries
    existing,    \* the rows that a request has read
    todo,        \* the paths it still has to go through
    overlapped,  \* processes that ran at the same time as another (for the properties)
    errors

vars == <<disk, rows, completed, pc, out, entries, existing, todo, overlapped, errors>>

Row == [by : Procs, path : Paths, type : {"summary", "preview", "tile"}]

\* CollectArtifactEntries: detections.txt, then the images, the first of which is the preview.
TypeOf(p, files) ==
    CASE p = Summary                                            -> "summary"
      [] p # Summary /\ (\A i \in files \ {Summary} : p <= i) -> "preview"
      [] OTHER                                                  -> "tile"
CollectArtifactEntries == disk

\* Entries are gone through in this order.
First(files) == CHOOSE p \in files : \A q \in files : p <= q

Has(p, some) == \E r \in some : r.path = p

\* Rows have an id: a process inserts a path once.
SameRow(r, s) == r.by = s.by /\ r.path = s.path

Init ==
    /\ disk = {}
    /\ rows = {}
    /\ completed = FALSE
    /\ pc = [p \in Procs |-> "start"]
    /\ out = [p \in Procs |-> {}]
    /\ entries = [p \in Procs |-> {}]
    /\ existing = [p \in Procs |-> {}]
    /\ todo = [p \in Procs |-> {}]
    /\ overlapped = {}
    /\ errors = 0

Goto(p, s) == pc' = [pc EXCEPT ![p] = s]

Busy == {p \in Procs : pc[p] \notin {"start", "done"}}

\* createArtifact.
Insert(p, file) ==
    rows' = rows \cup {[by |-> p, path |-> file, type |-> TypeOf(file, entries[p])]}

Begins(p) == overlapped' = IF Busy = {} THEN overlapped ELSE overlapped \cup Busy \cup {p}

-----------------------------------------------------------------------------
(* A detection.                                                            *)

\* The program may remove the files of an earlier run.
StartDetection(d) ==
    /\ pc[d] = "start"
    /\ Begins(d)
    /\ disk' \in {disk, {}}
    /\ \E o \in SUBSET Images : out' = [out EXCEPT ![d] = o \cup {Summary}]
    /\ Goto(d, "run")
    /\ UNCHANGED <<rows, completed, entries, existing, todo, errors>>

WriteFile(d) ==
    /\ pc[d] = "run"
    /\ \E p \in out[d] :
          /\ disk' = disk \cup {p}
          /\ out' = [out EXCEPT ![d] = @ \ {p}]
    /\ UNCHANGED <<rows, completed, pc, entries, existing, todo, overlapped, errors>>

\* The program has ended.
CollectDetected(d) ==
    /\ pc[d] = "run"
    /\ out[d] = {}
    /\ entries' = [entries EXCEPT ![d] = CollectArtifactEntries]
    /\ todo' = [todo EXCEPT ![d] = CollectArtifactEntries]
    /\ Goto(d, "insert")
    /\ UNCHANGED <<disk, rows, completed, out, existing, overlapped, errors>>

\* createArtifact, whose error is only logged.
InsertDetected(d) ==
    /\ pc[d] = "insert"
    /\ todo[d] # {}
    /\ todo' = [todo EXCEPT ![d] = @ \ {First(todo[d])}]
    /\ \/ Insert(d, First(todo[d])) /\ UNCHANGED errors
       \/ errors < MaxErrors /\ errors' = errors + 1 /\ UNCHANGED rows
    /\ UNCHANGED <<disk, completed, pc, out, entries, existing, overlapped>>

\* finishTaskCompleted.
FinishDetection(d) ==
    /\ pc[d] = "insert"
    /\ todo[d] = {}
    /\ completed' = TRUE
    /\ Goto(d, "done")
    /\ UNCHANGED <<disk, rows, out, entries, existing, todo, overlapped, errors>>

-----------------------------------------------------------------------------
(* ListArtifacts.                                                          *)

StartGet(g) ==
    /\ pc[g] = "start"
    /\ completed
    /\ Begins(g)
    /\ Goto(g, "collect")
    /\ UNCHANGED <<disk, rows, completed, out, entries, existing, todo, errors>>

CollectOnDisk(g) ==
    /\ pc[g] = "collect"
    /\ entries' = [entries EXCEPT ![g] = CollectArtifactEntries]
    /\ Goto(g, "read")
    /\ UNCHANGED <<disk, rows, completed, out, existing, todo, overlapped, errors>>

\* Mutant: it is enough that there are as many.
SameCount(g) == Cardinality(rows) = Cardinality(entries[g])

\* There are as many rows as entries and every entry has a row.
InSync(g) == Cardinality(rows) = Cardinality(entries[g]) /\ \A p \in entries[g] : Has(p, rows)

\* Nothing is done if the rows look right.
ReadRows(g) ==
    /\ pc[g] = "read"
    /\ existing' = [existing EXCEPT ![g] = rows]
    /\ IF InSync(g)
       THEN Goto(g, "done") /\ UNCHANGED todo
       ELSE Goto(g, "sync") /\ todo' = [todo EXCEPT ![g] = entries[g]]
    /\ UNCHANGED <<disk, rows, completed, out, entries, overlapped, errors>>

Update(g, r) ==
    rows' = {IF SameRow(s, r) THEN [s EXCEPT !.type = TypeOf(s.path, entries[g])] ELSE s : s \in rows}

\* A SELECT, an INSERT or a DELETE fails, which ends the sync.
SyncError(g) ==
    /\ \/ pc[g] = "read"
       \/ pc[g] \in {"sync", "prune"} /\ todo[g] # {}
    /\ errors < MaxErrors /\ errors' = errors + 1
    /\ Goto(g, "done")
    /\ UNCHANGED <<disk, rows, completed, out, entries, existing, todo, overlapped>>

\* Mutant: existingByPath is not looked at.
AlwaysMissing(g, p) == TRUE

Missing(g, p) == ~Has(p, existing[g])

\* An entry without a row gets one.  Another's type is updated in the row that
\* existingByPath holds, any of those with its path.
SyncEntry(g) ==
    LET p == First(todo[g])
    IN  /\ pc[g] = "sync" /\ todo[g] # {}
        /\ \/ Missing(g, p) /\ Insert(g, p)
           \/ ~Missing(g, p) /\ \E r \in existing[g] : r.path = p /\ Update(g, r)
        /\ todo' = [todo EXCEPT ![g] = @ \ {p}]
        /\ UNCHANGED <<disk, completed, pc, out, entries, existing, overlapped, errors>>

\* The paths in existingByPath without an entry: a row of each is deleted.
SyncEntriesDone(g) ==
    /\ pc[g] = "sync" /\ todo[g] = {}
    /\ todo' = [todo EXCEPT ![g] = {r.path : r \in existing[g]} \ entries[g]]
    /\ Goto(g, "prune")
    /\ UNCHANGED <<disk, rows, completed, out, entries, existing, overlapped, errors>>

DeleteRow(g) ==
    /\ pc[g] = "prune"
    /\ \E r \in existing[g] :
          /\ r.path \in todo[g]
          /\ rows' = {s \in rows : ~SameRow(s, r)}
          /\ todo' = [todo EXCEPT ![g] = @ \ {r.path}]
    /\ UNCHANGED <<disk, completed, pc, out, entries, existing, overlapped, errors>>

Respond(g) ==
    /\ pc[g] = "prune" /\ todo[g] = {}
    /\ Goto(g, "done")
    /\ UNCHANGED <<disk, rows, completed, out, entries, existing, todo, overlapped, errors>>

Next ==
    \/ \E d \in Detections :
          \/ StartDetection(d) \/ WriteFile(d) \/ CollectDetected(d) \/ InsertDetected(d)
          \/ FinishDetection(d)
    \/ \E g \in Gets :
          \/ StartGet(g) \/ CollectOnDisk(g) \/ ReadRows(g) \/ SyncEntry(g) \/ SyncEntriesDone(g)
          \/ DeleteRow(g) \/ Respond(g) \/ SyncError(g)

Spec == Init /\ [][Next]_vars

-----------------------------------------------------------------------------
(* Properties.                                                             *)

TypeOK ==
    /\ disk \subseteq Paths
    /\ rows \subseteq Row
    /\ completed \in BOOLEAN
    /\ pc \in [Procs -> {"start", "run", "insert", "collect", "read", "sync", "prune", "done"}]
    /\ out \in [Procs -> SUBSET Paths]
    /\ entries \in [Procs -> SUBSET Paths]
    /\ existing \in [Procs -> SUBSET Row]
    /\ todo \in [Procs -> SUBSET Paths]
    /\ overlapped \subseteq Procs
    /\ errors \in 0 .. MaxErrors

\* A request that runs alone and without an error leaves a row for every file, and leaves
\* a row without a file only if it found several for its path, whatever ran before it
\* (syncDetectionArtifactsFromDisk).
SyncedIfAlone ==
    [][\A g \in Gets \ overlapped :
         (pc[g] # "done" /\ pc'[g] = "done" /\ errors' = errors) =>
             /\ \A p \in disk : Has(p, rows')
             /\ \A r \in rows' : r.path \notin disk => \E x \in existing'[g] \ {r} : x.path = r.path]_vars

\* After one detection that no request overlapped, requests that did not overlap each
\* other keep one row for a file, so that the tiles are counted once (GetDetectionStats).
CountedOnceIfAlone ==
    (overlapped = {} /\ \A d, e \in Detections : pc[d] # "start" /\ pc[e] # "start" => d = e) =>
        \A r, s \in rows : r.path = s.path => r = s
=============================================================================
