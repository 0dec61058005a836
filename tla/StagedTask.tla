----------------------------- MODULE StagedTask -----------------------------
(***************************************************************************)
(* What the remote sensing pipeline promises about a task, without its     *)
(* processes, streams and rows.  A request becomes a pending task or comes *)
(* to nothing; once the task was started its stages are carried out, each  *)
(* after those before it; the task is reported completed only when all     *)
(* were, and never returns to pending or running.                          *)
(*                                                                         *)
(* As long as all is calm every stage is carried out once, and the task    *)
(* ends once.  When something went wrong a stage may be repeated, also     *)
(* after the end, and one end may replace the other.                       *)
(***************************************************************************)
EXTENDS Naturals

CONSTANTS
    Tasks,
    Last     \* the number of the last stage

VARIABLES
    status,  \* what is reported of each task
    work,    \* the stages carried out for it
    calm     \* nothing has gone wrong so far

Status == {"none", "pending", "running", "completed", "failed", "withdrawn"}

StagedInit ==
    /\ status = [t \in Tasks |-> "none"]
    /\ work = [t \in Tasks |-> {}]
    /\ calm = TRUE

Become(t, v) == status' = [status EXCEPT ![t] = v]

Started(t) == status[t] \in {"running", "completed", "failed"}

\* The request is recorded as a pending task; it is refused only on an error.
Accept(t) ==
    /\ status[t] = "none"
    /\ Become(t, "pending") \/ (~calm' /\ Become(t, "withdrawn"))
    /\ UNCHANGED work

\* The creation of a task could not be finished and is undone, before any work.
Withdraw(t) ==
    /\ status[t] = "pending"
    /\ ~calm'
    /\ Become(t, "withdrawn")
    /\ UNCHANGED work

Start(t) ==
    /\ status[t] = "pending"
    /\ Become(t, "running")
    /\ UNCHANGED work

\* Stage k is carried out, while all is calm for the first time.
Carry(t, k) ==
    /\ Started(t)
    /\ 1 .. (k - 1) \subseteq work[t]
    /\ calm' => status[t] = "running" /\ k \notin work[t]
    /\ work' = [work EXCEPT ![t] = @ \cup {k}]
    /\ UNCHANGED status

Complete(t) ==
    /\ Started(t)
    /\ work[t] = 1 .. Last
    /\ calm' => status[t] = "running"
    /\ Become(t, "completed")
    /\ UNCHANGED work

Fail(t) ==
    /\ Started(t)
    /\ calm' => status[t] = "running"
    /\ Become(t, "failed")
    /\ UNCHANGED work

StagedNext ==
    /\ calm' \in {calm, FALSE}
    /\ \/ \E t \in Tasks :
             \/ Accept(t) \/ Withdraw(t) \/ Start(t)
             \/ \E k \in 1 .. Last : Carry(t, k)
             \/ Complete(t) \/ Fail(t)
       \/ UNCHANGED <<status, work>>

StagedSpec == StagedInit /\ [][StagedNext]_<<status, work, calm>>
=============================================================================
