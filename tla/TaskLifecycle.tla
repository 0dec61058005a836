---------------------------- MODULE TaskLifecycle ----------------------------
(***************************************************************************)
(* What the object detection service promises about a task, without its    *)
(* queue, its workers and its processes: a request is accepted or not, an  *)
(* accepted task is started at most once, and a task that was started ends *)
(* once, either completed or failed.  A task whose creation could not be   *)
(* finished is withdrawn, whatever it has become by then.                  *)
(***************************************************************************)
CONSTANT Tasks

VARIABLE status   \* the state of each task

Status == {"none", "pending", "running", "completed", "failed", "withdrawn"}

LifecycleInit == status = [t \in Tasks |-> "none"]

Become(t, v) == status' = [status EXCEPT ![t] = v]

\* The request is recorded as a pending task, or not at all.
Accept(t) == status[t] = "none" /\ (Become(t, "pending") \/ Become(t, "withdrawn"))

\* One worker, and only one, starts the task.
Start(t) == status[t] = "pending" /\ Become(t, "running")

\* That worker ends it.
End(t) == status[t] = "running" /\ (Become(t, "completed") \/ Become(t, "failed"))

\* The creation of the task is undone.
Withdraw(t) == status[t] # "none" /\ Become(t, "withdrawn")

LifecycleNext == \E t \in Tasks : Accept(t) \/ Start(t) \/ End(t) \/ Withdraw(t)

LifecycleSpec == LifecycleInit /\ [][LifecycleNext]_status
=============================================================================
