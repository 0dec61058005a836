---------------------------- MODULE RedisStream ----------------------------
(***************************************************************************)
(* A Redis stream read through one consumer group, as the queue package    *)
(* uses it (internal/queue).  Redis itself is outside the repository; what *)
(* is modelled is what the commands issued by queue.Client do to the       *)
(* entries:                                                                *)
(*                                                                         *)
(*   XADD         appends an entry that no consumer has seen ("new");      *)
(*   XREADGROUP > delivers the oldest new entry, which then waits in the   *)
(*                pending entries list ("pending");                        *)
(*   XAUTOCLAIM   takes over every pending entry whose idle time exceeds   *)
(*                the limit, whoever its consumer is, and resets the time; *)
(*   XACK         removes an entry from the pending list, whoever asks;    *)
(*   XGROUP CREATE from "0" makes every entry of the stream new again.     *)
(*                                                                         *)
(* The stream is never trimmed (no XDEL, XTRIM or MAXLEN in the package),  *)
(* so an entry is named by its position in the sequence of all entries.    *)
(* An entry's consumer is not recorded: no command the code issues         *)
(* depends on it.                                                          *)
(***************************************************************************)
EXTENDS Naturals, Sequences

\* Delivery states of an entry with respect to the consumer group.
EntryState == {"new", "pending", "acked"}

\* An entry: the task it names, the enable_detection flag of its payload, its
\* delivery state, and whether it has been pending longer than the idle limit.
Entry(Task) == [task : Task, detect : BOOLEAN, st : EntryState, idle : BOOLEAN]

\* XADD of a job.
XAdd(stream, t, d) ==
    Append(stream, [task |-> t, detect |-> d, st |-> "new", idle |-> FALSE])

\* The entry XREADGROUP > with COUNT 1 delivers, if there is one.
Undelivered(stream) ==
    {i \in DOMAIN stream : /\ stream[i].st = "new"
                           /\ \A j \in 1 .. (i - 1) : stream[j].st # "new"}

\* Mutant: delivered without a pending entry (NOACK).
DeliverNoAck(stream, i) == [stream EXCEPT ![i].st = "acked", ![i].idle = FALSE]

\* XREADGROUP of entry i.
Deliver(stream, i) == [stream EXCEPT ![i].st = "pending", ![i].idle = FALSE]

\* Mutant: claiming without MINIDLE.
ClaimableAny(stream) == {i \in DOMAIN stream : stream[i].st = "pending"}

\* The entries XAUTOCLAIM with MINIDLE takes.
Claimable(stream) == {i \in DOMAIN stream : stream[i].st = "pending" /\ stream[i].idle}

AutoClaim(stream) ==
    [i \in DOMAIN stream |-> IF i \in Claimable(stream)
                             THEN [stream[i] EXCEPT !.idle = FALSE]
                             ELSE stream[i]]

\* Time passes: a pending entry exceeds the idle limit.
GrowIdle(stream, i) == [stream EXCEPT ![i].idle = TRUE]

\* XACK of one entry; acknowledging an entry that is not pending changes nothing.
XAck(stream, i) ==
    [stream EXCEPT ![i].st = IF @ = "pending" THEN "acked" ELSE @,
                   ![i].idle = FALSE]

\* XGROUP CREATE ... MKSTREAM from id "0" when the group does not exist.
Regroup(stream) ==
    [i \in DOMAIN stream |-> [stream[i] EXCEPT !.st = "new", !.idle = FALSE]]

\* An entry that some consumer will get, or has got and not acknowledged.
Outstanding(stream) == {i \in DOMAIN stream : stream[i].st # "acked"}
=============================================================================
