----------------------------- MODULE StageEvents -----------------------------
(***************************************************************************)
(* The stream of a task's events (GET /tasks/:id/events): Subscribe and    *)
(* publishStageEvent of RemoteSensingService and of ObjectDetectionService,*)
(* which are alike, and the StreamEvents handlers.                         *)
(*                                                                         *)
(* The goroutine that runs the task publishes one event after the other.   *)
(* It copies the list of the subscribers' channels under subsMu and sends  *)
(* after unlocking; a channel whose buffer is full is given one second.    *)
(* A handler that returns takes its channel off the list and closes it; a  *)
(* send on a closed channel panics, which ends the process.                *)
(***************************************************************************)
EXTENDS Naturals, Sequences, SequencesExt

CONSTANTS
    Clients,     \* requests for the stream
    BufferSize,  \* 8
    MaxEvents    \* events of a run

\* Of the constants.
EventsAssumption == BufferSize \in Nat \ {0} /\ MaxEvents \in Nat

VARIABLES
    subscribers, \* the list of the task's subscribers
    buffer,      \* each channel's buffer: events, numbered as they are published
    pc,          \* of each handler
    got,         \* the events each has written to its client
    event,       \* the event that is being published, or was last
    sending,     \* the subscribers it has still to be sent to, in order
    waiting,     \* the publisher waits for room in the first one's buffer
    since,       \* the first event a handler can see
    late,        \* <<handler, event>>: sends that were given up
    panicked

handlers == <<subscribers, pc, since>>
vars == <<handlers, buffer, got, event, sending, waiting, late, panicked>>

Init ==
    /\ subscribers = <<>>
    /\ buffer = [c \in Clients |-> <<>>]
    /\ pc = [c \in Clients |-> "away"]
    /\ got = [c \in Clients |-> <<>>]
    /\ event = 0
    /\ sending = <<>>
    /\ waiting = FALSE
    /\ since = [c \in Clients |-> 0]
    /\ late = {}
    /\ panicked = FALSE

\* Subscribe, under subsMu.
Subscribe(c) ==
    /\ ~panicked
    /\ pc[c] = "away"
    /\ pc' = [pc EXCEPT ![c] = "streaming"]
    /\ subscribers' = Append(subscribers, c)
    /\ since' = [since EXCEPT ![c] = event + 1]
    /\ UNCHANGED <<buffer, got, event, sending, waiting, late, panicked>>

\* StreamEvents writes an event to its client.
Read(c) ==
    /\ ~panicked
    /\ pc[c] = "streaming" /\ buffer[c] # <<>>
    /\ got' = [got EXCEPT ![c] = Append(@, Head(buffer[c]))]
    /\ buffer' = [buffer EXCEPT ![c] = Tail(@)]
    /\ UNCHANGED <<handlers, event, sending, waiting, late, panicked>>

\* Mutants: the channel stays on the list; the first one is taken off.
With(c)     == subscribers
WithoutFirst(c) == Tail(subscribers)

\* The list without a channel, which is found in a loop.
Without(c) == RemoveFirst(subscribers, c)

\* The client has gone: the function that Subscribe returned takes the channel off the
\* list and closes it, under subsMu.
Cancel(c) ==
    /\ ~panicked
    /\ pc[c] = "streaming"
    /\ pc' = [pc EXCEPT ![c] = "closed"]
    /\ subscribers' = Without(c)
    /\ UNCHANGED <<buffer, got, event, sending, waiting, since, late, panicked>>

\* publishStageEvent copies the list.
Publish ==
    /\ ~panicked
    /\ sending = <<>>
    /\ event < MaxEvents
    /\ event' = event + 1
    /\ sending' = subscribers
    /\ UNCHANGED <<handlers, buffer, got, waiting, late, panicked>>

\* Mutant: off by one.
HasRoomOrIsFull(c) == Len(buffer[c]) <= BufferSize

HasRoom(c) == Len(buffer[c]) < BufferSize

Sent == sending' = Tail(sending) /\ waiting' = FALSE

\* A send, in the first select or in the second.
Send ==
    LET c == Head(sending)
    IN  /\ ~panicked /\ sending # <<>>
        /\ pc[c] = "streaming" /\ HasRoom(c)
        /\ buffer' = [buffer EXCEPT ![c] = Append(@, event)]
        /\ Sent
        /\ UNCHANGED <<handlers, got, event, late, panicked>>

\* The buffer is full: the first select takes its default.
Wait ==
    /\ ~panicked /\ sending # <<>> /\ ~waiting
    /\ pc[Head(sending)] = "streaming" /\ ~HasRoom(Head(sending))
    /\ waiting' = TRUE
    /\ UNCHANGED <<handlers, buffer, got, event, sending, late, panicked>>

\* Mutant: the second select has no time.After.
NeverGiveUp == waiting /\ FALSE /\ UNCHANGED vars

\* One second has passed.
GiveUp ==
    /\ ~panicked /\ waiting
    /\ pc[Head(sending)] = "streaming" /\ ~HasRoom(Head(sending))
    /\ late' = late \cup {<<Head(sending), event>>}
    /\ Sent
    /\ UNCHANGED <<handlers, buffer, got, event, panicked>>

\* A send on a closed channel, whether the publisher waits for it or comes to it.
Panic ==
    /\ ~panicked /\ sending # <<>>
    /\ pc[Head(sending)] = "closed"
    /\ panicked' = TRUE
    /\ UNCHANGED <<handlers, buffer, got, event, sending, waiting, late>>

Publishing == Send \/ Wait \/ GiveUp \/ Panic

Next ==
    \/ \E c \in Clients : Subscribe(c) \/ Read(c) \/ Cancel(c)
    \/ Publish \/ Publishing

Spec == Init /\ [][Next]_vars

\* The publisher runs; handlers may be slow or stuck in a write to their client.
FairSpec == Spec /\ WF_vars(Publishing)

-----------------------------------------------------------------------------
(* Properties.                                                             *)

TypeOK ==
    /\ subscribers \in Seq(Clients)
    /\ buffer \in [Clients -> Seq(1 .. MaxEvents)]
    /\ \A c \in Clients : Len(buffer[c]) <= BufferSize
    /\ pc \in [Clients -> {"away", "streaming", "closed"}]
    /\ got \in [Clients -> Seq(1 .. MaxEvents)]
    /\ event \in 0 .. MaxEvents
    /\ sending \in Seq(Clients)
    /\ waiting \in BOOLEAN
    /\ since \in [Clients -> 0 .. MaxEvents + 1]
    /\ late \subseteq Clients \X (1 .. MaxEvents)
    /\ panicked \in BOOLEAN

\* What has come to a client, or is on its way.
Stream(c) == got[c] \o buffer[c]

\* The events since it subscribed, except for those that were given up and the one that it
\* is still being sent.
Due(c) ==
    {e \in since[c] .. event : <<c, e>> \notin late /\ ~(e = event /\ Contains(sending, c))}

InOrder(s) == \A i, j \in DOMAIN s : i < j => s[i] < s[j]

\* A client that is still there has each event since it subscribed, in order and once,
\* except for those that were given up because its buffer was full and that it is being
\* sent now: nothing is lost between the copy of the list and the sends.
StreamsComplete ==
    \A c \in Clients : pc[c] = "streaming" =>
        InOrder(Stream(c)) /\ Range(Stream(c)) = Due(c)

\* The process can end in a panic only through a client that left while an event was
\* being published; a client that leaves at another time is not sent to.
ClosedOnlyWhilePublishing ==
    [][\A c \in Clients : (sending = <<>> /\ pc[c] = "closed") => ~Contains(sending', c)]_vars

\* A client that does not read delays the pipeline but does not stop it.
PublishingEnds == [](sending # <<>> /\ ~panicked => <>(sending = <<>> \/ panicked))
=============================================================================
