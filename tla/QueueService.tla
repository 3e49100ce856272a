---------------------------- MODULE QueueService ----------------------------
(***************************************************************************)
(* What a consumer of an event queue expects of kaoliang: an event that is *)
(* sent is kept in order until one receiver takes it, and a receiver takes *)
(* the oldest events.  MessageQueue is the detailed specification.         *)
(*                                                                         *)
(* Events are numbered in the order they are sent.                         *)
(***************************************************************************)
EXTENDS Integers, Sequences

CONSTANTS Receivers,  \* the clients that receive from the queue
          MaxBatch,   \* most messages one request may take
          MaxSent     \* bound: events sent in one behaviour

VARIABLES queue,  \* the events waiting, oldest first
          inbox,  \* inbox[r]: the events receiver r was given, in order
          sent    \* number of events sent so far

abstractVars == <<queue, inbox, sent>>

Init ==
    /\ queue = <<>>
    /\ inbox = [r \in Receivers |-> <<>>]
    /\ sent = 0

Send ==
    /\ sent < MaxSent
    /\ sent' = sent + 1
    /\ queue' = Append(queue, sent')
    /\ UNCHANGED inbox

\* Receiver r takes the k oldest events in one step.
Take(r, k) ==
    /\ k <= Len(queue)
    /\ queue' = SubSeq(queue, k + 1, Len(queue))
    /\ inbox' = [inbox EXCEPT ![r] = @ \o SubSeq(queue, 1, k)]
    /\ UNCHANGED sent

Next == Send \/ \E r \in Receivers, k \in 1 .. MaxBatch : Take(r, k)

Spec == Init /\ [][Next]_abstractVars

-----------------------------------------------------------------------------

InQueue(m) == \E i \in 1 .. Len(queue) : queue[i] = m
InInbox(r, m) == \E i \in 1 .. Len(inbox[r]) : inbox[r][i] = m

\* Every event sent waits in the queue or was given to a receiver.
NothingLost ==
    \A m \in 1 .. sent : InQueue(m) \/ \E r \in Receivers : InInbox(r, m)

\* An event given to a receiver no longer waits and no other receiver has it.
NothingTwice ==
    \A r \in Receivers, m \in 1 .. sent :
        InInbox(r, m) => /\ ~InQueue(m)
                         /\ \A s \in Receivers \ {r} : ~InInbox(s, m)

\* Each receiver is given events in the order they were sent, none twice.
InOrder ==
    \A r \in Receivers : \A i, j \in 1 .. Len(inbox[r]) :
        i < j => inbox[r][i] < inbox[r][j]
=============================================================================
