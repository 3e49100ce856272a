---------------------------- MODULE MessageQueue ----------------------------
(***************************************************************************)
(* One SQS queue of kaoliang: a Redis list under the key                   *)
(* "sqs:<account>:<name>".  The S3 proxy appends an event with one RPUSH   *)
(* (sendEvent, pkg/controllers/notification.go).  ReceiveMessage           *)
(* (pkg/controllers/queue.go) reads the head of the list with LRANGE,      *)
(* drops the head with LTRIM in a second call, and answers.  Nothing holds *)
(* the list between the two calls, and the errors of both are discarded.   *)
(*                                                                         *)
(* Events are numbered in the order they reach the list.  The queue's row  *)
(* in the database is not here: ReceiveMessage looks it up, but a lookup   *)
(* that fails only writes an extra empty body and the handler goes on.     *)
(* Requests that are refused before line 213 touch nothing.                *)
(***************************************************************************)
EXTENDS Integers, Sequences

CONSTANTS Receivers,  \* requests in progress at once, one per client
          Requests,   \* values clients pass as MaxNumberOfMessages
          MaxBatch,   \* the handler's cap on it (10 in the code)
          IntMax,     \* largest integer strconv.Atoi accepts
          MaxSent,    \* bound: events pushed in one behaviour
          MaxFaults   \* bound: faults in one behaviour

ASSUME BatchAssumption == MaxBatch \in Nat \ {0} /\ IntMax \in Nat
ASSUME BoundAssumption == MaxSent \in Nat /\ MaxFaults \in Nat

VARIABLES list,     \* the Redis list, head first
          pc,       \* pc[r]: next call of r's handler
          max,      \* maxMsgNum of r's handler
          batch,    \* bodys of r's handler: what LRANGE returned
          sent,     \* history: events pushed
          trimmed,  \* history: events LTRIM removed
          got,      \* history: got[r], the messages in answers r received
          clean,    \* history: no race and no fault so far
          missed,   \* history: clients one of whose trims failed
          faults    \* history: faults so far

vars == <<list, pc, max, batch, sent, trimmed, got, clean, missed, faults>>

Smaller(a, b) == IF a < b THEN a ELSE b

\* Variant: the cap is forgotten.
BatchSizeUncapped(raw) == IF raw \notin 1 .. IntMax THEN 1 ELSE raw

\* The batch size of a request.  A value that is absent, not a number or too
\* large for Atoi counts as 1, like one that is not positive.
BatchSize(raw) ==
    IF raw \notin 1 .. IntMax THEN 1 ELSE Smaller(raw, MaxBatch)

Init ==
    /\ list = <<>>
    /\ pc = [r \in Receivers |-> "idle"]
    /\ max = [r \in Receivers |-> 1]
    /\ batch = [r \in Receivers |-> <<>>]
    /\ sent = 0
    /\ trimmed = 0
    /\ got = [r \in Receivers |-> <<>>]
    /\ clean = TRUE
    /\ missed = {}
    /\ faults = 0

-----------------------------------------------------------------------------
(* The races and the faults that `clean' records. *)

\* r has read fewer messages than it is about to trim.
ShortRead(r) == pc[r] = "trim" /\ Len(batch[r]) < max[r]

\* Another handler is between its read and its trim.
OtherOpen(r) == \E s \in Receivers \ {r} : pc[s] = "trim"

Fault ==
    /\ faults < MaxFaults
    /\ faults' = faults + 1
    /\ clean' = FALSE

-----------------------------------------------------------------------------
(* The actions. *)

\* One event becomes an element of the list.
Enqueue(newList) ==
    /\ sent < MaxSent
    /\ sent' = sent + 1
    /\ list' = newList
    /\ clean' = (clean /\ \A r \in Receivers : ~ShortRead(r))
    /\ UNCHANGED <<pc, max, batch, trimmed, got, missed, faults>>

\* Variant: LPUSH instead of RPUSH.
PushAtHead == Enqueue(<<sent + 1>> \o list)

\* sendEvent: RPUSH of one event.
Push == Enqueue(Append(list, sent + 1))

\* The handler of r has computed maxMsgNum and its read returned `bodys'.
HaveRead(r, raw, bodys) ==
    /\ pc[r] = "idle"
    /\ pc' = [pc EXCEPT ![r] = "trim"]
    /\ max' = [max EXCEPT ![r] = BatchSize(raw)]
    /\ batch' = [batch EXCEPT ![r] = bodys]
    /\ UNCHANGED <<list, sent, trimmed, got, missed>>

\* The first n messages, or all when there are fewer.
FirstOf(n) == SubSeq(list, 1, Smaller(n, Len(list)))

\* Variant: LRANGE key 0 maxMsgNum, one message too many.
ReadOneMore(r, raw) ==
    HaveRead(r, raw, FirstOf(BatchSize(raw) + 1)) /\ UNCHANGED <<clean, faults>>

\* ReceiveMessage reads LRANGE key 0 maxMsgNum-1.
Read(r, raw) ==
    HaveRead(r, raw, FirstOf(BatchSize(raw))) /\ UNCHANGED <<clean, faults>>

\* The LRANGE fails; its error is dropped and the handler has no messages.
ReadFails(r, raw) == HaveRead(r, raw, <<>>) /\ Fault

\* LTRIM key n -1: the first n messages of the list as it is now go.
TrimBy(r, n) ==
    /\ pc[r] = "trim"
    /\ pc' = [pc EXCEPT ![r] = "reply"]
    /\ list' = SubSeq(list, n + 1, Len(list))
    /\ trimmed' = trimmed + Smaller(n, Len(list))
    /\ clean' = (clean /\ (list = <<>> \/ ~OtherOpen(r)))
    /\ UNCHANGED <<max, batch, sent, got, missed, faults>>

\* Variant: the trim starts at the index the read ended with.
TrimFromLastRead(r) == TrimBy(r, max[r] - 1)

\* The trim removes maxMsgNum messages, whatever the read returned.
Trim(r) == TrimBy(r, max[r])

\* The LTRIM fails; nobody looks at its error.
TrimFails(r) ==
    /\ pc[r] = "trim"
    /\ Fault
    /\ pc' = [pc EXCEPT ![r] = "reply"]
    /\ missed' = missed \union {r}
    /\ UNCHANGED <<list, max, batch, sent, trimmed, got>>

\* The handler ends; what the client has got is `history'.
Finish(r, history) ==
    /\ pc[r] = "reply"
    /\ pc' = [pc EXCEPT ![r] = "idle"]
    /\ got' = [got EXCEPT ![r] = history]
    /\ batch' = [batch EXCEPT ![r] = <<>>]
    /\ UNCHANGED <<list, max, sent, trimmed, missed>>

\* The answer with the messages read reaches the client.
Reply(r) == Finish(r, got[r] \o batch[r]) /\ UNCHANGED <<clean, faults>>

\* The client has gone and the answer is lost.
ReplyLost(r) == Finish(r, got[r]) /\ Fault

\* The server process stops and systemd restarts it: every request in
\* progress ends without an answer, the Redis list stays.
Restart ==
    /\ \E r \in Receivers : pc[r] # "idle"
    /\ Fault
    /\ pc' = [r \in Receivers |-> "idle"]
    /\ batch' = [r \in Receivers |-> <<>>]
    /\ UNCHANGED <<list, max, sent, trimmed, got, missed>>

Next ==
    \/ Push
    \/ Restart
    \/ \E r \in Receivers :
          \/ \E raw \in Requests : Read(r, raw) \/ ReadFails(r, raw)
          \/ Trim(r) \/ TrimFails(r)
          \/ Reply(r) \/ ReplyLost(r)

Spec == Init /\ [][Next]_vars

\* The behaviours without a race or a fault.
CleanSpec == Init /\ [][Next /\ clean']_vars

-----------------------------------------------------------------------------
(* Properties. *)

TypeOK ==
    /\ list \in Seq(Nat)
    /\ pc \in [Receivers -> {"idle", "trim", "reply"}]
    /\ max \in [Receivers -> 1 .. MaxBatch]
    /\ batch \in [Receivers -> Seq(Nat)]
    /\ sent \in 0 .. MaxSent
    /\ trimmed \in 0 .. MaxSent
    /\ got \in [Receivers -> Seq(Nat)]
    /\ clean \in BOOLEAN
    /\ missed \in SUBSET Receivers
    /\ faults \in 0 .. MaxFaults

\* However receivers and producers interleave, the list holds exactly the
\* events no trim has removed, in the order they were pushed.
ListIsUntrimmed ==
    /\ Len(list) = sent - trimmed
    /\ \A i \in 1 .. Len(list) : list[i] = trimmed + i

\* A receiver in its window has read no event that lies beyond the ones its
\* trim will remove: what it answers with leaves the list.
TrimCoversRead ==
    \A r \in Receivers : pc[r] = "trim" =>
        \A i \in 1 .. Len(batch[r]) : batch[r][i] <= trimmed + max[r]

\* A client gets events in the order they were sent and none twice, as long
\* as none of its own trims failed (queue.go:238-239): whatever producers and
\* other clients do meanwhile, failures and restarts included.
ClientOrder ==
    \A r \in Receivers \ missed : \A i, j \in 1 .. Len(got[r]) :
        i < j => got[r][i] < got[r][j]

\* What a client has, or will have when its answer arrives.
Inbox == [r \in Receivers |->
            got[r] \o (IF pc[r] = "reply" THEN batch[r] ELSE <<>>)]

Q == INSTANCE QueueService WITH queue <- list, inbox <- Inbox

\* As long as no event was pushed between the short read and the trim of one
\* receiver, and no two receivers overlapped on a list that is not empty,
\* every event is in the list or was given to a client, to only one.
ExactlyOnceIfClean == clean => Q!NothingLost /\ Q!NothingTwice

\* Until such a race or fault every step of the handlers is a step of the queue whose
\* receive is one step, or does not change it.
ServiceUntilRace == [][clean' => [Q!Next]_(Q!abstractVars)]_vars

\* Hence, without a race or fault, the two-call receive implements that queue.
QueueSpec == Q!Spec
=============================================================================
