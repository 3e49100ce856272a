---------------------------- MODULE QueueLifetime ----------------------------
(***************************************************************************)
(* The Redis list of MessageQueue outlives the queues it stands for.       *)
(* CreateQueue and DeleteQueue write a row of the database and leave the   *)
(* list alone (pkg/controllers/queue.go); the next queue of that account   *)
(* and name has the same list.  sendEvent reads the row before it pushes   *)
(* (pkg/controllers/notification.go), and ReceiveMessage looks for the row *)
(* but goes on without one.                                                *)
(*                                                                         *)
(* The rows of the queue are numbered.  That two CreateQueue at once may   *)
(* make two rows is the subject of ResourceStore.                          *)
(***************************************************************************)
EXTENDS MessageQueue

CONSTANT MaxRows   \* bound: queues created in one behaviour

ASSUME RowsAssumption == MaxRows \in Nat

VARIABLES row,      \* the last row; 0 before the first
          exists,   \* it is not deleted
          sending,  \* the row that sendEvent has read and not pushed for yet, or 0
          rowOf,    \* history: rowOf[e], the row that event e was pushed for
          left      \* history: the rows that were deleted with an event in the list or
                    \* on its way

rowVars == <<row, exists, sending, rowOf, left>>
lifeVars == <<vars, rowVars>>

LifeInit ==
    /\ Init
    /\ row = 0 /\ exists = FALSE
    /\ sending = 0
    /\ rowOf = <<>>
    /\ left = {}

CreateQueue ==
    /\ ~exists /\ row < MaxRows
    /\ row' = row + 1 /\ exists' = TRUE
    /\ UNCHANGED <<vars, sending, rowOf, left>>

HasEvents == sending = row \/ \E i \in 1 .. Len(list) : rowOf[list[i]] = row

DeleteQueue ==
    /\ exists
    /\ exists' = FALSE
    /\ left' = IF HasEvents THEN left \union {row} ELSE left
    /\ UNCHANGED <<vars, row, sending, rowOf>>

\* Variant: a row that is marked as deleted is found too.
FoundUnscoped == row # 0

\* Preload("Queues.Resource").
Found == exists

LoadQueue ==
    /\ sending = 0 /\ Found
    /\ sending' = row
    /\ UNCHANGED <<vars, row, exists, rowOf, left>>

PushEvent ==
    /\ sending # 0
    /\ Push
    /\ rowOf' = Append(rowOf, sending)
    /\ sending' = 0
    /\ UNCHANGED <<row, exists, left>>

\* RPUSH fails and its error is dropped, or the proxy stops.
PushFails ==
    /\ sending # 0
    /\ sending' = 0
    /\ UNCHANGED <<vars, row, exists, rowOf, left>>

\* ReceiveMessage looks for the row first, and goes on whatever it finds.
ServeReceives ==
    /\ Restart \/ \E r \in Receivers : \/ \E raw \in Requests : Read(r, raw) \/ ReadFails(r, raw)
                                      \/ Trim(r) \/ TrimFails(r)
                                      \/ Reply(r) \/ ReplyLost(r)
    /\ UNCHANGED rowVars

LifeNext ==
    \/ CreateQueue \/ DeleteQueue
    \/ LoadQueue \/ PushEvent \/ PushFails
    \/ ServeReceives

LifeSpec == LifeInit /\ [][LifeNext]_lifeVars

-----------------------------------------------------------------------------
\* What a client is given next was sent to the queue there is, or to one that was deleted
\* when an event of it was in the list or about to be pushed (queue.go:174): a queue that
\* was drained before it was deleted leaves nothing to its successor, whatever is sent
\* and received meanwhile.
OnlyLeftoversOutlive ==
    \A i \in 1 .. Len(list) :
        LET sentTo == rowOf[list[i]] IN sentTo \in left \/ (exists /\ sentTo = row)
=============================================================================
