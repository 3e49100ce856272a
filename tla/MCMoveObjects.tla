---------------------------- MODULE MCMoveObjects ----------------------------
(***************************************************************************)
(* Requests for TLC.                                                       *)
(***************************************************************************)
EXTENDS MoveObjects

CONSTANTS a, b, c, d, e

Move(from, to) == [from |-> from, named |-> from, to |-> to]

\* Two objects are swapped, a third one is moved meanwhile.
SwapAndMove == <<Move(a, b), Move(b, a), Move(c, d)>>

\* The CopySource of the first job is written with an escape: the store copies
\* a, the handler deletes the key e that the text spells.
Escaped == <<[from |-> a, named |-> e, to |-> b], Move(c, d)>>
=============================================================================
