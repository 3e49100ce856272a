--------------------------- MODULE MCQueueLifetime ---------------------------
(***************************************************************************)
(* Instances of MessageQueue and QueueLifetime for TLC.  The cap is 2      *)
(* instead of 10 and the requests meet every branch of BatchSize: 0 (not   *)
(* positive), 3 (above the cap) and 4 (above IntMax, which Atoi refuses).  *)
(***************************************************************************)
EXTENDS QueueLifetime, TLC

MCRequests == {0, 3, 4}
Symmetry == Permutations(Receivers)
=============================================================================
