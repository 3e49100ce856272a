---------------------------- MODULE MCNfsUpdater ----------------------------
(* Two users, with a name of their own, with one name, and with a long one. *)
EXTENDS NfsUpdater

CONSTANTS u1, u2, own, other, long

MCNamings == {[u \in Users |-> IF u = u1 THEN own ELSE name] : name \in {own, other, long}}
=============================================================================
