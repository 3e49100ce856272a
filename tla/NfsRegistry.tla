---------------------------- MODULE NfsRegistry ----------------------------
(***************************************************************************)
(* What NFS-Ganesha and the operator expect of the export configuration:   *)
(* the users that are exported, each under an export id of its own.  A     *)
(* user is exported and unexported in one step, and no other user with it. *)
(* NfsExport is the detailed specification.                                *)
(***************************************************************************)
CONSTANTS Users,
          Ids,   \* the export ids
          NoId   \* what a user gets when every id is taken

VARIABLE exported  \* a function from the users that are exported to their ids

Exported == DOMAIN exported

IdsDiffer == \A u, v \in Exported : u # v /\ exported[u] = exported[v] => exported[u] = NoId

Init == (\E some \in SUBSET Users : exported \in [some -> Ids \union {NoId}]) /\ IdsDiffer

IsFree(id) == \A u \in Exported : exported[u] # id

Export(u, id) ==
    /\ u \notin Exported
    /\ id = NoId \/ IsFree(id)
    /\ exported' = [v \in Exported \union {u} |-> IF v = u THEN id ELSE exported[v]]

Unexport(u) ==
    /\ u \in Exported
    /\ exported' = [v \in Exported \ {u} |-> exported[v]]

Next == \E u \in Users : Unexport(u) \/ \E id \in Ids \union {NoId} : Export(u, id)

Spec == Init /\ [][Next]_exported
=============================================================================
