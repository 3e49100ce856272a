---------------------------- MODULE NfsMigration ----------------------------
(***************************************************************************)
(* The program that takes subusers out of the exports                      *)
(* (nfs/remove_subuser_workaround.go), run once while the proxy goes on    *)
(* adding and removing exports (NfsExport).  An earlier proxy wrote        *)
(* exports for a subuser; the program writes each export that it finds in  *)
(* the list and that is such a one again, for the user and under the same  *)
(* id.  It does not come to every export: its expressions take letters,    *)
(* digits and the hyphen in a uid and in the name of a subuser, and it     *)
(* leaves out a user without keys (odd).                                   *)
(*                                                                         *)
(* One step is one call; the two calls that read an export are one step,   *)
(* for it makes no difference at which of them the export is missing.      *)
(***************************************************************************)
EXTENDS NfsExport

CONSTANT MaxOdd       \* bound: users that are odd

ASSUME OddAssumption == MaxOdd \in Nat

VARIABLES old,        \* the users whose export is for a subuser
          odd,        \* odd[u]: what is unusual of user u (Oddities)
          migration   \* what the program is doing

migrationVars == <<vars, old, odd, migration>>

\* Other characters in the uid, or in the name of the subuser; a user that may be without
\* keys.
Oddities == {"none", "uid", "subuser", "keys"}

MigrationInit ==
    /\ \E some \in SUBSET (Users \ Unexported) : \E ids \in [some -> Ids \union {NoId}] :
          /\ \A u, v \in some : u # v /\ ids[u] = ids[v] => ids[u] = NoId
          /\ Exporting(ids)
          /\ old \in SUBSET some
    /\ odd \in [Users -> Oddities]
    /\ Cardinality({u \in Users : odd[u] # "none"}) <= MaxOdd
    /\ migration = [at |-> "start", size |-> 0, todo |-> <<>>, id |-> 0]

\* The proxy writes an export for the user, or deletes it.
ProxyStep ==
    /\ Next
    /\ old' = old \ {handler[h].user : h \in {g \in Handlers : WriteObject(g) \/ DeleteObject(g)}}
    /\ UNCHANGED <<odd, migration>>

-----------------------------------------------------------------------------
MigrationAt(step) == migration.at = step
MigrationGoesOn(step) == migration' = [migration EXCEPT !.at = step]

\* The users that are still to do are known by their place in the list.
Place == Min(DOMAIN migration.todo)
Current == migration.todo[Place]
NoneLeft == DOMAIN migration.todo = {}

pool == <<list, object, old>>

\* The next export in the list.
NextExport == migration' = [migration EXCEPT !.at = "loop", !.todo = Restrict(@, DOMAIN @ \ {Place})]

\* The panic of a match that is not there ends the program.
MigrationDies == MigrationGoesOn("died") /\ migrating' = Nobody

StatExports ==
    /\ MigrationAt("start")
    /\ migration' = [migration EXCEPT !.at = "list", !.size = Len(list)]
    /\ UNCHANGED <<pool, migrating, mishaps>>

\* Variant: FindStringSubmatch, which finds one.
FirstNamed(data) ==
    Restrict(data, {i \in DOMAIN data : i = 1 /\ data[i] # Zeros /\ odd[data[i]] # "uid"})

\* The users that the expression finds in what has been read: it skips an entry whose uid
\* has another character.
Named(data) == Restrict(data, {i \in DOMAIN data : data[i] # Zeros /\ odd[data[i]] # "uid"})

ReadExports ==
    /\ MigrationAt("list")
    /\ migration' = [migration EXCEPT !.at = "loop", !.todo = Named(ReadBuffer(migration.size))]
    /\ UNCHANGED <<pool, migrating, mishaps>>

\* Variant: the expression for the user wants a subuser.
UnreadableUnlessOld(u) == object[u].content = 0 \/ u \notin old

\* The export is gone, or has no text, or is for a subuser and the subuser's name or the id
\* does not match.
Unreadable(u) ==
    \/ object[u].content = 0
    \/ u \in old /\ (odd[u] = "subuser" \/ object[u].content = NoId)

ReadExport ==
    /\ MigrationAt("loop") /\ ~NoneLeft
    /\ IF Unreadable(Current) THEN MigrationDies /\ UNCHANGED mishaps
       ELSE IF Current \notin old THEN NextExport /\ UNCHANGED <<migrating, mishaps>>
       ELSE /\ migration' = [migration EXCEPT !.at = "info", !.id = object[Current].content]
            /\ migrating' = Current
            /\ mishaps' = mishaps \union (IF Busy(Current) THEN {"sameUser"} ELSE {})
    /\ UNCHANGED pool

\* radosgw-admin user info fails when there is no such user; a user without keys is left
\* out like one without an answer.
LoadUser ==
    /\ MigrationAt("info")
    /\ \/ Current \in users /\ MigrationGoesOn("write") /\ UNCHANGED migrating
       \/ (Current \notin users \/ odd[Current] = "keys") /\ NextExport /\ migrating' = Nobody
    /\ UNCHANGED <<pool, mishaps>>

\* WriteFull and SetXattr create the object when there is none.
RewriteExport ==
    /\ MigrationAt("write")
    /\ object' = [object EXCEPT ![Current].exists = TRUE, ![Current].content = migration.id]
    /\ old' = old \ {Current}
    /\ MigrationGoesOn("pseudo")
    /\ UNCHANGED <<list, migrating, mishaps>>

RewritePseudo ==
    /\ MigrationAt("pseudo")
    /\ object' = [object EXCEPT ![Current].exists = TRUE]
    /\ MigrationGoesOn("attribute")
    /\ UNCHANGED <<list, old, migrating, mishaps>>

RewriteId ==
    /\ MigrationAt("attribute")
    /\ object' = [object EXCEPT ![Current].exists = TRUE, ![Current].id = migration.id]
    /\ NextExport /\ migrating' = Nobody
    /\ UNCHANGED <<list, old, mishaps>>

MigrationEnds ==
    /\ MigrationAt("loop") /\ NoneLeft
    /\ MigrationGoesOn("done")
    /\ UNCHANGED <<pool, migrating, mishaps>>

\* A call fails: the errors of the pool's are dropped, a user without an answer is left
\* out.
MigrationCallFails ==
    /\ \/ MigrationAt("list") /\ MigrationGoesOn("loop") /\ UNCHANGED migrating
       \/ MigrationAt("loop") /\ ~NoneLeft /\ MigrationDies
       \/ MigrationAt("info") /\ NextExport /\ migrating' = Nobody
       \/ MigrationAt("write") /\ MigrationGoesOn("pseudo") /\ UNCHANGED migrating
       \/ MigrationAt("pseudo") /\ MigrationGoesOn("attribute") /\ UNCHANGED migrating
       \/ MigrationAt("attribute") /\ NextExport /\ migrating' = Nobody
    /\ faults < MaxFaults /\ faults' = faults + 1
    /\ mishaps' = mishaps \union {"fault"}
    /\ UNCHANGED pool

MigrationStep ==
    /\ \/ MigrationCallFails
       \/ /\ \/ StatExports \/ ReadExports \/ ReadExport \/ LoadUser
             \/ RewriteExport \/ RewritePseudo \/ RewriteId \/ MigrationEnds
          /\ UNCHANGED faults
    /\ UNCHANGED <<odd, users, handler, requests>>

MigrationNext == ProxyStep \/ MigrationStep

MigrationSpec == MigrationInit /\ [][MigrationNext]_migrationVars

-----------------------------------------------------------------------------
\* "only update ganesha config which use subuser" (line 84): when the program has come to
\* its end no export is for a subuser but one that the proxy is just writing or removing,
\* one whose uid the expression does not take, and one of a user who may be without keys,
\* unless a list was written back out of date or a call failed.
NoSubuserLeft ==
    MigrationAt("done") /\ Free({"staleList", "fault"}) =>
        \A u \in old : Busy(u) \/ odd[u] \in {"uid", "keys"}

\* It dies only of an export that was removed after the program had read the list, or that
\* is for a subuser whose name the expression does not take, or that has the id -1, unless
\* two were at work for one user, a list was written back out of date or a call failed.
DiesOfRemoval ==
    [][MigrationAt("loop") /\ migration'.at = "died"
          /\ mishaps' \intersect {"sameUser", "staleList", "fault"} = {} =>
          \/ Current \notin Listed
          \/ Current \in old /\ (odd[Current] = "subuser" \/ object[Current].content = NoId)
      ]_migrationVars
=============================================================================
