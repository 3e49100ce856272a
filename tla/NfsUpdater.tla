------------------------------ MODULE NfsUpdater ------------------------------
(***************************************************************************)
(* The daemon that brings the exports of users to NFS-Ganesha on one host  *)
(* (nfs/nfs_updater_daemon.go).  It polls the object `export': when that   *)
(* is newer than the local copy, it reads the list piece by piece, writes  *)
(* the copy, signals NFS-Ganesha, which adds what is new, and then removes *)
(* over D-Bus the exports whose objects are gone.                          *)
(*                                                                         *)
(* The proxies change the list and the objects as NfsExport has it; here   *)
(* one user is added or removed at a time, in two steps: an object is      *)
(* written before its entry is appended, and an entry goes before its      *)
(* object.  Times are in seconds, and many things happen within one.  The  *)
(* host's clock and that of the object store agree.                        *)
(*                                                                         *)
(* The daemon and NFS-Ganesha know an export by its path, and that is the  *)
(* display name of the user: two users may have the same one.              *)
(***************************************************************************)
EXTENDS Integers, Sequences, FiniteSets, SequencesExt

CONSTANTS Users,
          Names,       \* display names, and so paths of exports
          Long,        \* those of more than a hundred bytes
          Namings,     \* who is called what: functions from users to names
          Ids,         \* export ids
          Piece,       \* entries read at a time (fifty bytes in the code)
          MaxTime,     \* bound: seconds
          MaxChanges,  \* bound: users added and removed
          MaxFaults    \* bound: failing calls and restarts

ASSUME NamesAssumption == Long \subseteq Names /\ Namings \subseteq [Users -> Names]
ASSUME IdsAssumption == Ids \subseteq Nat \ {0}
ASSUME PieceAssumption == Piece \in Nat \ {0}
ASSUME BoundAssumption == MaxTime \in Nat /\ MaxChanges \in Nat /\ MaxFaults \in Nat

VARIABLES clock,    \* the second it is
          list,     \* the object `export': users, in order
          mtime,    \* when it was last written
          path,     \* path[u]: the display name of a user, which is the path of his export
          object,   \* object[u]: the export id of export_<u>, 0 when there is none
          change,   \* the change of a user that is half done
          local,    \* the local copy: whether it exists, what it has, when written
          pid,      \* the process of NFS-Ganesha, 0 when it is not running
          starts,   \* how often it was started
          signal,   \* a SIGHUP has reached it
          exports,  \* what it exports: <<id, path>>
          upd,      \* what the daemon is doing
          missed,   \* history: what the last update cannot have seen or done
          changes,  \* history: changes so far
          faults    \* history: faults so far

pool == <<list, mtime, path, object, change, changes>>
ganesha == <<pid, starts, signal, exports>>
vars == <<clock, pool, local, ganesha, upd, missed, faults>>

Asleep == [at |-> "sleep"]
Gone == [at |-> "gone"]
NoChange == [op |-> "none"]

Init ==
    /\ clock = 0
    /\ list = <<>> /\ mtime = 0
    /\ path \in Namings
    /\ object = [u \in Users |-> 0]
    /\ change = NoChange
    /\ local = [exists |-> FALSE, data |-> <<>>, mtime |-> 0]
    /\ pid = 1 /\ starts = 1 /\ signal = FALSE /\ exports = {}
    /\ upd = Asleep
    /\ missed = {} /\ changes = 0 /\ faults = 0

NoFault == UNCHANGED faults
Fault == faults < MaxFaults /\ faults' = faults + 1
Misses(what) == missed' = missed \union what
If(condition, what) == IF condition THEN {what} ELSE {}
In(seq) == {seq[i] : i \in DOMAIN seq}
PathsOf(users) == {path[u] : u \in users}

Tick ==
    /\ clock < MaxTime
    /\ clock' = clock + 1
    /\ UNCHANGED <<pool, local, ganesha, upd, missed, faults>>

-----------------------------------------------------------------------------
(* The proxies (addNfsExport and removeNfsExport). *)

At(at) == upd.at = at

\* The list is written in this second.  The daemon cannot see that when it has read a
\* part of the list already, or when it has written its copy in this second too.
ListBecomes(newList) ==
    /\ list' = newList
    /\ mtime' = clock
    /\ LET reading == (At("read") /\ upd.data # <<>>) \/ At("write")
       IN  /\ upd' = IF reading THEN [upd EXCEPT !.dirty = TRUE] ELSE upd
           /\ Misses(If(/\ ~At("read") /\ ~At("write")
                        /\ local.exists /\ clock <= local.mtime, "list"))

\* generateExportId.
FreeId(id) == \A u \in Users : object[u] # id

WriteObject(u, id) ==
    /\ change = NoChange /\ changes < MaxChanges
    /\ object[u] = 0 /\ u \notin In(list)
    /\ FreeId(id)
    /\ object' = [object EXCEPT ![u] = id]
    /\ change' = [op |-> "add", user |-> u]
    /\ changes' = changes + 1
    /\ UNCHANGED <<clock, list, mtime, path, local, ganesha, upd, missed, faults>>

AppendEntry ==
    /\ change.op = "add"
    /\ ListBecomes(Append(list, change.user))
    /\ change' = NoChange
    /\ UNCHANGED <<clock, path, object, changes, local, ganesha, faults>>

RemoveEntry(u) ==
    /\ change = NoChange /\ changes < MaxChanges
    /\ u \in In(list)
    /\ ListBecomes(RemoveFirst(list, u))
    /\ change' = [op |-> "remove", user |-> u]
    /\ changes' = changes + 1
    /\ UNCHANGED <<clock, path, object, local, ganesha, faults>>

DeleteObject ==
    /\ change.op = "remove"
    /\ object' = [object EXCEPT ![change.user] = 0]
    /\ change' = NoChange
    /\ UNCHANGED <<clock, list, mtime, path, changes, local, ganesha, upd, missed, faults>>

Publish == AppendEntry \/ DeleteObject

-----------------------------------------------------------------------------
(* NFS-Ganesha, as far as the daemon relies on it: a SIGHUP adds exports   *)
(* and neither updates nor deletes any (nfs_updater_daemon.go:216).        *)

Entry(u) == <<object[u], path[u]>>
Configured == {u \in In(local.data) : object[u] # 0}

\* One id with two paths, or one path with two ids.
Clash(e, f) == (e[1] = f[1]) # (e[2] = f[2])

\* What it has when it had old: it takes the entries in some order and refuses those that
\* clash with what it has.
Takes(old) ==
    {new \in SUBSET (old \union {Entry(u) : u \in Configured}) :
        /\ old \subseteq new
        /\ \A e, f \in new : ~Clash(e, f)
        /\ \A u \in Configured : Entry(u) \in new \/ \E e \in new : Clash(e, Entry(u))}

\* A user has his own export, or shares that of a user with the same name.
Alone(u) == \A v \in Users : path[v] = path[u] => v = u
Served(u, exported) ==
    IF Alone(u) THEN Entry(u) \in exported ELSE \E e \in exported : e[2] = path[u]

Reload ==
    /\ pid # 0 /\ signal
    /\ signal' = FALSE
    /\ exports' \in Takes(exports)
    /\ Misses(If(\E u \in Configured : ~Served(u, exports'), "addition"))
    /\ UNCHANGED <<clock, pool, local, pid, starts, upd, faults>>

Stop ==
    /\ pid # 0
    /\ pid' = 0 /\ signal' = FALSE /\ exports' = {}
    /\ Fault
    /\ UNCHANGED <<clock, pool, local, starts, upd, missed>>

Start ==
    /\ pid = 0
    /\ pid' = starts + 1 /\ starts' = starts + 1
    /\ exports' \in Takes({})
    /\ UNCHANGED <<clock, pool, local, signal, upd, missed, faults>>

-----------------------------------------------------------------------------
(* execute, once per poll. *)

others == <<clock, pool, ganesha>>

\* Variant: a copy is taken for new whatever its time.
NeedToUpdateOnce == ~local.exists

\* needToUpdate.
NeedToUpdate == ~local.exists \/ mtime > local.mtime

\* Otherwise, without a process, or when Stat fails, it sleeps on.
Poll ==
    /\ At("sleep") /\ pid # 0
    /\ NeedToUpdate
    /\ upd' = [at |-> "read", pid |-> pid, data |-> <<>>, dirty |-> FALSE,
               paths |-> {}, todo |-> {}]
    /\ UNCHANGED <<others, local, missed>> /\ NoFault

\* getExport: pieces until one is short.
ReadPiece ==
    /\ At("read")
    /\ LET offset == Len(upd.data)
           piece == SubSeq(list, offset + 1,
                           IF offset + Piece < Len(list) THEN offset + Piece ELSE Len(list))
       IN  upd' = [upd EXCEPT !.data = @ \o piece,
                              !.at = IF Len(piece) = Piece THEN "read" ELSE "write"]
    /\ UNCHANGED <<others, local, missed>> /\ NoFault

\* A Read that fails has no bytes, as at the end of the list.
ReadFails ==
    /\ At("read")
    /\ upd' = [upd EXCEPT !.at = "write", !.dirty = TRUE]
    /\ UNCHANGED <<others, local, missed>> /\ Fault

\* ioutil.WriteFile.
Write ==
    /\ At("write")
    /\ local' = [exists |-> TRUE, data |-> upd.data, mtime |-> clock]
    /\ missed' = If(upd.dirty, "list")
    /\ upd' = [upd EXCEPT !.at = "signal"]
    /\ UNCHANGED others /\ NoFault

\* It opens the file, which empties it, and cannot write; or it cannot open it.
WriteFails ==
    /\ At("write")
    /\ \/ local' = [exists |-> TRUE, data |-> <<>>, mtime |-> clock] /\ missed' = {"list"}
       \/ UNCHANGED <<local, missed>>
    /\ upd' = [upd EXCEPT !.at = "signal"]
    /\ UNCHANGED others /\ Fault

\* Variant: nothing is signalled.
SignalNone ==
    /\ At("signal")
    /\ upd' = [upd EXCEPT !.at = "paths"]
    /\ UNCHANGED <<others, local, missed>> /\ NoFault

\* reloadExport; the process it has found may have gone.
Signal ==
    /\ At("signal")
    /\ IF pid = upd.pid THEN signal' = TRUE /\ UNCHANGED missed
       ELSE UNCHANGED signal /\ Misses({"addition"})
    /\ upd' = [upd EXCEPT !.at = "paths"]
    /\ UNCHANGED <<clock, pool, local, pid, starts, exports>> /\ NoFault

\* loadConfiguredPaths: a name of more than a hundred bytes does not fit GetXattr's buffer.
Paths == PathsOf({u \in Users : object[u] # 0}) \ Long

LoadPaths ==
    /\ At("paths")
    /\ upd' = [upd EXCEPT !.at = "exports", !.paths = Paths]
    /\ Misses(If(change.op = "remove", "removal"))
    /\ UNCHANGED <<others, local>> /\ NoFault

\* ListObjects or a GetXattr fails.
LoadPathsFails ==
    /\ At("paths")
    /\ \E some \in SUBSET Paths : upd' = [upd EXCEPT !.at = "exports", !.paths = some]
    /\ Misses({"addition"} \union If(change.op = "remove", "removal"))
    /\ UNCHANGED <<others, local>> /\ Fault

StaleExports == {e \in exports : e[2] \notin upd.paths}

\* listEnabledExport, and the loop that looks for those without an object.
ListExports ==
    /\ At("exports")
    /\ upd' = IF pid = 0 THEN Asleep
              ELSE [upd EXCEPT !.at = "disable",
                       !.todo = StaleExports]
    /\ UNCHANGED <<others, local, missed>> /\ NoFault

\* No answer over D-Bus: the update ends.
ListExportsFails ==
    /\ At("exports")
    /\ upd' = Asleep
    /\ Misses({"removal"})
    /\ UNCHANGED <<others, local>> /\ Fault

ToDo == IF At("disable") THEN upd.todo ELSE {}

\* Variant: no export goes.
DisabledNone(e) == {}

\* RemoveExport is told an id.
Disabled(e) == {x \in exports : x[1] = e[1]}

Disable(e) ==
    /\ exports' = exports \ Disabled(e)
    /\ upd' = [upd EXCEPT !.todo = @ \ {e}]
    /\ Misses(If(pid # upd.pid, "addition"))
    /\ UNCHANGED <<clock, pool, local, pid, starts, signal>> /\ NoFault

DisableFails(e) ==
    /\ upd' = [upd EXCEPT !.todo = @ \ {e}]
    /\ Misses({"removal"})
    /\ UNCHANGED <<others, local>> /\ Fault

Done ==
    /\ At("disable") /\ upd.todo = {}
    /\ upd' = Asleep
    /\ UNCHANGED <<others, local, missed>> /\ NoFault

\* The daemon ends: it is killed, or a call to the object store fails (log.Fatal).
Crash ==
    /\ ~At("gone")
    /\ upd' = Gone
    /\ Misses(If(At("signal"), "addition") \union
              If(At("signal") \/ At("paths") \/ At("exports") \/ ToDo # {}, "removal"))
    /\ UNCHANGED <<others, local>> /\ Fault

\* Somebody starts it: the repository has no unit that does.
Restart ==
    /\ At("gone")
    /\ upd' = Asleep
    /\ UNCHANGED <<others, local, missed>> /\ NoFault

-----------------------------------------------------------------------------
Execute == \/ Poll \/ ReadPiece \/ Write \/ Signal \/ LoadPaths \/ ListExports
           \/ \E e \in ToDo : Disable(e)
           \/ Done

Fails == \/ ReadFails \/ WriteFails \/ LoadPathsFails \/ ListExportsFails
         \/ \E e \in ToDo : DisableFails(e)
         \/ Crash \/ Stop

Next ==
    \/ Tick
    \/ \E u \in Users, id \in Ids : WriteObject(u, id)
    \/ \E u \in Users : RemoveEntry(u)
    \/ Publish
    \/ Reload \/ Start \/ Restart
    \/ Execute
    \/ Fails

Spec == Init /\ [][Next]_vars
FairSpec == Spec /\ WF_vars(Execute) /\ WF_vars(Publish) /\ WF_vars(Reload \/ Start)

-----------------------------------------------------------------------------
(* Properties. *)

\* The daemon sleeps and has no reason to wake.
AtRest == At("sleep") /\ pid # 0 /\ ~NeedToUpdate /\ ~signal

\* "check export list object is modified or not" (line 205): when the daemon takes the
\* list for unmodified, its copy is the list, unless the list was written while the
\* daemon was reading it, or in the second in which the copy was written, or the read or
\* the write failed.
CopyIsList == At("sleep") /\ ~NeedToUpdate /\ "list" \notin missed => local.data = list

\* At rest every listed user is exported under the id of his object, and of users with
\* the same display name one is, except for those whose names the daemon cannot read; and
\* unless the list was missed, a process to be signalled had gone, the id was still
\* exported when NFS-Ganesha reloaded (additions come before removals), or the objects
\* could not be listed.
ListedIsExported ==
    AtRest /\ missed \intersect {"list", "addition"} = {} =>
        \A u \in In(list) : path[u] \notin Long => Served(u, exports)

\* At rest no path is exported but the display name of a user who is listed or just being
\* added, unless the list was missed, the objects were listed between the two steps of a
\* removal, or a call failed.
ExportedIsListed ==
    AtRest /\ missed \intersect {"list", "removal"} = {} =>
        \A e \in exports : \E u \in Users :
            path[u] = e[2] /\ (u \in In(list) \/ change = [op |-> "add", user |-> u])

\* The users stop changing and the daemon keeps on polling: NFS-Ganesha exports the paths
\* of those who are listed and stays so, but for names the daemon cannot read, unless the
\* last update has missed something, or the daemon has ended and nobody starts it.
Converges ==
    LET exported == {e[2] : e \in exports}
    IN  <>[](\/ missed # {}
             \/ At("gone")
             \/ /\ PathsOf(In(list)) \ Long \subseteq exported
                /\ exported \subseteq PathsOf(In(list)))
=============================================================================
