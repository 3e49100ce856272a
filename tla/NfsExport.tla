------------------------------ MODULE NfsExport ------------------------------
(***************************************************************************)
(* The NFS exports of the users of the object store, as the S3 proxy keeps *)
(* them in a RADOS pool (pkg/controllers/ganesha.go).  When an admin       *)
(* request has created or deleted a user, the proxy starts a goroutine     *)
(* that writes or deletes the object export_<uid>, with the export id and  *)
(* the path as extended attributes, and adds the object to or removes it   *)
(* from the text of the object `export', the export list.                  *)
(*                                                                         *)
(* One step is one RADOS call.  The errors of all calls are dropped.  The  *)
(* handlers lock the list, but adding and removing use different locks,    *)
(* LockExclusive does not wait, its error is dropped too, and no other     *)
(* call looks at a lock: the locks change nothing and are left out.        *)
(*                                                                         *)
(* The list is a sequence of entries of one length, a uid each; a read     *)
(* past its end leaves zero bytes in the buffer (Zeros).  The line break   *)
(* that stands for an empty list and the text of an export but for its id  *)
(* are left out.                                                           *)
(***************************************************************************)
EXTENDS Integers, FiniteSets, Sequences, SequencesExt

CONSTANTS Users,
          Unexported,   \* users that may not own buckets (max_buckets = -1)
          Zeros,        \* a stretch of zero bytes instead of an entry
          Nobody,       \* no user
          MaxId,        \* largest export id (65535 in the code)
          Handlers,     \* goroutines in progress at once
          MaxRequests,  \* bound: admin requests in one behaviour
          MaxFaults     \* bound: failing calls and crashes in one behaviour

ASSUME UsersAssumption ==
    /\ IsFiniteSet(Users)
    /\ Unexported \subseteq Users /\ Zeros \notin Users /\ Nobody \notin Users
ASSUME BoundAssumption ==
    MaxId \in Nat \ {0} /\ MaxRequests \in Nat /\ MaxFaults \in Nat

VARIABLES users,     \* the users the object store has
          list,      \* the object `export'
          object,    \* object[u]: the object export_<u>
          handler,   \* handler[h]: what goroutine h is doing
          migrating, \* the user whose export another program rewrites (NfsMigration)
          requests,  \* history: admin requests so far
          mishaps,   \* history: what has gone wrong (MishapKinds)
          faults     \* history: faults so far

vars == <<users, list, object, handler, migrating, requests, mishaps, faults>>

\* Two handlers at once for one user, or one and the migration; an id picked while
\* another is picked but not an attribute yet; a list written back that had changed; a
\* fault.
MishapKinds == {"sameUser", "idRace", "staleList", "fault"}
Free(kinds) == mishaps \intersect kinds = {}

NoId == -1
Ids == 1 .. MaxId
Missing == [exists |-> FALSE, content |-> 0, id |-> 0]
Idle == [op |-> "none"]

\* A goroutine: the export id it has picked, the size of the list it was told
\* and the list it has read.
Started(op, u, at) ==
    [op |-> op, user |-> u, at |-> at, id |-> 0, size |-> 0, data |-> <<>>]

\* The users in the domain of ids are exported under those ids, and nothing is going on.
Exporting(ids) ==
    /\ users = DOMAIN ids
    /\ list \in SetToSeqs(DOMAIN ids)
    /\ object = [u \in Users |->
                    IF u \in DOMAIN ids THEN [exists |-> TRUE, content |-> ids[u], id |-> ids[u]]
                                       ELSE Missing]
    /\ handler = [h \in Handlers |-> Idle]
    /\ migrating = Nobody
    /\ requests = 0
    /\ mishaps = {}
    /\ faults = 0

Init == Exporting(<<>>)

Running == {h \in Handlers : handler[h] # Idle}
Busy(u) == migrating = u \/ \E h \in Running : handler[h].user = u

-----------------------------------------------------------------------------
(* Admin requests: the object store answers and HandleNfsExport starts. *)

Starts(h, u, newHandler) ==
    /\ handler[h] = Idle
    /\ requests < MaxRequests
    /\ requests' = requests + 1
    /\ handler' = [handler EXCEPT ![h] = newHandler]
    /\ mishaps' = mishaps \union (IF Busy(u) THEN {"sameUser"} ELSE {})
    /\ UNCHANGED <<list, object, migrating, faults>>

\* Variant: users without buckets are exported too.
CreateAnyUser(h, u) ==
    /\ u \notin users
    /\ users' = users \union {u}
    /\ Starts(h, u, Started("add", u, "pick"))

\* PUT with 200: addNfsExport, which returns when the user has no buckets.
CreateUser(h, u) ==
    /\ u \notin users
    /\ users' = users \union {u}
    /\ Starts(h, u, IF u \in Unexported THEN Idle ELSE Started("add", u, "pick"))

\* DELETE with 200, or with 404 when there is no such user: removeNfsExport.
DeleteUser(h, u) ==
    /\ users' = users \ {u}
    /\ Starts(h, u, Started("remove", u, "stat"))

-----------------------------------------------------------------------------
(* addNfsExport. *)

handlerVars == <<users, migrating, requests>>
At(h, step) == handler[h] # Idle /\ handler[h].at = step
GoOn(h, step) == handler' = [handler EXCEPT ![h].at = step]
Ends(h) == handler' = [handler EXCEPT ![h] = Idle]

UsedIds == {object[u].id : u \in {u \in Users : object[u].exists}}

\* Variant: used ids are not removed.
FreeIdsAny == Ids

\* generateExportId: some id that no export object has; the order of a Go
\* map is not defined.
FreeIds == IF Ids \subseteq UsedIds THEN {NoId} ELSE Ids \ UsedIds

\* Another handler has picked an id that is not an attribute yet.
IdPending(h) == \E g \in Handlers \ {h} :
    handler[g] # Idle /\ handler[g].at \in {"write", "pseudo", "attribute"}

PickId(h) ==
    /\ At(h, "pick")
    /\ \E id \in FreeIds :
          handler' = [handler EXCEPT ![h].at = "write", ![h].id = id]
    /\ mishaps' = mishaps \union (IF IdPending(h) THEN {"idRace"} ELSE {})
    /\ UNCHANGED <<handlerVars, list, object, faults>>

\* WriteFull and SetXattr create the object when there is none.
Stored(h, field) ==
    object' = [object EXCEPT ![handler[h].user] =
                  [[@ EXCEPT !.exists = TRUE] EXCEPT ![field] = handler[h].id]]

WriteObject(h) ==
    /\ At(h, "write")
    /\ Stored(h, "content")
    /\ GoOn(h, "pseudo")
    /\ UNCHANGED <<handlerVars, list, mishaps, faults>>

SetPseudo(h) ==
    /\ At(h, "pseudo")
    /\ object' = [object EXCEPT ![handler[h].user].exists = TRUE]
    /\ GoOn(h, "attribute")
    /\ UNCHANGED <<handlerVars, list, mishaps, faults>>

SetExportId(h) ==
    /\ At(h, "attribute")
    /\ Stored(h, "id")
    /\ GoOn(h, "append")
    /\ UNCHANGED <<handlerVars, list, mishaps, faults>>

\* addExportPathToList.
AppendEntry(h) ==
    /\ At(h, "append")
    /\ list' = Append(list, handler[h].user)
    /\ Ends(h)
    /\ UNCHANGED <<handlerVars, object, mishaps, faults>>

-----------------------------------------------------------------------------
(* removeNfsExport. *)

\* removeExportPathToList: first the size of the list, ...
StatList(h) ==
    /\ At(h, "stat")
    /\ handler' = [handler EXCEPT ![h].at = "read", ![h].size = Len(list)]
    /\ UNCHANGED <<handlerVars, list, object, mishaps, faults>>

\* ... then that much of it, ...
ReadBuffer(size) == [i \in 1 .. size |-> IF i <= Len(list) THEN list[i] ELSE Zeros]

ReadList(h) ==
    /\ At(h, "read")
    /\ handler' = [handler EXCEPT ![h].at = "rewrite", ![h].data = ReadBuffer(handler[h].size)]
    /\ UNCHANGED <<handlerVars, list, object, mishaps, faults>>

\* Variant: an index that is not positive counts as not found.
WithoutUnlessFirst(s, u) ==
    IF \E i \in 2 .. Len(s) : s[i] = u THEN SelectSeq(s, LAMBDA e : e # u) ELSE s

\* strings.Replace(data, entry, "", 1): the first occurrence goes.
Without(s, u) == RemoveFirst(s, u)

\* ... and the list is written back without the entry.  The write is exact
\* when the list is still what was read.
Rewrite(h, end) ==
    /\ At(h, "rewrite")
    /\ list' = Without(handler[h].data, handler[h].user)
    /\ end
    /\ mishaps' = mishaps \union (IF handler[h].data # list THEN {"staleList"} ELSE {})
    /\ UNCHANGED <<handlerVars, object, faults>>

RewriteList(h) == Rewrite(h, GoOn(h, "delete"))

DeleteObject(h) ==
    /\ At(h, "delete")
    /\ object' = [object EXCEPT ![handler[h].user] = Missing]
    /\ Ends(h)
    /\ UNCHANGED <<handlerVars, list, mishaps, faults>>

-----------------------------------------------------------------------------
(* Faults. *)

Fault ==
    /\ faults < MaxFaults
    /\ faults' = faults + 1
    /\ mishaps' = mishaps \union {"fault"}
    /\ UNCHANGED <<handlerVars, list, object>>

\* A call that writes or deletes fails and the handler goes on.
WriteFails(h) ==
    /\ \/ At(h, "write") /\ GoOn(h, "pseudo")
       \/ At(h, "pseudo") /\ GoOn(h, "attribute")
       \/ At(h, "attribute") /\ GoOn(h, "append")
       \/ At(h, "rewrite") /\ GoOn(h, "delete")
       \/ (At(h, "append") \/ At(h, "delete")) /\ Ends(h)
    /\ Fault

\* A call that reads fails: the listing of the objects ends early and any id
\* may look free, the size is 0, the buffer stays zero.
ReadFails(h) ==
    /\ \/ /\ At(h, "pick")
          /\ \E id \in Ids :
                handler' = [handler EXCEPT ![h].at = "write", ![h].id = id]
       \/ At(h, "stat") /\ handler' = [handler EXCEPT ![h].at = "read"]
       \/ /\ At(h, "read")
          /\ handler' = [handler EXCEPT ![h].at = "rewrite",
                            ![h].data = [i \in 1 .. handler[h].size |-> Zeros]]
    /\ Fault

\* The proxy stops (an answer without keys or a request without uid is enough:
\* the panic of a goroutine ends the process) and systemd starts it again.
Crash ==
    /\ Running # {}
    /\ handler' = [h \in Handlers |-> Idle]
    /\ Fault

Call(h) ==
    \/ PickId(h) \/ WriteObject(h) \/ SetPseudo(h) \/ SetExportId(h) \/ AppendEntry(h)
    \/ StatList(h) \/ ReadList(h) \/ RewriteList(h) \/ DeleteObject(h)
    \/ WriteFails(h) \/ ReadFails(h)

Next ==
    \/ Crash
    \/ \E h \in Handlers : \/ \E u \in Users : CreateUser(h, u) \/ DeleteUser(h, u)
                          \/ Call(h)

Spec == Init /\ [][Next]_vars

-----------------------------------------------------------------------------
(* Properties. *)

Listed == Range(list)

\* When the handlers of a user are done, the user has an export object if and
\* only if the user exists and may own buckets, unless two handlers of one user
\* overlapped or a call failed.
ObjectsMatchUsers ==
    Free({"sameUser", "fault"}) =>
        \A u \in Users : ~Busy(u) =>
            (object[u].exists <=> u \in users \ Unexported)

\* ... and is in the list, once, unless besides a handler wrote back a list that was out
\* of date.  NFS-Ganesha reads what the list names at any time: each object is complete,
\* however handlers of other users overlap.
ListMatchesUsers ==
    Free({"sameUser", "staleList", "fault"}) =>
        /\ \A u \in Users : ~Busy(u) => (u \in Listed <=> u \in users \ Unexported)
        /\ IsInjective(list)
        /\ \A u \in Listed : /\ u \in Users
                             /\ object[u].content # 0
                             /\ object[u].content = object[u].id

\* Two exports have different ids, unless the ids have run out.
ExportIdsDiffer ==
    \A u, v \in Users :
        u # v /\ object[u].content = object[v].content => object[u].content \in {0, NoId}

\* That holds until a handler picks an id while another is about to take one
\* (generateExportId, ganesha.go:173-199), or two handle one user, or a fault.
IdsDifferUnlessRace == Free({"idRace", "sameUser", "fault"}) => ExportIdsDiffer

Registry == INSTANCE NfsRegistry WITH
    exported <- [u \in Listed |-> object[u].content]

\* Until a mishap the calls of the handlers, however those of different users
\* overlap, implement the one-step Export and Unexport of NfsRegistry.
ExportsUntilMishap ==
    /\ Registry!Init
    /\ [][mishaps' = {} =>
            Registry!Next \/ UNCHANGED [u \in Listed |-> object[u].content]]_vars

\* "remove target export and write back" (ganesha.go:164): when a handler writes the list
\* back, its entry goes and the others stay.
RemovesOnlyItsEntry ==
    [][\A h \in Handlers : At(h, "rewrite") /\ handler'[h].at = "delete" /\ list' # list =>
          list' = Without(list, handler[h].user)]_vars
=============================================================================
