----------------------------- MODULE NfsProofs ------------------------------
(***************************************************************************)
(* What NfsExport and NfsMigration do for every number of users, handlers, *)
(* export ids, admin requests and faults.  The theorems are of the two     *)
(* together, and so of the proxy whether or not the migration runs.        *)
(***************************************************************************)
EXTENDS NfsMigration, SequenceTheorems, FiniteSetTheorems, WellFoundedInduction, TLAPS

-----------------------------------------------------------------------------
(* The list. *)

LEMMA MinIs ==
  ASSUME NEW S \in SUBSET Nat, S # {}
  PROVE  Min(S) \in S /\ \A y \in S : Min(S) <= y
<1> DEFINE R == OpToRel(<, Nat)
<1>1. IsWellFoundedOn(R, Nat)
  BY NatLessThanWellFounded
<1>2. \A i, j \in Nat : <<i, j>> \in R <=> i < j
  BY DEF OpToRel
<1> HIDE DEF R
<1>3. PICK i \in S : \A j \in S : ~ (<<j, i>> \in R)
  BY <1>1, WFMin
<1>4. i \in Nat /\ \A j \in S : j \in Nat
  OBVIOUS
<1>5. \A j \in S : ~ (j < i)
  BY <1>2, <1>3, <1>4, Zenon
<1>6. \A j \in S : i <= j
  BY <1>4, <1>5
<1> QED BY <1>6 DEF Min

\* Without takes out one element and moves up the ones behind it.
TakenOut(s, t, k) ==
    /\ Len(t) = Len(s) - 1
    /\ \A i \in 1 .. Len(t) : t[i] = IF i < k THEN s[i] ELSE s[i + 1]

LEMMA WithoutIs ==
  ASSUME NEW T, NEW s \in Seq(T), NEW u
  PROVE  /\ Without(s, u) \in Seq(T)
         /\ u \notin Range(s) => Without(s, u) = s
         /\ u \in Range(s) => \E k \in 1 .. Len(s) : s[k] = u /\ TakenOut(s, Without(s, u), k)
<1>1. Range(s) = {s[i] : i \in 1 .. Len(s)} /\ Len(s) \in Nat
  BY LenProperties DEF Range
<1>2. CASE u \notin Range(s)
  BY <1>1, <1>2 DEF Without, RemoveFirst
<1>3. CASE u \in Range(s)
  <2> DEFINE places == {i \in 1 .. Len(s) : s[i] = u}
             k == Min(places)
             t == SubSeq(s, 1, k - 1) \o SubSeq(s, k + 1, Len(s))
  <2>1. places # {} /\ places \in SUBSET Nat
    BY <1>1, <1>3
  <2>2. k \in places
    BY <2>1, MinIs
  <2>3. Without(s, u) = t
    BY <1>1, <1>3, <2>1 DEF Without, RemoveFirst, RemoveAt, SelectInSeq
  <2>4. k \in 1 .. Len(s) /\ s[k] = u
    BY <2>2
  <2> HIDE DEF k
  <2>5. PICK n \in Nat : n = Len(s)
    BY <1>1
  <2>6. /\ SubSeq(s, 1, k - 1) \in Seq(T) /\ Len(SubSeq(s, 1, k - 1)) = k - 1
        /\ \A i \in 1 .. k - 1 : SubSeq(s, 1, k - 1)[i] = s[i]
    <3>1. \A i \in 1 .. k - 1 : s[i] \in T
      BY <2>4, <2>5, ElementOfSeq
    <3> QED BY <2>4, <2>5, <3>1, SubSeqProperties
  <2>7. /\ SubSeq(s, k + 1, n) \in Seq(T) /\ Len(SubSeq(s, k + 1, n)) = n - k
        /\ \A i \in 1 .. n - k : SubSeq(s, k + 1, n)[i] = s[k + i]
    <3>1. \A i \in k + 1 .. n : s[i] \in T
      BY <2>4, <2>5, ElementOfSeq
    <3> QED BY <2>4, <2>5, <3>1, SubSeqProperties
  <2> DEFINE a == SubSeq(s, 1, k - 1)
             b == SubSeq(s, k + 1, n)
  <2>8. t = a \o b
    BY <2>5
  <2>9. /\ a \in Seq(T) /\ b \in Seq(T) /\ Len(a) = k - 1 /\ Len(b) = n - k
        /\ \A j \in 1 .. k - 1 : a[j] = s[j]
        /\ \A j \in 1 .. n - k : b[j] = s[k + j]
    BY <2>6, <2>7
  <2> HIDE DEF a, b, t
  <2>10. t \in Seq(T) /\ Len(t) = n - 1
    <3>1. t \in Seq(T) /\ Len(t) = Len(a) + Len(b)
      BY <2>8, <2>9, ConcatProperties
    <3> QED BY <2>4, <2>5, <2>9, <3>1
  <2>11. ASSUME NEW i \in 1 .. n - 1 PROVE t[i] = IF i < k THEN s[i] ELSE s[i + 1]
    <3>1. t[i] = IF i <= Len(a) THEN a[i] ELSE b[i - Len(a)]
      BY <2>4, <2>5, <2>8, <2>9, ConcatProperties
    <3>2. CASE i < k
      BY <2>4, <2>5, <2>9, <3>1, <3>2
    <3>3. CASE ~(i < k)
      <4>1. PICK m \in 1 .. n - k : m = i - (k - 1) /\ k + m = i + 1
        BY <2>4, <2>5, <3>3
      <4>2. t[i] = b[m]
        BY <2>4, <2>5, <2>9, <3>1, <3>3, <4>1
      <4> QED BY <2>9, <3>3, <4>1, <4>2
    <3> QED BY <3>2, <3>3
  <2> QED BY <1>3, <2>3, <2>4, <2>5, <2>10, <2>11 DEF TakenOut
<1> QED BY <1>2, <1>3
-----------------------------------------------------------------------------
(* The inductive invariant. *)

Entries == Users \union {Zeros}
Numbers == Ids \union {NoId, 0}
Objects == [exists : BOOLEAN, content : Numbers, id : Numbers]
Adding == {"pick", "write", "pseudo", "attribute", "append"}
Removing == {"stat", "read", "rewrite", "delete"}
Goroutines == [op : {"add", "remove"}, user : Users, at : Adding \union Removing, id : Numbers,
               size : Nat, data : Seq(Entries)]
Rewriting == {"info", "write", "pseudo", "attribute"}
Migrations == [at : {"start", "list", "loop", "done", "died"} \union Rewriting, size : Nat,
               todo : UNION {[places -> Users] : places \in SUBSET Nat}, id : Numbers]

NfsTypeOK ==
    /\ users \in SUBSET Users
    /\ list \in Seq(Entries)
    /\ object \in [Users -> Objects]
    /\ handler \in [Handlers -> Goroutines \union {Idle}]
    /\ mishaps \in SUBSET MishapKinds
    /\ old \in SUBSET Users /\ odd \in [Users -> Oddities]
    /\ migration \in Migrations
    /\ IF migration.at \in Rewriting THEN ~NoneLeft /\ migrating = Current
                                    ELSE migrating = Nobody

Does(h, u) == handler[h] # Idle /\ handler[h].user = u
Exportable == users \ Unexported

\* What goroutine h knows of user u, when nothing else is at work for that user.
AloneOK(h, u) ==
    /\ migrating # u /\ \A g \in Handlers : Does(g, u) => g = h
    /\ handler[h].at \in Adding =>
          /\ u \in Exportable
          /\ handler[h].at \in {"pick", "write"} => ~object[u].exists
          /\ handler[h].at # "pick" => handler[h].id # 0
          /\ handler[h].at \in {"pseudo", "attribute", "append"} => object[u].content = handler[h].id
    /\ handler[h].at \in Removing => u \notin users

\* The object of user u.
ObjectOK(u) ==
    /\ ~object[u].exists => object[u] = Missing
    /\ object[u].content = 0 => ~object[u].exists
    /\ (~Busy(u) \/ migrating = u) => (object[u].exists <=> u \in Exportable)
    /\ \/ object[u].content = object[u].id
       \/ \E h \in Handlers : Does(h, u) /\ handler[h].at \in {"pseudo", "attribute"}
    /\ migrating = u => object[u].exists /\ migration.id = object[u].content
    /\ \A h \in Handlers : Does(h, u) => AloneOK(h, u)

ObjectInv == Free({"sameUser", "fault"}) => \A u \in Users : ObjectOK(u)

\* The entry of user u.
EntryOK(u) ==
    /\ (~Busy(u) \/ migrating = u) => (u \in Listed <=> u \in Exportable)
    /\ u \in Listed => object[u].exists
    /\ \A h \in Handlers :
          Does(h, u) /\ handler[h].at \in Adding \union {"delete"} => u \notin Listed

ListInv == Free({"sameUser", "staleList", "fault"}) =>
    list \in Seq(Users) /\ IsInjective(list) /\ \A u \in Users : EntryOK(u)

Pending(h) == handler[h] # Idle /\ handler[h].at \in {"write", "pseudo", "attribute"}

\* At most one goroutine has an id that is not an attribute yet, and no other export has it.
IdsOK ==
    /\ ExportIdsDiffer
    /\ \A g, h \in Handlers : Pending(g) /\ Pending(h) => g = h
    /\ \A h \in Handlers, u \in Users :
          Pending(h) /\ handler[h].user # u /\ object[u].content = handler[h].id =>
             object[u].content = NoId

IdsInv == Free({"idRace", "sameUser", "fault"}) => IdsOK

Leaving(u) == \E h \in Handlers : Does(h, u) /\ handler[h].at \in Removing

\* The migration is still to come to the export of u, which is for a subuser.
Awaits(u) ==
    \/ migration.at = "start" /\ u \in Listed
    \/ migration.at = "list" /\ \E i \in 1 .. migration.size : i <= Len(list) /\ list[i] = u
    \/ migration.at \in {"loop"} \union Rewriting /\ u \in Range(migration.todo)
    \/ migration.at = "died"

\* The users that it passes by only when they are being removed.
Heeded == {u \in old : odd[u] \notin {"uid", "keys"}}
OldOK(u) == Leaving(u) \/ (u \in users /\ Awaits(u))

MigrationInv == Free({"staleList", "fault"}) =>
    /\ \A u \in Heeded : OldOK(u)
    /\ migration.at \in {"pseudo", "attribute"} => Current \notin old

NfsInv == NfsTypeOK /\ ObjectInv /\ ListInv /\ IdsInv /\ MigrationInv

-----------------------------------------------------------------------------
(* Types, and what a step leaves alone. *)

LEMMA IdsAre == Ids \subseteq Numbers /\ NoId \in Numbers /\ 0 \in Numbers /\ 0 \notin Ids /\ NoId # 0
  BY BoundAssumption DEF Ids, Numbers, NoId

LEMMA IdleIsNone == Idle \notin Goroutines
  BY DEF Idle, Goroutines

LEMMA GoroutineAt ==
  ASSUME NfsTypeOK, NEW h \in Handlers, handler[h] # Idle
  PROVE  /\ handler[h] \in Goroutines /\ handler[h].user \in Users /\ handler[h].id \in Numbers
         /\ handler[h].at \in Adding \union Removing
         /\ handler[h].size \in Nat /\ handler[h].data \in Seq(Entries)
  BY DEF NfsTypeOK, Goroutines

LEMMA StartedIs ==
  ASSUME NEW op \in {"add", "remove"}, NEW u \in Users, NEW at \in Adding \union Removing
  PROVE  /\ Started(op, u, at) \in Goroutines /\ Started(op, u, at) # Idle
         /\ Started(op, u, at).user = u /\ Started(op, u, at).at = at
<1>1. <<>> \in Seq(Entries) /\ 0 \in Numbers /\ 0 \in Nat
  BY IdsAre
<1>2. Started(op, u, at) \in Goroutines
  BY <1>1 DEF Started, Goroutines
<1> QED BY <1>2, IdleIsNone DEF Started

\* A step of goroutine h, from what it was to g, for user u.
Acts(h, g, u) ==
    /\ handler' = [handler EXCEPT ![h] = g]
    /\ g # Idle => g \in Goroutines /\ g.user = u
    /\ handler[h] # Idle => handler[h].user = u
    /\ \A v \in Users \ {u} : object'[v] = object[v] /\ (v \in users' <=> v \in users)
    /\ UNCHANGED migrating

\* A goroutine goes on, the rest of what it knows as it was.
LEMMA GoesOn ==
  ASSUME NfsTypeOK, NEW h \in Handlers, handler[h] # Idle, NEW step \in Adding \union Removing,
         GoOn(h, step)
  PROVE  /\ handler' = [handler EXCEPT ![h] = [handler[h] EXCEPT !.at = step]]
         /\ [handler[h] EXCEPT !.at = step] \in Goroutines
         /\ [handler[h] EXCEPT !.at = step] # Idle
         /\ [handler[h] EXCEPT !.at = step].at = step
         /\ [handler[h] EXCEPT !.at = step].user = handler[h].user
         /\ [handler[h] EXCEPT !.at = step].id = handler[h].id
<1>1. handler[h] \in Goroutines
  BY GoroutineAt
<1>2. [handler[h] EXCEPT !.at = step] \in Goroutines
  BY <1>1 DEF Goroutines
<1>3. handler' = [handler EXCEPT ![h] = [handler[h] EXCEPT !.at = step]]
  BY DEF GoOn, NfsTypeOK
<1> QED BY <1>1, <1>2, <1>3, IdleIsNone DEF Goroutines

LEMMA StoredIs ==
  ASSUME NfsTypeOK, NEW h \in Handlers, handler[h] # Idle, NEW field \in {"content", "id"},
         Stored(h, field), NEW u, u = handler[h].user
  PROVE  /\ object' \in [Users -> Objects]
         /\ \A v \in Users \ {u} : object'[v] = object[v]
         /\ object'[u].exists
         /\ field = "content" => object'[u].content = handler[h].id /\ object'[u].id = object[u].id
         /\ field = "id" => object'[u].id = handler[h].id /\ object'[u].content = object[u].content
<1> DEFINE o == [[object[u] EXCEPT !.exists = TRUE] EXCEPT ![field] = handler[h].id]
<1>1. u \in Users /\ handler[h].id \in Numbers /\ object[u] \in Objects
  BY GoroutineAt DEF NfsTypeOK
<1>2. object' = [object EXCEPT ![u] = o]
  BY DEF Stored
<1>3. /\ o \in Objects /\ o.exists
      /\ field = "content" => o.content = handler[h].id /\ o.id = object[u].id
      /\ field = "id" => o.id = handler[h].id /\ o.content = object[u].content
  BY <1>1 DEF Objects
<1> HIDE DEF o
<1> QED BY <1>1, <1>2, <1>3 DEF NfsTypeOK

LEMMA ReadBufferIs ==
  ASSUME NfsTypeOK, NEW size \in Nat
  PROVE  ReadBuffer(size) \in Seq(Entries)
<1>1. Zeros \in Entries /\ list \in Seq(Entries) /\ Len(list) \in Nat
  BY LenProperties DEF Entries, NfsTypeOK
<1>2. \A i \in 1 .. size : (IF i <= Len(list) THEN list[i] ELSE Zeros) \in Entries
  BY <1>1, ElementOfSeq
<1> QED BY <1>2, IsASeq DEF ReadBuffer

LEMMA CallActs ==
  ASSUME NfsTypeOK, NEW h \in Handlers, Call(h)
  PROVE  /\ handler[h] # Idle /\ handler[h].user \in Users
         /\ \E g : Acts(h, g, handler[h].user)
         /\ object' \in [Users -> Objects] /\ users' = users
<1> DEFINE u == handler[h].user
<1>1. handler[h] # Idle
  BY DEF Call, PickId, WriteObject, SetPseudo, SetExportId, AppendEntry, StatList, ReadList,
         RewriteList, Rewrite, DeleteObject, WriteFails, ReadFails, At
<1>2. /\ handler[h] \in Goroutines /\ u \in Users /\ u = handler[h].user
      /\ object \in [Users -> Objects]
  BY <1>1, GoroutineAt DEF NfsTypeOK
<1>3. users' = users /\ UNCHANGED migrating
  BY DEF Call, PickId, WriteObject, SetPseudo, SetExportId, AppendEntry, StatList, ReadList,
         RewriteList, Rewrite, DeleteObject, WriteFails, ReadFails, handlerVars, Fault
<1> HIDE DEF u
<1>4. /\ object' \in [Users -> Objects]
      /\ \A v \in Users \ {u} : object'[v] = object[v]
  <2>1. CASE WriteObject(h)
    BY <1>1, <1>2, <2>1, StoredIs DEF WriteObject
  <2>2. CASE SetExportId(h)
    BY <1>1, <1>2, <2>2, StoredIs DEF SetExportId
  <2>3. CASE SetPseudo(h)
    <3>1. object' = [object EXCEPT ![u] = [object[u] EXCEPT !.exists = TRUE]]
      BY <1>2, <2>3 DEF SetPseudo
    <3>2. [object[u] EXCEPT !.exists = TRUE] \in Objects
      BY <1>2 DEF Objects
    <3> QED BY <1>2, <3>1, <3>2
  <2>4. CASE DeleteObject(h)
    <3>1. object' = [object EXCEPT ![u] = Missing]
      BY <1>2, <2>4 DEF DeleteObject
    <3>2. Missing \in Objects
      BY IdsAre DEF Objects, Missing
    <3> QED BY <1>2, <3>1, <3>2
  <2>5. CASE UNCHANGED object
    BY <1>2, <2>5
  <2> QED BY <2>1, <2>2, <2>3, <2>4, <2>5 DEF Call, PickId, AppendEntry, StatList, ReadList,
          RewriteList, Rewrite, WriteFails, ReadFails, Fault
<1> DEFINE Becomes(g) == handler' = [handler EXCEPT ![h] = g] /\ (g # Idle => g \in Goroutines /\ g.user = u)
<1>5. \E g : Becomes(g)
  <2>1. ASSUME NEW step \in Adding \union Removing, GoOn(h, step) PROVE \E g : Becomes(g)
    BY <1>1, <1>2, <2>1, GoesOn
  <2>2. ASSUME Ends(h) PROVE Becomes(Idle)
    BY <2>2 DEF Ends
  <2>3. ASSUME NEW id \in Numbers,
               handler' = [handler EXCEPT ![h].at = "write", ![h].id = id]
        PROVE  Becomes([handler[h] EXCEPT !.at = "write", !.id = id])
    <3>1. [handler[h] EXCEPT !.at = "write", !.id = id] \in Goroutines
      BY <1>2 DEF Goroutines, Adding
    <3>2. [handler[h] EXCEPT !.at = "write", !.id = id].user = u
      BY <1>2 DEF Goroutines
    <3>3. handler' = [handler EXCEPT ![h] = [handler[h] EXCEPT !.at = "write", !.id = id]]
      BY <2>3 DEF NfsTypeOK
    <3> QED BY <3>1, <3>2, <3>3
  <2>4. ASSUME NEW size \in Nat,
               handler' = [handler EXCEPT ![h].at = "read", ![h].size = size]
        PROVE  Becomes([handler[h] EXCEPT !.at = "read", !.size = size])
    <3>1. [handler[h] EXCEPT !.at = "read", !.size = size] \in Goroutines
      BY <1>2 DEF Goroutines, Removing
    <3>2. [handler[h] EXCEPT !.at = "read", !.size = size].user = u
      BY <1>2 DEF Goroutines
    <3>3. handler' = [handler EXCEPT ![h] = [handler[h] EXCEPT !.at = "read", !.size = size]]
      BY <2>4 DEF NfsTypeOK
    <3> QED BY <3>1, <3>2, <3>3
  <2>5. ASSUME NEW data \in Seq(Entries),
               handler' = [handler EXCEPT ![h].at = "rewrite", ![h].data = data]
        PROVE  Becomes([handler[h] EXCEPT !.at = "rewrite", !.data = data])
    <3>1. [handler[h] EXCEPT !.at = "rewrite", !.data = data] \in Goroutines
      BY <1>2 DEF Goroutines, Removing
    <3>2. [handler[h] EXCEPT !.at = "rewrite", !.data = data].user = u
      BY <1>2 DEF Goroutines
    <3>3. handler' = [handler EXCEPT ![h] = [handler[h] EXCEPT !.at = "rewrite", !.data = data]]
      BY <2>5 DEF NfsTypeOK
    <3> QED BY <3>1, <3>2, <3>3
  <2>6. Len(list) \in Nat
    BY LenProperties DEF NfsTypeOK
  <2>7. /\ ReadBuffer(handler[h].size) \in Seq(Entries)
        /\ [i \in 1 .. handler[h].size |-> Zeros] \in Seq(Entries)
    <3>1. handler[h].size \in Nat /\ Zeros \in Entries
      BY <1>1, GoroutineAt DEF Entries
    <3>2. [i \in 1 .. handler[h].size |-> Zeros] \in Seq(Entries)
      BY <3>1, IsASeq
    <3> QED BY <3>1, <3>2, ReadBufferIs
  <2>8. FreeIds \subseteq Numbers /\ Ids \subseteq Numbers
    BY IdsAre DEF FreeIds
  <2> HIDE DEF Becomes
  <2>9. \A step \in {"pseudo", "attribute", "append", "read", "delete"} : step \in Adding \union Removing
    BY DEF Adding, Removing
  <2>10. CASE PickId(h)
    BY <2>3, <2>8, <2>10 DEF PickId
  <2>11. CASE WriteObject(h) \/ SetPseudo(h) \/ SetExportId(h) \/ RewriteList(h)
    BY <2>1, <2>9, <2>11 DEF WriteObject, SetPseudo, SetExportId, RewriteList, Rewrite
  <2>12. CASE AppendEntry(h) \/ DeleteObject(h)
    BY <2>2, <2>12 DEF AppendEntry, DeleteObject
  <2>13. CASE StatList(h) \/ ReadList(h)
    BY <2>4, <2>5, <2>6, <2>7, <2>13 DEF StatList, ReadList
  <2>14. CASE WriteFails(h)
    BY <2>1, <2>2, <2>9, <2>14 DEF WriteFails
  <2>15. CASE ReadFails(h)
    <3>1. ASSUME handler' = [handler EXCEPT ![h].at = "read"] PROVE GoOn(h, "read")
      BY <3>1 DEF GoOn
    <3> QED BY <2>1, <2>3, <2>5, <2>7, <2>8, <2>9, <2>15, <3>1 DEF ReadFails
  <2> QED BY <2>10, <2>11, <2>12, <2>13, <2>14, <2>15 DEF Call
<1> HIDE DEF Becomes
<1>6. PICK g : Becomes(g)
  BY <1>5
<1>7. Acts(h, g, u)
  BY <1>2, <1>3, <1>4, <1>6 DEF Becomes, Acts
<1> QED BY <1>1, <1>2, <1>3, <1>4, <1>7

Todos == UNION {[places -> Users] : places \in SUBSET Nat}

LEMMA MigrationIs ==
  ASSUME NfsTypeOK
  PROVE  /\ migration.at \in {"start", "list", "loop", "done", "died"} \union Rewriting
         /\ migration.size \in Nat /\ migration.todo \in Todos /\ migration.id \in Numbers
  BY DEF NfsTypeOK, Migrations, Todos

LEMMA CurrentIs ==
  ASSUME NfsTypeOK, ~NoneLeft
  PROVE  /\ Place \in DOMAIN migration.todo /\ Current \in Users
         /\ Current = migration.todo[Place]
<1>1. PICK places \in SUBSET Nat : migration.todo \in [places -> Users]
  BY MigrationIs DEF Todos
<1>2. DOMAIN migration.todo = places /\ places # {}
  BY <1>1 DEF NoneLeft
<1>3. Place \in places
  BY <1>2, MinIs DEF Place
<1> QED BY <1>1, <1>2, <1>3 DEF Current

LEMMA RestrictedTodo ==
  ASSUME NfsTypeOK
  PROVE  LET rest == Restrict(migration.todo, DOMAIN migration.todo \ {Place})
         IN  /\ rest \in Todos
             /\ \A i \in DOMAIN migration.todo : i # Place =>
                   i \in DOMAIN rest /\ rest[i] = migration.todo[i]
<1>1. PICK places \in SUBSET Nat : migration.todo \in [places -> Users]
  BY MigrationIs DEF Todos
<1>2. Restrict(migration.todo, places \ {Place}) \in [places \ {Place} -> Users]
  BY <1>1 DEF Restrict
<1> QED BY <1>1, <1>2 DEF Restrict, Todos

LEMMA NamedIs ==
  ASSUME NEW data \in Seq(Entries)
  PROVE  /\ Named(data) \in Todos
         /\ \A i \in 1 .. Len(data) : data[i] # Zeros /\ odd[data[i]] # "uid" =>
               i \in DOMAIN Named(data) /\ Named(data)[i] = data[i]
<1> DEFINE places == {i \in 1 .. Len(data) : data[i] # Zeros /\ odd[data[i]] # "uid"}
<1>1. DOMAIN data = 1 .. Len(data) /\ Len(data) \in Nat
  BY LenProperties
<1>2. \A i \in 1 .. Len(data) : data[i] \in Entries
  BY ElementOfSeq
<1>3. Named(data) = [i \in places |-> data[i]]
  BY <1>1 DEF Named, Restrict
<1>4. Named(data) \in [places -> Users]
  BY <1>2, <1>3 DEF Entries
<1>5. places \in SUBSET Nat
  BY <1>1
<1> QED BY <1>3, <1>4, <1>5 DEF Todos

\* What the two handlers of an admin request do.
LEMMA RequestActs ==
  ASSUME NfsTypeOK, NEW h \in Handlers, NEW u \in Users, CreateUser(h, u) \/ DeleteUser(h, u)
  PROVE  /\ handler[h] = Idle
         /\ \E g : Acts(h, g, u)
         /\ UNCHANGED <<list, object>>
         /\ users' = users \union {u} \/ users' = users \ {u}
<1>1. CASE CreateUser(h, u)
  <2>1. PICK g : /\ g = IF u \in Unexported THEN Idle ELSE Started("add", u, "pick")
                 /\ handler' = [handler EXCEPT ![h] = g]
    BY <1>1 DEF CreateUser, Starts
  <2>2. "pick" \in Adding \union Removing
    BY DEF Adding
  <2>3. g # Idle => g \in Goroutines /\ g.user = u
    BY <2>1, <2>2, StartedIs
  <2>4. Acts(h, g, u)
    BY <1>1, <2>1, <2>3 DEF CreateUser, Starts, Acts
  <2> QED BY <1>1, <2>4 DEF CreateUser, Starts
<1>2. CASE DeleteUser(h, u)
  <2>1. PICK g : /\ g = Started("remove", u, "stat")
                 /\ handler' = [handler EXCEPT ![h] = g]
    BY <1>2 DEF DeleteUser, Starts
  <2>2. "stat" \in Adding \union Removing
    BY DEF Removing
  <2>3. g # Idle => g \in Goroutines /\ g.user = u
    BY <2>1, <2>2, StartedIs
  <2>4. Acts(h, g, u)
    BY <1>2, <2>1, <2>3 DEF DeleteUser, Starts, Acts
  <2> QED BY <1>2, <2>4 DEF DeleteUser, Starts
<1> QED BY <1>1, <1>2

LEMMA ListTypes ==
  ASSUME NfsTypeOK, NEW h \in Handlers, Call(h)
  PROVE  list' \in Seq(Entries)
<1>1. /\ handler[h] # Idle /\ handler[h].user \in Entries /\ handler[h].data \in Seq(Entries)
      /\ list \in Seq(Entries)
  BY CallActs, GoroutineAt DEF Entries, NfsTypeOK
<1>2. CASE AppendEntry(h)
  BY <1>1, <1>2, AppendProperties DEF AppendEntry
<1>3. CASE RewriteList(h)
  BY <1>1, <1>3, WithoutIs DEF RewriteList, Rewrite
<1>4. CASE UNCHANGED list
  BY <1>1, <1>4
<1> QED BY <1>2, <1>3, <1>4 DEF Call, PickId, WriteObject, SetPseudo, SetExportId, StatList,
        ReadList, DeleteObject, WriteFails, ReadFails, Fault

LEMMA MishapsAre ==
  ASSUME NfsTypeOK, [MigrationNext]_migrationVars
  PROVE  mishaps' \in SUBSET MishapKinds /\ mishaps \subseteq mishaps'
<1>1. CASE UNCHANGED migrationVars
  BY <1>1 DEF migrationVars, vars, NfsTypeOK
<1>2. ASSUME NEW h \in Handlers, Call(h)
      PROVE  mishaps' \in SUBSET MishapKinds /\ mishaps \subseteq mishaps'
  BY <1>2 DEF Call, PickId, WriteObject, SetPseudo, SetExportId, AppendEntry, StatList, ReadList,
     RewriteList, Rewrite, DeleteObject, WriteFails, ReadFails, Fault, NfsTypeOK, MishapKinds
<1>3. ASSUME NEW h \in Handlers, NEW u \in Users, CreateUser(h, u) \/ DeleteUser(h, u)
      PROVE  mishaps' \in SUBSET MishapKinds /\ mishaps \subseteq mishaps'
  BY <1>3 DEF CreateUser, DeleteUser, Starts, NfsTypeOK, MishapKinds
<1>4. CASE Crash
  BY <1>4 DEF Crash, Fault, NfsTypeOK, MishapKinds
<1>5. CASE MigrationStep
  BY <1>5 DEF MigrationStep, MigrationCallFails, StatExports, ReadExports, ReadExport, LoadUser,
     RewriteExport, RewritePseudo, RewriteId, MigrationEnds, NfsTypeOK, MishapKinds
<1> QED BY <1>1, <1>2, <1>3, <1>4, <1>5 DEF MigrationNext, ProxyStep, Next

MigrationSteps == {"start", "list", "loop", "done", "died"} \union Rewriting

LEMMA MigrationTo ==
  ASSUME NfsTypeOK, NEW step \in MigrationSteps, MigrationGoesOn(step)
  PROVE  /\ migration' \in Migrations /\ migration'.at = step
         /\ migration'.todo = migration.todo /\ migration'.id = migration.id
         /\ migration'.size = migration.size
  BY DEF NfsTypeOK, Migrations, MigrationGoesOn, MigrationSteps

LEMMA NextExportIs ==
  ASSUME NfsTypeOK, NextExport
  PROVE  /\ migration' \in Migrations /\ migration'.at = "loop"
         /\ migration'.todo = Restrict(migration.todo, DOMAIN migration.todo \ {Place})
<1>1. Restrict(migration.todo, DOMAIN migration.todo \ {Place}) \in Todos
  BY RestrictedTodo
<1> QED BY <1>1 DEF NfsTypeOK, Migrations, NextExport, Todos

\* The user at work is the first of those to do.
Linked ==
    IF migration.at \in Rewriting THEN ~NoneLeft /\ migrating = Current
                                 ELSE migrating = Nobody

LEMMA RewritesCurrent ==
  ASSUME NfsTypeOK, migration.at \in Rewriting
  PROVE  ~NoneLeft /\ migrating = Current /\ Current \in Users
  BY CurrentIs DEF NfsTypeOK

LEMMA StaysLinked ==
  ASSUME NfsTypeOK, migration.at \in Rewriting, NEW step \in Rewriting, MigrationGoesOn(step),
         UNCHANGED migrating
  PROVE  migration' \in Migrations /\ Linked'
<1>1. /\ migration' \in Migrations /\ migration'.at = step
      /\ migration'.todo = migration.todo
  BY MigrationTo DEF MigrationSteps
<1> QED BY <1>1, RewritesCurrent DEF Linked, NoneLeft, Current, Place

LEMMA UnLinked ==
  ASSUME NfsTypeOK, migrating' = Nobody,
         NextExport \/ \E step \in MigrationSteps \ Rewriting : MigrationGoesOn(step)
  PROVE  migration' \in Migrations /\ Linked'
<1>1. migration' \in Migrations /\ migration'.at \notin Rewriting
  BY NextExportIs, MigrationTo DEF MigrationSteps, Rewriting
<1> QED BY <1>1 DEF Linked

\* The object as the migration writes it.
LEMMA ObjectWritten ==
  ASSUME NfsTypeOK, migration.at \in Rewriting, RewriteExport \/ RewritePseudo \/ RewriteId
  PROVE  /\ object' \in [Users -> Objects]
         /\ \A v \in Users \ {Current} : object'[v] = object[v]
         /\ object'[Current].exists
         /\ object'[Current].content = IF RewriteExport THEN migration.id ELSE object[Current].content
         /\ object'[Current].id = IF RewriteId THEN migration.id ELSE object[Current].id
<1>1. PICK u \in Users : u = Current
  BY RewritesCurrent
<1>2. object[u] \in Objects /\ object \in [Users -> Objects] /\ migration.id \in Numbers
  BY MigrationIs DEF NfsTypeOK
<1>3. RewriteExport => migration.at = "write"
  BY DEF RewriteExport, MigrationAt
<1>4. RewritePseudo => migration.at = "pseudo"
  BY DEF RewritePseudo, MigrationAt
<1>5. RewriteId => migration.at = "attribute"
  BY DEF RewriteId, MigrationAt
<1>6. CASE RewriteExport
  <2>1. object' = [object EXCEPT ![u] = [object[u] EXCEPT !.exists = TRUE, !.content = migration.id]]
    BY <1>1, <1>2, <1>6 DEF RewriteExport
  <2>2. /\ [object[u] EXCEPT !.exists = TRUE, !.content = migration.id] \in Objects
        /\ [object[u] EXCEPT !.exists = TRUE, !.content = migration.id].exists
        /\ [object[u] EXCEPT !.exists = TRUE, !.content = migration.id].content = migration.id
        /\ [object[u] EXCEPT !.exists = TRUE, !.content = migration.id].id = object[u].id
    BY <1>2 DEF Objects
  <2>3. ~RewriteId
    BY <1>3, <1>5, <1>6
  <2> QED BY <1>1, <1>2, <1>6, <2>1, <2>2, <2>3
<1>7. CASE RewritePseudo
  <2>1. object' = [object EXCEPT ![u] = [object[u] EXCEPT !.exists = TRUE]]
    BY <1>1, <1>2, <1>7 DEF RewritePseudo
  <2>2. /\ [object[u] EXCEPT !.exists = TRUE] \in Objects
        /\ [object[u] EXCEPT !.exists = TRUE].exists
        /\ [object[u] EXCEPT !.exists = TRUE].content = object[u].content
        /\ [object[u] EXCEPT !.exists = TRUE].id = object[u].id
    BY <1>2 DEF Objects
  <2>3. ~RewriteId /\ ~RewriteExport
    BY <1>3, <1>4, <1>5, <1>7
  <2> QED BY <1>1, <1>2, <2>1, <2>2, <2>3
<1>8. CASE RewriteId
  <2>1. object' = [object EXCEPT ![u] = [object[u] EXCEPT !.exists = TRUE, !.id = migration.id]]
    BY <1>1, <1>2, <1>8 DEF RewriteId
  <2>2. /\ [object[u] EXCEPT !.exists = TRUE, !.id = migration.id] \in Objects
        /\ [object[u] EXCEPT !.exists = TRUE, !.id = migration.id].exists
        /\ [object[u] EXCEPT !.exists = TRUE, !.id = migration.id].content = object[u].content
        /\ [object[u] EXCEPT !.exists = TRUE, !.id = migration.id].id = migration.id
    BY <1>2 DEF Objects
  <2>3. ~RewriteExport
    BY <1>3, <1>5, <1>8
  <2> QED BY <1>1, <1>2, <1>8, <2>1, <2>2, <2>3
<1> QED BY <1>6, <1>7, <1>8

LEMMA MigrationTypes ==
  ASSUME NfsTypeOK, MigrationStep
  PROVE  /\ migration' \in Migrations /\ Linked'
         /\ UNCHANGED <<users, list, handler>>
         /\ object' \in [Users -> Objects]
         /\ old' \subseteq old /\ odd' = odd
<1>1. UNCHANGED <<users, list, handler>> /\ old' \subseteq old /\ odd' = odd
  BY DEF MigrationStep, MigrationCallFails, StatExports, ReadExports, ReadExport, LoadUser,
     RewriteExport, RewritePseudo, RewriteId, MigrationEnds, pool
<1>2. "info" \in Rewriting /\ "write" \in Rewriting /\ "pseudo" \in Rewriting
      /\ "attribute" \in Rewriting /\ "loop" \notin Rewriting /\ "start" \notin Rewriting
      /\ "list" \notin Rewriting
  BY DEF Rewriting
<1>3. \A step \in {"start", "list", "loop", "done", "died"} : step \in MigrationSteps \ Rewriting
  BY DEF MigrationSteps, Rewriting
<1>4. migration.at \notin Rewriting => migrating = Nobody
  BY DEF NfsTypeOK
<1>5. CASE StatExports
  <2>1. Len(list) \in Nat
    BY LenProperties DEF NfsTypeOK
  <2>2. migration' \in Migrations /\ migration'.at = "list"
    BY <1>5, <2>1 DEF StatExports, NfsTypeOK, Migrations
  <2> QED BY <1>1, <1>2, <1>4, <1>5, <2>2 DEF StatExports, MigrationAt, Linked, pool, NfsTypeOK
<1>6. CASE ReadExports
  <2>1. Named(ReadBuffer(migration.size)) \in Todos
    BY MigrationIs, ReadBufferIs, NamedIs
  <2>2. migration' \in Migrations /\ migration'.at = "loop"
    BY <1>6, <2>1 DEF ReadExports, NfsTypeOK, Migrations, Todos
  <2> QED BY <1>1, <1>2, <1>4, <1>6, <2>2 DEF ReadExports, MigrationAt, Linked, pool, NfsTypeOK
<1>7. CASE ReadExport
  <2>1. migrating = Nobody /\ UNCHANGED object /\ ~NoneLeft
    BY <1>2, <1>4, <1>7 DEF ReadExport, MigrationAt, pool
  <2>2. CASE MigrationDies
    BY <1>1, <1>3, <2>1, <2>2, UnLinked DEF MigrationDies, NfsTypeOK
  <2>3. CASE NextExport /\ UNCHANGED migrating
    BY <1>1, <2>1, <2>3, UnLinked DEF NfsTypeOK
  <2>4. CASE /\ migration' = [migration EXCEPT !.at = "info", !.id = object[Current].content]
             /\ migrating' = Current
    <3>1. object[Current].content \in Numbers
      BY <2>1, CurrentIs DEF NfsTypeOK, Objects
    <3>2. /\ migration' \in Migrations /\ migration'.at = "info"
          /\ migration'.todo = migration.todo
      BY <1>2, <2>4, <3>1 DEF NfsTypeOK, Migrations
    <3>3. Linked'
      BY <1>2, <2>1, <2>4, <3>2 DEF Linked, NoneLeft, Current, Place
    <3> QED BY <1>1, <2>1, <3>2, <3>3 DEF NfsTypeOK
  <2> QED BY <1>7, <2>2, <2>3, <2>4 DEF ReadExport
<1>8. CASE LoadUser
  BY <1>1, <1>2, <1>8, StaysLinked, UnLinked DEF LoadUser, MigrationAt, pool, NfsTypeOK
<1>9. CASE RewriteExport
  BY <1>1, <1>2, <1>9, StaysLinked, ObjectWritten DEF RewriteExport, MigrationAt
<1>10. CASE RewritePseudo
  BY <1>1, <1>2, <1>10, StaysLinked, ObjectWritten DEF RewritePseudo, MigrationAt
<1>11. CASE RewriteId
  BY <1>1, <1>2, <1>11, UnLinked, ObjectWritten DEF RewriteId, MigrationAt
<1>12. CASE MigrationEnds
  BY <1>1, <1>2, <1>3, <1>4, <1>12, UnLinked DEF MigrationEnds, MigrationAt, pool, NfsTypeOK
<1>13. CASE MigrationCallFails
  <2>1. UNCHANGED object
    BY <1>13 DEF MigrationCallFails, pool
  <2>2. migration' \in Migrations /\ Linked'
    <3>1. CASE MigrationAt("list") /\ MigrationGoesOn("loop") /\ UNCHANGED migrating
      BY <1>2, <1>3, <1>4, <3>1, UnLinked DEF MigrationAt
    <3>2. CASE MigrationDies
      BY <1>3, <3>2, UnLinked DEF MigrationDies
    <3>3. CASE NextExport /\ migrating' = Nobody
      BY <3>3, UnLinked
    <3>4. CASE MigrationAt("write") /\ MigrationGoesOn("pseudo") /\ UNCHANGED migrating
      BY <1>2, <3>4, StaysLinked DEF MigrationAt
    <3>5. CASE MigrationAt("pseudo") /\ MigrationGoesOn("attribute") /\ UNCHANGED migrating
      BY <1>2, <3>5, StaysLinked DEF MigrationAt
    <3> QED BY <1>13, <3>1, <3>2, <3>3, <3>4, <3>5 DEF MigrationCallFails
  <2> QED BY <1>1, <2>1, <2>2 DEF NfsTypeOK
<1> QED BY <1>5, <1>6, <1>7, <1>8, <1>9, <1>10, <1>11, <1>12, <1>13 DEF MigrationStep

LEMMA NfsTypeStep == NfsTypeOK /\ [MigrationNext]_migrationVars => NfsTypeOK'
<1> SUFFICES ASSUME NfsTypeOK, [MigrationNext]_migrationVars PROVE NfsTypeOK'
    OBVIOUS
<1>1. mishaps' \in SUBSET MishapKinds
  BY MishapsAre
<1>2. NfsTypeOK <=> /\ users \in SUBSET Users /\ list \in Seq(Entries)
                    /\ object \in [Users -> Objects]
                    /\ handler \in [Handlers -> Goroutines \union {Idle}]
                    /\ mishaps \in SUBSET MishapKinds /\ old \in SUBSET Users
                    /\ odd \in [Users -> Oddities]
                    /\ migration \in Migrations /\ Linked
  BY DEF NfsTypeOK, Linked
<1>3. ASSUME UNCHANGED <<migration, migrating>> PROVE Linked'
  BY <1>2, <1>3 DEF Linked, NoneLeft, Current, Place
<1>4. CASE MigrationStep
  BY <1>1, <1>2, <1>4, MigrationTypes DEF NfsTypeOK, Linked
<1>5. CASE UNCHANGED migrationVars
  BY <1>2, <1>3, <1>5 DEF migrationVars, vars, NfsTypeOK, Linked
<1>6. ASSUME ProxyStep, NEW h \in Handlers, NEW u \in Users, NEW g, Acts(h, g, u),
             object' \in [Users -> Objects], list' \in Seq(Entries), users' \subseteq Users
      PROVE  NfsTypeOK'
  <2>1. handler' \in [Handlers -> Goroutines \union {Idle}]
    BY <1>2, <1>6 DEF Acts
  <2>2. old' \in SUBSET Users /\ odd' = odd /\ Linked'
    BY <1>2, <1>3, <1>6 DEF ProxyStep, Acts
  <2> QED BY <1>1, <1>2, <1>6, <2>1, <2>2 DEF ProxyStep, NfsTypeOK, Linked
<1>7. CASE ProxyStep
  <2>1. CASE Crash
    <3>1. handler' \in [Handlers -> Goroutines \union {Idle}]
      BY <2>1 DEF Crash
    <3>2. UNCHANGED <<users, list, object, migrating, migration, odd>> /\ old' \in SUBSET Users
      BY <1>2, <1>7, <2>1 DEF Crash, Fault, handlerVars, ProxyStep
    <3> QED BY <1>1, <1>2, <1>3, <3>1, <3>2 DEF NfsTypeOK, Linked
  <2>2. ASSUME NEW h \in Handlers, Call(h) PROVE NfsTypeOK'
    BY <1>2, <1>6, <1>7, <2>2, CallActs, ListTypes
  <2>3. ASSUME NEW h \in Handlers, NEW u \in Users, CreateUser(h, u) \/ DeleteUser(h, u)
        PROVE  NfsTypeOK'
    BY <1>2, <1>6, <1>7, <2>3, RequestActs
  <2> QED BY <1>7, <2>1, <2>2, <2>3 DEF ProxyStep, Next
<1> QED BY <1>4, <1>5, <1>7 DEF MigrationNext

-----------------------------------------------------------------------------
(* One user at a time. *)

\* The step is nothing to user v.
Untouched(v) ==
    /\ object'[v] = object[v] /\ (v \in users' <=> v \in users)
    /\ migrating' = v <=> migrating = v
    /\ migrating = v => migration'.id = migration.id
    /\ \A h \in Handlers : Does(h, v) \/ Does(h, v)' => handler'[h] = handler[h]

LEMMA BusyIs ==
  ASSUME NEW v
  PROVE  Busy(v) <=> migrating = v \/ \E h \in Handlers : Does(h, v)
  BY DEF Busy, Running, Does

LEMMA BusyIsNext ==
  ASSUME NEW v
  PROVE  Busy(v)' <=> migrating' = v \/ \E h \in Handlers : Does(h, v)'
  BY DEF Busy, Running, Does

LEMMA UntouchedIs ==
  ASSUME NEW v, Untouched(v)
  PROVE  /\ \A h \in Handlers : Does(h, v)' <=> Does(h, v)
         /\ Busy(v)' <=> Busy(v)
         /\ v \in Exportable' <=> v \in Exportable
<1>1. \A h \in Handlers : Does(h, v)' <=> Does(h, v)
  BY DEF Untouched, Does
<1>2. Busy(v)' <=> Busy(v)
  BY <1>1, BusyIs, BusyIsNext DEF Untouched
<1> QED BY <1>1, <1>2 DEF Untouched, Exportable

LEMMA ObjectStays ==
  ASSUME NEW v, Untouched(v), ObjectOK(v)
  PROVE  ObjectOK(v)'
<1>1. /\ \A h \in Handlers : Does(h, v)' <=> Does(h, v)
      /\ \A h \in Handlers : Does(h, v) => handler'[h] = handler[h]
      /\ Busy(v)' <=> Busy(v)
      /\ v \in Exportable' <=> v \in Exportable
      /\ object'[v] = object[v] /\ (v \in users' <=> v \in users)
      /\ migrating' = v <=> migrating = v
      /\ migrating = v => migration'.id = migration.id
  BY UntouchedIs DEF Untouched
<1>2. ASSUME NEW h \in Handlers, Does(h, v)' PROVE AloneOK(h, v)'
  <2>1. Does(h, v) /\ AloneOK(h, v) /\ handler'[h] = handler[h]
    BY <1>1, <1>2 DEF ObjectOK
  <2> QED BY <1>1, <2>1 DEF AloneOK
<1> QED BY <1>1, <1>2 DEF ObjectOK

LEMMA ActsLeaves ==
  ASSUME NfsTypeOK, NEW h \in Handlers, NEW g, NEW u \in Users, Acts(h, g, u),
         UNCHANGED migration, NEW v \in Users, v # u
  PROVE  Untouched(v)
<1>1. /\ object'[v] = object[v] /\ (v \in users' <=> v \in users)
      /\ migrating' = migrating
  BY DEF Acts
<1>2. ASSUME NEW k \in Handlers, Does(k, v) \/ Does(k, v)' PROVE handler'[k] = handler[k]
  BY <1>2 DEF Acts, Does, NfsTypeOK
<1> QED BY <1>1, <1>2 DEF Untouched

\* After a step of the only goroutine at work for u.
LEMMA ActsAlone ==
  ASSUME NfsTypeOK, NEW h \in Handlers, NEW g, NEW u \in Users, Acts(h, g, u),
         migrating # u, \A k \in Handlers : Does(k, u) => k = h
  PROVE  /\ handler'[h] = g /\ migrating' # u
         /\ \A k \in Handlers : Does(k, u)' <=> k = h /\ g # Idle
         /\ Busy(u)' <=> g # Idle
<1>1. handler'[h] = g /\ migrating' # u /\ \A k \in Handlers \ {h} : handler'[k] = handler[k]
  BY DEF Acts, NfsTypeOK
<1>2. \A k \in Handlers : Does(k, u)' <=> k = h /\ g # Idle
  BY <1>1 DEF Acts, Does
<1> QED BY <1>1, <1>2, BusyIsNext

LEMMA ObjectAfter ==
  ASSUME NfsTypeOK, NEW h \in Handlers, NEW g, NEW u \in Users, Acts(h, g, u),
         migrating # u, \A k \in Handlers : Does(k, u) => k = h,
         ~object'[u].exists => object'[u] = Missing,
         object'[u].content = 0 => ~object'[u].exists,
         g = Idle => (object'[u].exists <=> u \in Exportable'),
         object'[u].content = object'[u].id \/ (g # Idle /\ g.at \in {"pseudo", "attribute"}),
         g # Idle /\ g.at \in Adding =>
            /\ u \in Exportable'
            /\ g.at \in {"pick", "write"} => ~object'[u].exists
            /\ g.at # "pick" => g.id # 0
            /\ g.at \in {"pseudo", "attribute", "append"} => object'[u].content = g.id,
         g # Idle /\ g.at \in Removing => u \notin users'
  PROVE  ObjectOK(u)'
<1>1. /\ handler'[h] = g /\ migrating' # u
      /\ \A k \in Handlers : Does(k, u)' <=> k = h /\ g # Idle
      /\ Busy(u)' <=> g # Idle
  BY ActsAlone
<1>2. ASSUME NEW k \in Handlers, Does(k, u)' PROVE AloneOK(k, u)'
  <2>1. k = h /\ g # Idle /\ handler'[k] = g
    BY <1>1, <1>2
  <2> QED BY <1>1, <2>1 DEF AloneOK
<1> QED BY <1>1, <1>2 DEF ObjectOK

-----------------------------------------------------------------------------
(* The objects. *)

LEMMA AtIs ==
  /\ Adding \intersect Removing = {}
  /\ \A at \in {"pick", "write", "pseudo", "attribute", "append"} : at \in Adding /\ at \notin Removing
  /\ \A at \in {"stat", "read", "rewrite", "delete"} : at \in Removing /\ at \notin Adding
  BY DEF Adding, Removing

\* What each call makes of the goroutine that makes it, unless it fails.
LEMMA CallSteps ==
  ASSUME NfsTypeOK, NEW h \in Handlers, Call(h), "fault" \notin mishaps',
         NEW g, g = handler'[h]
  PROVE  /\ PickId(h) => g # Idle /\ g.at = "write" /\ g.id \in FreeIds
         /\ WriteObject(h) => g # Idle /\ g.at = "pseudo" /\ g.id = handler[h].id
         /\ SetPseudo(h) => g # Idle /\ g.at = "attribute" /\ g.id = handler[h].id
         /\ SetExportId(h) => g # Idle /\ g.at = "append" /\ g.id = handler[h].id
         /\ AppendEntry(h) => g = Idle
         /\ StatList(h) => g # Idle /\ g.at = "read"
         /\ ReadList(h) => g # Idle /\ g.at = "rewrite"
         /\ RewriteList(h) => g # Idle /\ g.at = "delete"
         /\ DeleteObject(h) => g = Idle
         /\ ~WriteFails(h) /\ ~ReadFails(h)
<1>1. handler[h] \in Goroutines /\ handler[h] # Idle
  BY CallActs, GoroutineAt
<1>2. ASSUME NEW step \in {"pseudo", "attribute", "append", "delete"}, GoOn(h, step)
      PROVE  g # Idle /\ g.at = step /\ g.id = handler[h].id
  <2>1. step \in Adding \union Removing
    BY AtIs
  <2>2. handler' = [handler EXCEPT ![h] = [handler[h] EXCEPT !.at = step]]
    BY <1>1, <1>2, <2>1, GoesOn
  <2>3. g = [handler[h] EXCEPT !.at = step]
    BY <2>2 DEF NfsTypeOK
  <2>4. /\ [handler[h] EXCEPT !.at = step] # Idle /\ [handler[h] EXCEPT !.at = step].at = step
        /\ [handler[h] EXCEPT !.at = step].id = handler[h].id
    BY <1>1, <1>2, <2>1, GoesOn
  <2> QED BY <2>3, <2>4
<1>3. PickId(h) => g # Idle /\ g.at = "write" /\ g.id \in FreeIds
  <2> SUFFICES ASSUME PickId(h) PROVE g # Idle /\ g.at = "write" /\ g.id \in FreeIds
      OBVIOUS
  <2>1. PICK id \in FreeIds : handler' = [handler EXCEPT ![h].at = "write", ![h].id = id]
    BY DEF PickId
  <2>2. g = [handler[h] EXCEPT !.at = "write", !.id = id]
    BY <2>1 DEF NfsTypeOK
  <2> QED BY <1>1, <2>2 DEF Goroutines, Idle
<1>4. StatList(h) => g # Idle /\ g.at = "read"
  <2> SUFFICES ASSUME StatList(h) PROVE g # Idle /\ g.at = "read"
      OBVIOUS
  <2>1. g = [handler[h] EXCEPT !.at = "read", !.size = Len(list)]
    BY DEF StatList, NfsTypeOK
  <2> QED BY <1>1, <2>1 DEF Goroutines, Idle
<1>5. ReadList(h) => g # Idle /\ g.at = "rewrite"
  <2> SUFFICES ASSUME ReadList(h) PROVE g # Idle /\ g.at = "rewrite"
      OBVIOUS
  <2>1. g = [handler[h] EXCEPT !.at = "rewrite", !.data = ReadBuffer(handler[h].size)]
    BY DEF ReadList, NfsTypeOK
  <2> QED BY <1>1, <2>1 DEF Goroutines, Idle
<1>6. Ends(h) => g = Idle
  BY DEF Ends, NfsTypeOK
<1>7. ~WriteFails(h) /\ ~ReadFails(h)
  BY DEF WriteFails, ReadFails, Fault
<1>8. /\ WriteObject(h) => GoOn(h, "pseudo")
      /\ SetPseudo(h) => GoOn(h, "attribute")
      /\ SetExportId(h) => GoOn(h, "append")
      /\ RewriteList(h) => GoOn(h, "delete")
      /\ AppendEntry(h) => Ends(h)
      /\ DeleteObject(h) => Ends(h)
  BY DEF WriteObject, SetPseudo, SetExportId, RewriteList, Rewrite, AppendEntry, DeleteObject
<1> QED BY <1>2, <1>3, <1>4, <1>5, <1>6, <1>7, <1>8

LEMMA FreeIdsAre == 0 \notin FreeIds /\ FreeIds \subseteq Ids \union {NoId}
  BY IdsAre DEF FreeIds

LEMMA ObjectCalled ==
  ASSUME NfsTypeOK, NEW h \in Handlers, Call(h), "fault" \notin mishaps',
         NEW u \in Users, u = handler[h].user, ObjectOK(u)
  PROVE  ObjectOK(u)'
<1>1. PICK g : Acts(h, g, u)
  BY CallActs
<1>2. g = handler'[h] /\ users' = users /\ handler[h] # Idle /\ Does(h, u)
  BY <1>1, CallActs DEF Acts, NfsTypeOK, Does
<1>3. AloneOK(h, u) /\ migrating # u /\ (\A k \in Handlers : Does(k, u) => k = h) /\ Busy(u)
  BY <1>2, BusyIs DEF ObjectOK, AloneOK
<1>4. /\ u \in Exportable' <=> u \in Exportable
      /\ ~object[u].exists => object[u].content = 0 /\ object[u].id = 0 /\ object[u] = Missing
      /\ object[u].content = 0 => ~object[u].exists
      /\ handler[h].at \notin {"pseudo", "attribute"} => object[u].content = object[u].id
  BY <1>2, <1>3 DEF ObjectOK, Missing, Exportable
<1>5. PickId(h) => g # Idle /\ g.at = "write" /\ g.id \in FreeIds
  BY <1>2, CallSteps
<1>6. CASE PickId(h)
  BY <1>1, <1>2, <1>3, <1>4, <1>5, <1>6, FreeIdsAre, AtIs, ObjectAfter DEF PickId, At, AloneOK
<1>7. CASE WriteObject(h)
  <2>1. g # Idle /\ g.at = "pseudo" /\ g.id = handler[h].id
    BY <1>2, <1>7, CallSteps
  <2>2. object'[u].exists /\ object'[u].content = handler[h].id
    BY <1>2, <1>7, StoredIs DEF WriteObject
  <2>3. u \in Exportable /\ handler[h].id # 0
    BY <1>3, <1>7, AtIs DEF WriteObject, At, AloneOK
  <2> QED BY <1>1, <1>2, <1>3, <1>4, <2>1, <2>2, <2>3, AtIs, ObjectAfter
<1>8. CASE SetPseudo(h)
  <2>1. g # Idle /\ g.at = "attribute" /\ g.id = handler[h].id
    BY <1>2, <1>8, CallSteps
  <2>2. u \in Exportable /\ handler[h].id # 0 /\ object[u].content = handler[h].id
    BY <1>3, <1>8, AtIs DEF SetPseudo, At, AloneOK
  <2>3. object'[u].exists /\ object'[u].content = object[u].content
    BY <1>2, <1>8 DEF SetPseudo, NfsTypeOK, Objects
  <2> QED BY <1>1, <1>2, <1>3, <1>4, <2>1, <2>2, <2>3, AtIs, ObjectAfter
<1>9. CASE SetExportId(h)
  <2>1. g # Idle /\ g.at = "append" /\ g.id = handler[h].id
    BY <1>2, <1>9, CallSteps
  <2>2. u \in Exportable /\ handler[h].id # 0 /\ object[u].content = handler[h].id
    BY <1>3, <1>9, AtIs DEF SetExportId, At, AloneOK
  <2>3. object'[u].exists /\ object'[u].content = object[u].content /\ object'[u].id = handler[h].id
    BY <1>2, <1>9, StoredIs DEF SetExportId
  <2> QED BY <1>1, <1>2, <1>3, <1>4, <2>1, <2>2, <2>3, AtIs, ObjectAfter
<1>10. CASE AppendEntry(h)
  <2>1. g = Idle /\ object' = object
    BY <1>2, <1>10, CallSteps DEF AppendEntry
  <2>2. /\ u \in Exportable /\ handler[h].id # 0 /\ object[u].content = handler[h].id
        /\ object[u].content = object[u].id
    BY <1>3, <1>4, <1>10, AtIs DEF AppendEntry, At, AloneOK
  <2> QED BY <1>1, <1>2, <1>3, <1>4, <2>1, <2>2, ObjectAfter
<1>11. CASE StatList(h) \/ ReadList(h) \/ RewriteList(h)
  <2>1. g # Idle /\ g.at \in {"read", "rewrite", "delete"}
    BY <1>2, <1>11, CallSteps
  <2>2. handler[h].at \in {"stat", "read", "rewrite"} /\ object' = object
    BY <1>11 DEF StatList, ReadList, RewriteList, Rewrite, At
  <2>3. u \notin users
    BY <1>3, <2>2, AtIs DEF AloneOK
  <2> QED BY <1>1, <1>2, <1>3, <1>4, <2>1, <2>2, <2>3, AtIs, ObjectAfter
<1>12. CASE DeleteObject(h)
  <2>1. g = Idle /\ object'[u] = Missing
    <3>1. g = Idle
      BY <1>2, <1>12, CallSteps
    <3>2. object' = [object EXCEPT ![u] = Missing] /\ object \in [Users -> Objects]
      BY <1>12 DEF DeleteObject, NfsTypeOK
    <3> QED BY <3>1, <3>2
  <2>2. u \notin users
    BY <1>3, <1>12, AtIs DEF AloneOK, DeleteObject, At
  <2>3. u \notin Exportable' /\ Missing.content = 0 /\ Missing.id = 0 /\ ~Missing.exists
    BY <1>2, <2>2 DEF Exportable, Missing
  <2> QED BY <1>1, <1>2, <1>3, <2>1, <2>2, <2>3, ObjectAfter
<1> QED BY <1>2, <1>6, <1>7, <1>8, <1>9, <1>10, <1>11, <1>12, CallSteps DEF Call

LEMMA ObjectRequested ==
  ASSUME NfsTypeOK, NEW h \in Handlers, NEW u \in Users, CreateUser(h, u) \/ DeleteUser(h, u),
         "sameUser" \notin mishaps', ObjectOK(u)
  PROVE  ObjectOK(u)'
<1>1. PICK g : Acts(h, g, u)
  BY RequestActs
<1>2. g = handler'[h] /\ object' = object
  BY <1>1, RequestActs DEF Acts, NfsTypeOK
<1>3. ~Busy(u)
  BY DEF CreateUser, DeleteUser, Starts
<1>4. migrating # u /\ \A k \in Handlers : ~Does(k, u)
  BY <1>3, BusyIs
<1>5. /\ object[u].exists <=> u \in Exportable
      /\ object[u].content = object[u].id
      /\ ~object[u].exists => object[u] = Missing
      /\ object[u].content = 0 => ~object[u].exists
  BY <1>3, <1>4 DEF ObjectOK
<1>6. CASE CreateUser(h, u)
  <2>1. u \notin users /\ u \in users' /\ ~object[u].exists
    BY <1>5, <1>6 DEF CreateUser, Exportable
  <2>2. handler' = [handler EXCEPT ![h] = IF u \in Unexported THEN Idle ELSE Started("add", u, "pick")]
    BY <1>6 DEF CreateUser, Starts
  <2>3. g = IF u \in Unexported THEN Idle ELSE Started("add", u, "pick")
    BY <1>2, <2>2 DEF NfsTypeOK
  <2>4. CASE u \in Unexported
    <3>1. g = Idle /\ u \notin Exportable'
      BY <2>3, <2>4 DEF Exportable
    <3> QED BY <1>1, <1>2, <1>4, <1>5, <2>1, <3>1, ObjectAfter
  <2>5. CASE u \notin Unexported
    <3>1. g # Idle /\ g.at = "pick" /\ u \in Exportable'
      BY <2>1, <2>3, <2>5, AtIs, StartedIs DEF Exportable
    <3> QED BY <1>1, <1>2, <1>4, <1>5, <2>1, <3>1, AtIs, ObjectAfter
  <2> QED BY <2>4, <2>5
<1>7. CASE DeleteUser(h, u)
  <2>1. u \notin users' /\ g = Started("remove", u, "stat")
    BY <1>2, <1>7 DEF DeleteUser, Starts, NfsTypeOK
  <2>2. g # Idle /\ g.at = "stat"
    BY <2>1, AtIs, StartedIs
  <2> QED BY <1>1, <1>2, <1>4, <1>5, <2>1, <2>2, AtIs, ObjectAfter
<1> QED BY <1>6, <1>7

\* The migration is at the same user as before, comes to the next, or leaves one.
LEMMA MigrationMoves ==
  ASSUME NfsTypeOK, MigrationStep, "fault" \notin mishaps'
  PROVE  \/ migrating' = migrating /\ (migrating # Nobody => migration'.id = migration.id)
         \/ /\ ReadExport /\ ~NoneLeft /\ migrating' = Current
            /\ migrating = Nobody /\ migration'.id = object[Current].content
            /\ object[Current].content # 0 /\ object' = object /\ Current \in old
            /\ "sameUser" \notin mishaps' => ~Busy(Current)
         \/ migrating' = Nobody /\ migration.at \in Rewriting
<1>1. ~MigrationCallFails
  BY DEF MigrationCallFails
<1>2. {"info", "write", "pseudo", "attribute"} = Rewriting
  BY DEF Rewriting
<1>3. migration.at \notin Rewriting => migrating = Nobody
  BY DEF NfsTypeOK
<1>4. CASE StatExports \/ ReadExports \/ MigrationEnds
  BY <1>2, <1>3, <1>4 DEF StatExports, ReadExports, MigrationEnds, MigrationAt
<1>5. CASE LoadUser
  BY <1>2, <1>5, MigrationTo DEF LoadUser, MigrationAt, MigrationSteps
<1>6. CASE RewriteExport \/ RewritePseudo
  BY <1>2, <1>6, MigrationTo DEF RewriteExport, RewritePseudo, MigrationSteps
<1>7. CASE RewriteId
  BY <1>2, <1>7 DEF RewriteId, MigrationAt
<1>8. CASE ReadExport
  <2>1. migrating = Nobody /\ ~NoneLeft /\ object' = object
    BY <1>2, <1>3, <1>8 DEF ReadExport, MigrationAt, pool
  <2>2. CASE Unreadable(Current)
    BY <1>8, <2>1, <2>2 DEF ReadExport, MigrationDies
  <2>3. CASE ~Unreadable(Current) /\ Current \notin old
    BY <1>8, <2>1, <2>3 DEF ReadExport
  <2>4. CASE ~Unreadable(Current) /\ Current \in old
    <3>1. /\ migration' = [migration EXCEPT !.at = "info", !.id = object[Current].content]
          /\ migrating' = Current
          /\ "sameUser" \notin mishaps' => ~Busy(Current)
      BY <1>8, <2>4 DEF ReadExport
    <3>2. migration'.id = object[Current].content
      BY <3>1 DEF NfsTypeOK, Migrations
    <3> QED BY <1>8, <2>1, <2>4, <3>1, <3>2 DEF Unreadable
  <2> QED BY <2>2, <2>3, <2>4
<1> QED BY <1>1, <1>4, <1>5, <1>6, <1>7, <1>8 DEF MigrationStep

\* While it is at a user, nothing else is, and it writes what is there.
LEMMA MigrationAlone ==
  ASSUME NfsTypeOK, migration.at \in Rewriting, ObjectOK(Current)
  PROVE  /\ \A h \in Handlers : ~Does(h, Current)
         /\ object[Current].exists /\ object[Current].content = migration.id
         /\ object[Current].content = object[Current].id
<1>1. migrating = Current
  BY RewritesCurrent
<1>2. \A h \in Handlers : ~Does(h, Current)
  BY <1>1 DEF ObjectOK, AloneOK
<1> QED BY <1>1, <1>2 DEF ObjectOK

LEMMA MigrationKeepsObjects ==
  ASSUME NfsTypeOK, MigrationStep, migration.at \in Rewriting => ObjectOK(Current)
  PROVE  object' = object
<1>1. CASE RewriteExport \/ RewritePseudo \/ RewriteId
  <2>1. migration.at \in Rewriting
    BY <1>1 DEF RewriteExport, RewritePseudo, RewriteId, MigrationAt, Rewriting
  <2>2. PICK u \in Users : u = Current
    BY <2>1, RewritesCurrent
  <2>3. /\ object' \in [Users -> Objects] /\ object \in [Users -> Objects]
        /\ \A v \in Users \ {u} : object'[v] = object[v]
    BY <1>1, <2>1, <2>2, ObjectWritten DEF NfsTypeOK
  <2>4. /\ object'[u].exists /\ object[u].exists
        /\ object'[u].content = object[u].content /\ object'[u].id = object[u].id
    BY <1>1, <2>1, <2>2, ObjectWritten, MigrationAlone
  <2>5. object'[u] = object[u]
    BY <2>3, <2>4 DEF Objects
  <2> QED BY <2>3, <2>5
<1>2. CASE UNCHANGED object
  BY <1>2
<1> QED BY <1>1, <1>2 DEF MigrationStep, MigrationCallFails, StatExports, ReadExports, ReadExport,
        LoadUser, MigrationEnds, pool

LEMMA ObjectMigrated ==
  ASSUME NfsTypeOK, MigrationStep, mishaps' \intersect {"sameUser", "fault"} = {},
         \A u \in Users : ObjectOK(u), NEW v \in Users
  PROVE  ObjectOK(v)'
<1>1. migration.at \in Rewriting => Current \in Users /\ migrating = Current
  BY RewritesCurrent
<1>2. object' = object /\ users' = users /\ handler' = handler
  BY <1>1, MigrationKeepsObjects, MigrationTypes
<1>3. ObjectOK(v) /\ Nobody # v
  BY UsersAssumption
<1>4. ASSUME migrating' = v <=> migrating = v, migrating = v => migration'.id = migration.id
      PROVE  ObjectOK(v)'
  <2>1. Untouched(v)
    BY <1>2, <1>4 DEF Untouched
  <2> QED BY <1>3, <2>1, ObjectStays
<1>5. \A h \in Handlers : Does(h, v)' <=> Does(h, v)
  BY <1>2 DEF Does
<1>6. v \in Exportable' <=> v \in Exportable
  BY <1>2 DEF Exportable
<1>7. CASE migrating' = migrating /\ (migrating # Nobody => migration'.id = migration.id)
  BY <1>3, <1>4, <1>7
<1>8. CASE /\ migrating' = Current /\ migrating = Nobody /\ v = Current
           /\ migration'.id = object[Current].content
           /\ object[Current].content # 0 /\ ~Busy(Current)
  <2>1. object[v].exists /\ v \in Exportable /\ object[v].content = object[v].id
    BY <1>3, <1>8, BusyIs DEF ObjectOK, Missing
  <2>2. \A h \in Handlers : ~Does(h, v)'
    BY <1>5, <1>8, BusyIs
  <2> QED BY <1>2, <1>6, <1>8, <2>1, <2>2 DEF ObjectOK
<1>9. CASE migrating' = Nobody /\ migration.at \in Rewriting /\ v = Current
  <2>1. /\ object[v].exists /\ v \in Exportable /\ object[v].content = object[v].id
        /\ \A h \in Handlers : ~Does(h, v)'
    BY <1>1, <1>3, <1>5, <1>9, MigrationAlone DEF ObjectOK
  <2>2. migrating' # v
    BY <1>3, <1>9
  <2>3. object[v].content = 0 => ~object[v].exists
    BY <1>3 DEF ObjectOK
  <2> QED BY <1>2, <1>6, <2>1, <2>2, <2>3 DEF ObjectOK
<1>10. CASE v # Current /\ migrating' \in {Current, Nobody} /\ migrating \in {Current, Nobody}
  BY <1>3, <1>4, <1>10
<1> QED BY <1>1, <1>7, <1>8, <1>9, <1>10, MigrationMoves

LEMMA ObjectStep ==
  ASSUME NfsTypeOK, ObjectInv, [MigrationNext]_migrationVars
  PROVE  ObjectInv'
<1> SUFFICES ASSUME mishaps' \intersect {"sameUser", "fault"} = {}, NEW v \in Users
             PROVE  ObjectOK(v)'
    BY DEF ObjectInv, Free
<1>1. \A u \in Users : ObjectOK(u)
  BY MishapsAre DEF ObjectInv, Free
<1>2. CASE MigrationStep
  BY <1>1, <1>2, ObjectMigrated
<1>3. CASE UNCHANGED migrationVars
  <2>1. Untouched(v)
    BY <1>3 DEF Untouched, migrationVars, vars
  <2> QED BY <1>1, <2>1, ObjectStays
<1>4. ~Crash
  BY DEF Crash, Fault
<1>5. ASSUME ProxyStep, NEW h \in Handlers, Call(h) PROVE ObjectOK(v)'
  <2>1. PICK u \in Users, g \in Goroutines \union {Idle} : u = handler[h].user /\ Acts(h, g, u)
    BY <1>5, CallActs DEF Acts
  <2>2. CASE v = u
    BY <1>1, <1>5, <2>1, <2>2, ObjectCalled
  <2>3. CASE v # u
    BY <1>1, <1>5, <2>1, <2>3, ActsLeaves, ObjectStays DEF ProxyStep
  <2> QED BY <2>2, <2>3
<1>6. ASSUME ProxyStep, NEW h \in Handlers, NEW u \in Users, CreateUser(h, u) \/ DeleteUser(h, u)
      PROVE  ObjectOK(v)'
  <2>1. PICK g : Acts(h, g, u)
    BY <1>6, RequestActs
  <2>2. CASE v = u
    BY <1>1, <1>6, <2>2, ObjectRequested
  <2>3. CASE v # u
    BY <1>1, <1>6, <2>1, <2>3, ActsLeaves, ObjectStays DEF ProxyStep
  <2> QED BY <2>2, <2>3
<1> QED BY <1>2, <1>3, <1>4, <1>5, <1>6 DEF MigrationNext, ProxyStep, Next

-----------------------------------------------------------------------------
(* The list. *)

LEMMA ElementsAre ==
  ASSUME NEW T, NEW s \in Seq(T)
  PROVE  /\ DOMAIN s = 1 .. Len(s) /\ Len(s) \in Nat
         /\ \A u : u \in Range(s) <=> \E i \in 1 .. Len(s) : s[i] = u
  BY LenProperties DEF Range

LEMMA Appended ==
  ASSUME NEW T, NEW s \in Seq(T), NEW u \in T
  PROVE  /\ Append(s, u) \in Seq(T)
         /\ \A v : v \in Range(Append(s, u)) <=> v \in Range(s) \/ v = u
         /\ IsInjective(s) /\ u \notin Range(s) => IsInjective(Append(s, u))
<1> DEFINE t == Append(s, u)
<1>1. PICK n \in Nat : n = Len(s)
  BY LenProperties
<1>2. /\ t \in Seq(T) /\ Len(t) = n + 1 /\ t[n + 1] = u
      /\ \A i \in 1 .. n : t[i] = s[i]
  BY <1>1, AppendProperties
<1> HIDE DEF t
<1>3. DOMAIN t = 1 .. n + 1 /\ \A v : v \in Range(t) <=> \E i \in 1 .. n + 1 : t[i] = v
  BY <1>2, ElementsAre
<1>4. DOMAIN s = 1 .. n /\ \A v : v \in Range(s) <=> \E i \in 1 .. n : s[i] = v
  BY <1>1, ElementsAre
<1>5. \A v : v \in Range(t) <=> v \in Range(s) \/ v = u
  BY <1>2, <1>3, <1>4
<1>6. ASSUME IsInjective(s), u \notin Range(s) PROVE IsInjective(t)
  <2> SUFFICES ASSUME NEW a \in 1 .. n + 1, NEW b \in 1 .. n + 1, t[a] = t[b] PROVE a = b
      BY <1>3 DEF IsInjective
  <2> QED BY <1>2, <1>4, <1>6 DEF IsInjective
<1> QED BY <1>2, <1>5, <1>6 DEF t

LEMMA TakenOutOnce ==
  ASSUME NEW T, NEW s \in Seq(T), NEW u, IsInjective(s)
  PROVE  /\ Without(s, u) \in Seq(T) /\ IsInjective(Without(s, u))
         /\ \A v : v \in Range(Without(s, u)) <=> v \in Range(s) /\ v # u
<1>1. CASE u \notin Range(s)
  BY <1>1, WithoutIs
<1>2. CASE u \in Range(s)
  <2> DEFINE t == Without(s, u)
  <2>1. PICK k \in 1 .. Len(s) : s[k] = u /\ TakenOut(s, t, k)
    BY <1>2, WithoutIs
  <2>2. t \in Seq(T)
    BY WithoutIs
  <2> HIDE DEF t
  <2>3. PICK n \in Nat : n = Len(s)
    BY LenProperties
  <2>4. /\ DOMAIN s = 1 .. n /\ k \in 1 .. n /\ Len(t) = n - 1
        /\ \A v : v \in Range(s) <=> \E i \in 1 .. n : s[i] = v
    BY <2>1, <2>3, ElementsAre DEF TakenOut
  <2>5. \A i \in 1 .. n - 1 : t[i] = IF i < k THEN s[i] ELSE s[i + 1]
    BY <2>1, <2>4 DEF TakenOut
  <2>6. /\ DOMAIN t = 1 .. n - 1
        /\ \A v : v \in Range(t) <=> \E i \in 1 .. n - 1 : t[i] = v
    BY <2>2, <2>4, ElementsAre
  <2>7. \A a, b \in 1 .. n : s[a] = s[b] => a = b
    BY <2>4 DEF IsInjective
  <2> DEFINE from(i) == IF i < k THEN i ELSE i + 1
  <2>8. \A i \in 1 .. n - 1 : from(i) \in 1 .. n /\ from(i) # k /\ t[i] = s[from(i)]
    BY <2>4, <2>5
  <2>9. \A a, b \in 1 .. n - 1 : from(a) = from(b) => a = b
    BY <2>4
  <2>10. \A j \in 1 .. n : j # k => \E i \in 1 .. n - 1 : from(i) = j
    <3> SUFFICES ASSUME NEW j \in 1 .. n, j # k PROVE \E i \in 1 .. n - 1 : from(i) = j
        OBVIOUS
    <3>1. CASE j < k
      BY <2>4, <3>1
    <3>2. CASE j > k
      <4>1. j - 1 \in 1 .. n - 1 /\ from(j - 1) = j
        BY <2>4, <3>2
      <4> QED BY <4>1
    <3> QED BY <2>4, <3>1, <3>2
  <2> HIDE DEF from
  <2>11. IsInjective(t)
    BY <2>6, <2>7, <2>8, <2>9 DEF IsInjective
  <2>12. ASSUME NEW v PROVE v \in Range(t) <=> v \in Range(s) /\ v # u
    <3>1. ASSUME v \in Range(t) PROVE v \in Range(s) /\ v # u
      <4>1. PICK i \in 1 .. n - 1 : t[i] = v
        BY <2>6, <3>1
      <4> QED BY <2>1, <2>4, <2>7, <2>8, <4>1
    <3>2. ASSUME v \in Range(s), v # u PROVE v \in Range(t)
      <4>1. PICK j \in 1 .. n : s[j] = v
        BY <2>4, <3>2
      <4>2. PICK i \in 1 .. n - 1 : from(i) = j
        BY <2>1, <2>10, <3>2, <4>1
      <4> QED BY <2>6, <2>8, <4>1, <4>2
    <3> QED BY <3>1, <3>2
  <2> QED BY <2>2, <2>11, <2>12 DEF t
<1> QED BY <1>1, <1>2

LEMMA EntryStays ==
  ASSUME NEW v, Untouched(v), v \in Listed' <=> v \in Listed, EntryOK(v)
  PROVE  EntryOK(v)'
<1>1. /\ \A h \in Handlers : Does(h, v)' <=> Does(h, v)
      /\ \A h \in Handlers : Does(h, v) => handler'[h] = handler[h]
      /\ Busy(v)' <=> Busy(v)
      /\ v \in Exportable' <=> v \in Exportable
      /\ object'[v] = object[v] /\ (migrating' = v <=> migrating = v)
  BY UntouchedIs DEF Untouched
<1> QED BY <1>1 DEF EntryOK

LEMMA EntryAfter ==
  ASSUME NfsTypeOK, NEW h \in Handlers, NEW g, NEW u \in Users, Acts(h, g, u),
         migrating # u, \A k \in Handlers : Does(k, u) => k = h,
         g = Idle => (u \in Listed' <=> u \in Exportable'),
         u \in Listed' => object'[u].exists,
         g # Idle /\ g.at \in Adding \union {"delete"} => u \notin Listed'
  PROVE  EntryOK(u)'
<1>1. /\ handler'[h] = g /\ migrating' # u
      /\ \A k \in Handlers : Does(k, u)' <=> k = h /\ g # Idle
      /\ Busy(u)' <=> g # Idle
  BY ActsAlone
<1> QED BY <1>1 DEF EntryOK

LEMMA EntryMigrated ==
  ASSUME NfsTypeOK, MigrationStep, mishaps' \intersect {"sameUser", "fault"} = {},
         \A u \in Users : ObjectOK(u), NEW v \in Users, EntryOK(v)
  PROVE  EntryOK(v)'
<1>1. migration.at \in Rewriting => Current \in Users /\ migrating = Current
  BY RewritesCurrent
<1>2. object' = object /\ users' = users /\ handler' = handler /\ list' = list
  BY <1>1, MigrationKeepsObjects, MigrationTypes
<1>3. (\A h \in Handlers : Does(h, v)' <=> Does(h, v)) /\ Nobody # v
  BY <1>2, UsersAssumption DEF Does
<1>4. v \in Exportable' <=> v \in Exportable
  BY <1>2 DEF Exportable
<1>5. ~Busy(v)' \/ migrating' = v => ~Busy(v) \/ migrating = v
  BY <1>1, <1>3, BusyIs, BusyIsNext, MigrationMoves
<1>6. v \in Listed' <=> v \in Listed
  BY <1>2 DEF Listed
<1> QED BY <1>2, <1>3, <1>4, <1>5, <1>6 DEF EntryOK

LEMMA ListCalled ==
  ASSUME NfsTypeOK, NEW h \in Handlers, Call(h), ObjectOK(handler[h].user), EntryOK(handler[h].user),
         list \in Seq(Users), IsInjective(list), mishaps' \intersect {"staleList", "fault"} = {},
         NEW u \in Users, u = handler[h].user
  PROVE  /\ list' \in Seq(Users) /\ IsInjective(list') /\ EntryOK(u)'
         /\ \A v \in Users \ {u} : v \in Listed' <=> v \in Listed
<1>1. PICK g : Acts(h, g, u)
  BY CallActs
<1>2. g = handler'[h] /\ users' = users /\ handler[h] # Idle /\ Does(h, u)
  BY <1>1, CallActs DEF Acts, NfsTypeOK, Does
<1>3. AloneOK(h, u) /\ migrating # u /\ (\A k \in Handlers : Does(k, u) => k = h)
  BY <1>2 DEF ObjectOK, AloneOK
<1>4. /\ u \in Exportable' <=> u \in Exportable
      /\ u \in Listed => object[u].exists
      /\ handler[h].at \in Adding \union {"delete"} => u \notin Listed
  BY <1>2 DEF EntryOK, Exportable
<1>5. "fault" \notin mishaps' /\ "staleList" \notin mishaps'
  OBVIOUS
<1>6. CASE PickId(h) \/ WriteObject(h) \/ SetPseudo(h) \/ SetExportId(h)
  <2>1. /\ list' = list /\ Listed' = Listed
        /\ handler[h].at \in Adding
    BY <1>6, AtIs DEF PickId, WriteObject, SetPseudo, SetExportId, At, Listed
  <2>2. g # Idle /\ u \notin Listed'
    BY <1>2, <1>4, <1>5, <1>6, <2>1, CallSteps
  <2> QED BY <1>1, <1>3, <2>1, <2>2, EntryAfter
<1>7. CASE AppendEntry(h)
  <2>1. list' = Append(list, u) /\ object' = object /\ handler[h].at = "append"
    BY <1>7 DEF AppendEntry, At
  <2>2. g = Idle /\ u \in Exportable /\ u \notin Listed
    BY <1>2, <1>3, <1>4, <1>5, <1>7, <2>1, AtIs, CallSteps DEF AloneOK
  <2>3. /\ list' \in Seq(Users) /\ IsInjective(list')
        /\ \A v : v \in Listed' <=> v \in Listed \/ v = u
    BY <2>1, <2>2, Appended DEF Listed
  <2>4. object[u].exists
    BY <1>2, <1>3, <2>1, AtIs, IdsAre DEF ObjectOK, AloneOK, Missing
  <2> QED BY <1>1, <1>3, <1>4, <2>1, <2>2, <2>3, <2>4, EntryAfter
<1>8. CASE StatList(h) \/ ReadList(h)
  <2>1. list' = list /\ Listed' = Listed /\ object' = object
    BY <1>8 DEF StatList, ReadList, Listed
  <2>2. g # Idle /\ g.at \in {"read", "rewrite"}
    BY <1>2, <1>5, <1>8, CallSteps
  <2> QED BY <1>1, <1>3, <1>4, <2>1, <2>2, AtIs, EntryAfter
<1>9. CASE RewriteList(h)
  <2>1. list' = Without(list, u) /\ object' = object
    BY <1>5, <1>9 DEF RewriteList, Rewrite
  <2>2. g # Idle
    BY <1>2, <1>5, <1>9, CallSteps
  <2>3. /\ list' \in Seq(Users) /\ IsInjective(list')
        /\ \A v : v \in Listed' <=> v \in Listed /\ v # u
    BY <2>1, TakenOutOnce DEF Listed
  <2> QED BY <1>1, <1>3, <2>1, <2>2, <2>3, EntryAfter
<1>10. CASE DeleteObject(h)
  <2>1. list' = list /\ Listed' = Listed /\ handler[h].at = "delete"
    BY <1>10 DEF DeleteObject, At, Listed
  <2>2. g = Idle /\ u \notin Listed'
    BY <1>2, <1>4, <1>5, <1>10, <2>1, CallSteps
  <2>3. u \notin Exportable
    BY <1>3, <2>1, AtIs DEF AloneOK, Exportable
  <2> QED BY <1>1, <1>3, <1>4, <2>1, <2>2, <2>3, EntryAfter
<1> QED BY <1>2, <1>5, <1>6, <1>7, <1>8, <1>9, <1>10, CallSteps DEF Call

LEMMA EntryRequested ==
  ASSUME NfsTypeOK, NEW h \in Handlers, NEW u \in Users, CreateUser(h, u) \/ DeleteUser(h, u),
         "sameUser" \notin mishaps', ObjectOK(u), EntryOK(u)
  PROVE  EntryOK(u)'
<1>1. PICK g : Acts(h, g, u)
  BY RequestActs
<1>2. g = handler'[h] /\ object' = object /\ list' = list /\ Listed' = Listed
  BY <1>1, RequestActs DEF Acts, NfsTypeOK, Listed
<1>3. ~Busy(u)
  BY DEF CreateUser, DeleteUser, Starts
<1>4. migrating # u /\ \A k \in Handlers : ~Does(k, u)
  BY <1>3, BusyIs
<1>5. (u \in Listed <=> u \in Exportable) /\ (u \in Listed => object[u].exists)
  BY <1>3 DEF EntryOK
<1>6. CASE CreateUser(h, u)
  <2>1. u \notin Listed /\ u \in users'
    BY <1>5, <1>6 DEF CreateUser, Exportable
  <2>2. g = IF u \in Unexported THEN Idle ELSE Started("add", u, "pick")
    BY <1>2, <1>6 DEF CreateUser, Starts, NfsTypeOK
  <2>3. u \notin Unexported => g # Idle
    BY <2>2, AtIs, StartedIs
  <2>4. u \in Unexported => u \notin Exportable'
    BY DEF Exportable
  <2> QED BY <1>1, <1>2, <1>4, <2>1, <2>3, <2>4, EntryAfter
<1>7. CASE DeleteUser(h, u)
  <2>1. g = Started("remove", u, "stat")
    BY <1>2, <1>7 DEF DeleteUser, Starts, NfsTypeOK
  <2>2. g # Idle /\ g.at = "stat"
    BY <2>1, AtIs, StartedIs
  <2> QED BY <1>1, <1>2, <1>4, <1>5, <2>2, AtIs, EntryAfter
<1> QED BY <1>6, <1>7

LEMMA ListStep ==
  ASSUME NfsTypeOK, ObjectInv, ListInv, [MigrationNext]_migrationVars
  PROVE  ListInv'
<1> SUFFICES ASSUME mishaps' \intersect {"sameUser", "staleList", "fault"} = {}
             PROVE  (list \in Seq(Users) /\ IsInjective(list) /\ \A u \in Users : EntryOK(u))'
    BY DEF ListInv, Free
<1>1. /\ mishaps' \intersect {"sameUser", "fault"} = {} /\ mishaps' \intersect {"staleList", "fault"} = {}
      /\ "sameUser" \notin mishaps' /\ "fault" \notin mishaps'
  OBVIOUS
<1>2. /\ \A u \in Users : ObjectOK(u) /\ EntryOK(u)
      /\ list \in Seq(Users) /\ IsInjective(list)
  BY MishapsAre DEF ListInv, ObjectInv, Free
<1>3. CASE MigrationStep
  <2>1. list' = list
    BY <1>3, MigrationTypes
  <2>2. \A u \in Users : EntryOK(u)'
    BY <1>1, <1>2, <1>3, EntryMigrated
  <2> QED BY <1>2, <2>1, <2>2
<1>4. CASE UNCHANGED migrationVars
  <2>1. list' = list /\ Listed' = Listed /\ \A u \in Users : Untouched(u)
    BY <1>4 DEF Untouched, Listed, migrationVars, vars
  <2>2. \A u \in Users : EntryOK(u)'
    BY <1>2, <2>1, EntryStays
  <2> QED BY <1>2, <2>1, <2>2
<1>5. ~Crash
  BY <1>1 DEF Crash, Fault
<1>6. ASSUME ProxyStep, NEW h \in Handlers, Call(h)
      PROVE  (list \in Seq(Users) /\ IsInjective(list) /\ \A u \in Users : EntryOK(u))'
  <2>1. PICK u \in Users, g \in Goroutines \union {Idle} : u = handler[h].user /\ Acts(h, g, u)
    BY <1>6, CallActs DEF Acts
  <2>2. /\ list' \in Seq(Users) /\ IsInjective(list') /\ EntryOK(u)'
        /\ \A v \in Users \ {u} : v \in Listed' <=> v \in Listed
    BY <1>1, <1>2, <1>6, <2>1, ListCalled
  <2>3. ASSUME NEW v \in Users, v # u PROVE EntryOK(v)'
    BY <1>2, <1>6, <2>1, <2>2, <2>3, ActsLeaves, EntryStays DEF ProxyStep
  <2> QED BY <2>2, <2>3
<1>7. ASSUME ProxyStep, NEW h \in Handlers, NEW u \in Users, CreateUser(h, u) \/ DeleteUser(h, u)
      PROVE  (list \in Seq(Users) /\ IsInjective(list) /\ \A v \in Users : EntryOK(v))'
  <2>1. PICK g : Acts(h, g, u)
    BY <1>7, RequestActs
  <2>2. list' = list /\ Listed' = Listed
    BY <1>7, RequestActs DEF Listed
  <2>3. EntryOK(u)'
    BY <1>1, <1>2, <1>7, EntryRequested
  <2>4. ASSUME NEW v \in Users, v # u PROVE EntryOK(v)'
    BY <1>2, <1>7, <2>1, <2>2, <2>4, ActsLeaves, EntryStays DEF ProxyStep
  <2> QED BY <1>2, <2>2, <2>3, <2>4
<1> QED BY <1>3, <1>4, <1>5, <1>6, <1>7 DEF MigrationNext, ProxyStep, Next

-----------------------------------------------------------------------------
(* The export ids. *)

\* A step that writes no content and takes no new id.
LEMMA IdsStay ==
  ASSUME NfsTypeOK, IdsOK, NEW h \in Handlers,
         \A k \in Handlers \ {h} : handler'[k] = handler[k],
         Pending(h)' => Pending(h) /\ handler'[h].user = handler[h].user /\ handler'[h].id = handler[h].id,
         \A u \in Users : object'[u].content = object[u].content
  PROVE  IdsOK'
<1>1. ASSUME NEW k \in Handlers, Pending(k)'
      PROVE  Pending(k) /\ handler'[k].user = handler[k].user /\ handler'[k].id = handler[k].id
  BY <1>1 DEF Pending
<1> QED BY <1>1 DEF IdsOK, ExportIdsDiffer

LEMMA IdsCalled ==
  ASSUME NfsTypeOK, NEW h \in Handlers, Call(h), IdsOK, \A u \in Users : ObjectOK(u),
         mishaps' \intersect {"idRace", "fault"} = {}
  PROVE  IdsOK'
<1>1. PICK u \in Users, g \in Goroutines \union {Idle} : u = handler[h].user /\ Acts(h, g, u)
  BY CallActs DEF Acts
<1>2. g = handler'[h] /\ handler[h] # Idle /\ \A k \in Handlers \ {h} : handler'[k] = handler[k]
  BY <1>1, CallActs DEF Acts, NfsTypeOK
<1>3. /\ "fault" \notin mishaps' /\ "idRace" \notin mishaps'
      /\ g # Idle => g.user = u
  BY <1>1 DEF Acts
<1>4. CASE PickId(h)
  <2>1. object' = object /\ g # Idle /\ g.at = "write" /\ g.id \in FreeIds
    BY <1>2, <1>3, <1>4, CallSteps DEF PickId
  <2>2. \A k \in Handlers \ {h} : ~Pending(k)
    BY <1>3, <1>4 DEF PickId, IdPending, Pending
  <2>3. \A k \in Handlers : Pending(k)' => k = h
    BY <1>2, <2>2 DEF Pending
  <2>4. ASSUME NEW v \in Users, v # u, object[v].content = g.id PROVE g.id = NoId
    <3>1. ~Does(h, v)
      BY <1>1, <2>4 DEF Does
    <3>2. \A k \in Handlers : Does(k, v) => handler[k].at \notin {"pseudo", "attribute"}
      BY <2>2, <3>1 DEF Pending, Does
    <3>3. object[v].content = object[v].id /\ object[v].exists
      BY <2>1, <2>4, <3>2, FreeIdsAre DEF ObjectOK, Missing
    <3>4. g.id \in UsedIds
      BY <2>4, <3>3 DEF UsedIds
    <3> QED BY <2>1, <3>4 DEF FreeIds
  <2> QED BY <1>2, <1>3, <2>1, <2>3, <2>4 DEF IdsOK, ExportIdsDiffer
<1>5. CASE WriteObject(h)
  <2>1. /\ \A v \in Users \ {u} : object'[v] = object[v]
        /\ object'[u].content = handler[h].id
    BY <1>1, <1>2, <1>5, StoredIs DEF WriteObject
  <2>2. g # Idle /\ g.at = "pseudo" /\ g.id = handler[h].id
    BY <1>2, <1>3, <1>5, CallSteps
  <2>3. Pending(h)
    BY <1>5 DEF WriteObject, At, Pending
  <2>4. \A k \in Handlers : Pending(k)' => k = h
    BY <1>2, <2>3 DEF Pending, IdsOK
  <2>5. \A v \in Users \ {u} : object[v].content = handler[h].id => object[v].content = NoId
    BY <1>1, <2>3 DEF IdsOK
  <2>6. ExportIdsDiffer'
    BY <2>1, <2>5 DEF IdsOK, ExportIdsDiffer
  <2> QED BY <1>2, <1>3, <2>1, <2>2, <2>4, <2>5, <2>6 DEF IdsOK
<1>6. CASE SetPseudo(h)
  <2>1. g # Idle /\ g.at = "attribute" /\ g.id = handler[h].id
    BY <1>2, <1>3, <1>6, CallSteps
  <2>2. Pending(h)
    BY <1>6 DEF SetPseudo, At, Pending
  <2>3. object' = [object EXCEPT ![u] = [object[u] EXCEPT !.exists = TRUE]]
    BY <1>1, <1>6 DEF SetPseudo, NfsTypeOK
  <2>4. \A v \in Users : object'[v].content = object[v].content
    BY <2>3 DEF NfsTypeOK, Objects
  <2> QED BY <1>1, <1>2, <1>3, <2>1, <2>2, <2>4, IdsStay
<1>7. CASE SetExportId(h)
  <2>1. ~Pending(h)'
    BY <1>2, <1>3, <1>7, CallSteps DEF Pending
  <2>2. \A v \in Users : object'[v].content = object[v].content
    BY <1>1, <1>2, <1>7, StoredIs DEF SetExportId
  <2> QED BY <1>2, <2>1, <2>2, IdsStay
<1>8. CASE AppendEntry(h) \/ StatList(h) \/ ReadList(h) \/ RewriteList(h)
  <2>1. ~Pending(h)'
    BY <1>2, <1>3, <1>8, CallSteps DEF Pending
  <2>2. object' = object
    BY <1>8 DEF AppendEntry, StatList, ReadList, RewriteList, Rewrite
  <2> QED BY <1>2, <2>1, <2>2, IdsStay
<1>9. CASE DeleteObject(h)
  <2>1. ~Pending(h)'
    BY <1>2, <1>3, <1>9, CallSteps DEF Pending
  <2>2. object' = [object EXCEPT ![u] = Missing]
    BY <1>1, <1>9 DEF DeleteObject
  <2>3. object'[u].content = 0 /\ \A v \in Users \ {u} : object'[v] = object[v]
    BY <2>2 DEF NfsTypeOK, Missing
  <2>4. ExportIdsDiffer'
    BY <2>3 DEF IdsOK, ExportIdsDiffer
  <2>5. ASSUME NEW k \in Handlers, Pending(k)' PROVE Pending(k) /\ handler'[k] = handler[k] /\ handler[k].id # 0
    <3>1. Pending(k) /\ handler'[k] = handler[k] /\ handler[k] # Idle
      BY <1>2, <2>1, <2>5 DEF Pending
    <3>2. PICK w \in Users : w = handler[k].user
      BY <3>1, GoroutineAt
    <3>3. AloneOK(k, w)
      BY <3>1, <3>2 DEF ObjectOK, Does
    <3> QED BY <3>1, <3>3, AtIs DEF AloneOK, Pending
  <2> QED BY <2>3, <2>4, <2>5 DEF IdsOK
<1> QED BY <1>2, <1>3, <1>4, <1>5, <1>6, <1>7, <1>8, <1>9, CallSteps DEF Call

LEMMA IdsStep ==
  ASSUME NfsTypeOK, ObjectInv, IdsInv, [MigrationNext]_migrationVars
  PROVE  IdsInv'
<1> SUFFICES ASSUME mishaps' \intersect {"idRace", "sameUser", "fault"} = {} PROVE IdsOK'
    BY DEF IdsInv, Free
<1>1. /\ mishaps' \intersect {"sameUser", "fault"} = {} /\ mishaps' \intersect {"idRace", "fault"} = {}
      /\ "fault" \notin mishaps'
  OBVIOUS
<1>2. IdsOK /\ \A u \in Users : ObjectOK(u)
  BY MishapsAre DEF IdsInv, ObjectInv, Free
<1>3. CASE UNCHANGED <<object, handler>>
  BY <1>2, <1>3 DEF IdsOK, ExportIdsDiffer, Pending
<1>4. CASE MigrationStep
  <2>1. migration.at \in Rewriting => Current \in Users
    BY RewritesCurrent
  <2>2. object' = object /\ handler' = handler
    BY <1>2, <1>4, <2>1, MigrationKeepsObjects, MigrationTypes
  <2> QED BY <1>3, <2>2
<1>5. ~Crash
  BY <1>1 DEF Crash, Fault
<1>6. ASSUME NEW h \in Handlers, Call(h) PROVE IdsOK'
  BY <1>1, <1>2, <1>6, IdsCalled
<1>7. ASSUME NEW h \in Handlers, NEW u \in Users, CreateUser(h, u) \/ DeleteUser(h, u)
      PROVE  IdsOK'
  <2>1. object' = object
    BY <1>7, RequestActs
  <2>2. PICK g : /\ handler' = [handler EXCEPT ![h] = g]
                 /\ g \in {Idle, Started("add", u, "pick"), Started("remove", u, "stat")}
    BY <1>7 DEF CreateUser, DeleteUser, Starts
  <2>3. handler'[h] = g /\ \A k \in Handlers \ {h} : handler'[k] = handler[k]
    BY <2>2 DEF NfsTypeOK
  <2>4. g = Idle \/ g.at \in {"pick", "stat"}
    BY <2>2, AtIs, StartedIs
  <2>5. ~Pending(h)'
    BY <2>3, <2>4 DEF Pending
  <2> QED BY <1>2, <2>1, <2>3, <2>5, IdsStay
<1> QED BY <1>3, <1>4, <1>5, <1>6, <1>7 DEF MigrationNext, ProxyStep, Next, migrationVars, vars

-----------------------------------------------------------------------------
(* The exports for subusers. *)

LEMMA AwaitsStays ==
  ASSUME NfsTypeOK, NEW u, Awaits(u), UNCHANGED migration, list' \in Seq(Entries),
         \A i \in 1 .. Len(list) : list[i] = u => \E j \in 1 .. Len(list') : j <= i /\ list'[j] = u
  PROVE  Awaits(u)'
<1>1. PICK n \in Nat, m \in Nat, size \in Nat : n = Len(list) /\ m = Len(list') /\ size = migration.size
  BY LenProperties, MigrationIs DEF NfsTypeOK
<1>2. /\ u \in Listed <=> \E i \in 1 .. n : list[i] = u
      /\ u \in Listed' <=> \E i \in 1 .. m : list'[i] = u
  BY <1>1, ElementsAre DEF Listed, NfsTypeOK
<1>3. CASE migration.at = "start"
  BY <1>1, <1>2, <1>3 DEF Awaits
<1>4. CASE migration.at = "list"
  <2>1. PICK i \in 1 .. size : i <= n /\ list[i] = u
    BY <1>1, <1>4 DEF Awaits, Rewriting
  <2>2. PICK j \in 1 .. m : j <= i /\ list'[j] = u
    BY <1>1, <2>1
  <2>3. j \in 1 .. size /\ j <= m
    BY <1>1, <2>1, <2>2
  <2> QED BY <1>1, <1>4, <2>2, <2>3 DEF Awaits
<1>5. CASE migration.at \notin {"start", "list"}
  BY <1>5 DEF Awaits
<1> QED BY <1>3, <1>4, <1>5

LEMMA NextExportKeeps ==
  ASSUME NfsTypeOK, NextExport, migration.at \in {"loop"} \union Rewriting, NEW u, Awaits(u), u # Current
  PROVE  Awaits(u)'
<1>1. u \in Range(migration.todo)
  BY DEF Awaits, Rewriting
<1>2. PICK i \in DOMAIN migration.todo : migration.todo[i] = u
  BY <1>1 DEF Range
<1>3. i # Place
  BY <1>2 DEF Current
<1>4. u \in Range(migration'.todo) /\ migration'.at = "loop"
  BY <1>2, <1>3, RestrictedTodo, NextExportIs DEF Range
<1> QED BY <1>4 DEF Awaits

LEMMA OldMigrated ==
  ASSUME NfsTypeOK, MigrationStep, mishaps' \intersect {"staleList", "fault"} = {},
         \A u \in Heeded : OldOK(u), migration.at \in {"pseudo", "attribute"} => Current \notin old
  PROVE  /\ \A u \in Heeded' : OldOK(u)'
         /\ migration'.at \in {"pseudo", "attribute"} => Current' \notin old'
<1>1. UNCHANGED <<users, list, handler>> /\ Heeded' \subseteq Heeded /\ Heeded \subseteq Users
      /\ Heeded \subseteq old
  BY MigrationTypes DEF NfsTypeOK, Heeded
<1>2. \A u : Leaving(u)' <=> Leaving(u)
  BY <1>1 DEF Leaving, Does
<1>3. ~MigrationCallFails
  BY DEF MigrationCallFails
<1>4. \A u \in Heeded : Awaits(u)' => OldOK(u)'
  BY <1>1, <1>2 DEF OldOK
<1>5. ASSUME migration'.at \notin {"pseudo", "attribute"}, \A u \in Heeded : u \in users /\ Awaits(u) => Awaits(u)'
      PROVE  /\ \A u \in Heeded' : OldOK(u)'
             /\ migration'.at \in {"pseudo", "attribute"} => Current' \notin old'
  BY <1>1, <1>2, <1>4, <1>5 DEF OldOK
<1>6. ASSUME NextExport, migration.at \in {"loop"} \union Rewriting,
             Current \notin Heeded \/ Current \notin users
      PROVE  /\ \A u \in Heeded' : OldOK(u)'
             /\ migration'.at \in {"pseudo", "attribute"} => Current' \notin old'
  <2>1. \A u \in Heeded : u \in users /\ Awaits(u) => Awaits(u)'
    BY <1>6, NextExportKeeps
  <2>2. migration'.at = "loop"
    BY <1>6, NextExportIs
  <2> QED BY <1>5, <2>1, <2>2
<1>7. ASSUME migration'.todo = migration.todo, migration.at \in {"loop"} \union Rewriting,
             migration'.at \in Rewriting, migration'.at \in {"pseudo", "attribute"} => Current \notin old'
      PROVE  /\ \A u \in Heeded' : OldOK(u)'
             /\ migration'.at \in {"pseudo", "attribute"} => Current' \notin old'
  <2>1. \A u : Awaits(u) => Awaits(u)'
    BY <1>7 DEF Awaits, Rewriting
  <2>2. Current' = Current
    BY <1>7 DEF Current, Place
  <2> QED BY <1>1, <1>2, <1>7, <2>1, <2>2 DEF OldOK
<1>8. {"info", "write", "pseudo", "attribute"} = Rewriting
  BY DEF Rewriting
<1>9. CASE StatExports
  <2>1. Len(list) \in Nat
    BY LenProperties DEF NfsTypeOK
  <2>2. migration.at = "start" /\ migration'.at = "list" /\ migration'.size = Len(list)
    BY <1>9, <2>1 DEF StatExports, MigrationAt, NfsTypeOK, Migrations
  <2>3. ASSUME NEW u \in Heeded, Awaits(u) PROVE Awaits(u)'
    <3>1. u \in Listed
      BY <2>2, <2>3 DEF Awaits, Rewriting
    <3>2. \E i \in 1 .. Len(list) : list[i] = u
      BY <3>1, ElementsAre DEF Listed, NfsTypeOK
    <3> QED BY <1>1, <2>1, <2>2, <3>2 DEF Awaits
  <2> QED BY <1>5, <2>2, <2>3
<1>10. CASE ReadExports
  <2> DEFINE data == ReadBuffer(migration.size)
  <2>1. data \in Seq(Entries) /\ Len(data) = migration.size
        /\ \A i \in 1 .. migration.size : data[i] = IF i <= Len(list) THEN list[i] ELSE Zeros
    BY MigrationIs, ReadBufferIs DEF ReadBuffer
  <2>2. migration.at = "list" /\ migration'.at = "loop" /\ migration'.todo = Named(data)
    BY <1>10, <2>1, NamedIs DEF ReadExports, MigrationAt, NfsTypeOK, Migrations, Todos
  <2> HIDE DEF data
  <2>3. ASSUME NEW u \in Heeded, Awaits(u) PROVE Awaits(u)'
    <3>1. PICK i \in 1 .. migration.size : i <= Len(list) /\ list[i] = u
      BY <2>2, <2>3 DEF Awaits, Rewriting
    <3>2. data[i] = u /\ u # Zeros /\ odd[u] # "uid"
      BY <1>1, <2>1, <2>3, <3>1, UsersAssumption DEF Heeded
    <3>3. i \in DOMAIN Named(data) /\ Named(data)[i] = u
      BY <2>1, <3>1, <3>2, NamedIs
    <3> QED BY <2>2, <3>3 DEF Awaits, Range
  <2> QED BY <1>5, <2>2, <2>3
<1>11. CASE ReadExport
  <2>1. migration.at = "loop"
    BY <1>11 DEF ReadExport, MigrationAt
  <2>2. CASE MigrationDies
    <3>1. migration'.at = "died"
      BY <2>2, MigrationTo DEF MigrationDies, MigrationSteps
    <3> QED BY <1>5, <3>1 DEF Awaits
  <2>3. CASE Current \notin old /\ NextExport
    BY <1>1, <1>6, <2>1, <2>3
  <2>4. CASE migration' = [migration EXCEPT !.at = "info", !.id = object[Current].content]
    <3>1. migration'.at = "info" /\ migration'.todo = migration.todo
      BY <2>4 DEF NfsTypeOK, Migrations
    <3> QED BY <1>7, <1>8, <2>1, <3>1
  <2> QED BY <1>11, <2>2, <2>3, <2>4 DEF ReadExport
<1>12. CASE LoadUser
  <2>1. migration.at = "info"
    BY <1>12 DEF LoadUser, MigrationAt
  <2>2. CASE MigrationGoesOn("write")
    <3>1. migration'.at = "write" /\ migration'.todo = migration.todo
      BY <2>2, MigrationTo DEF MigrationSteps, Rewriting
    <3> QED BY <1>7, <1>8, <2>1, <3>1
  <2>3. CASE (Current \notin users \/ odd[Current] = "keys") /\ NextExport
    <3>1. Current \notin Heeded \/ Current \notin users
      BY <2>3 DEF Heeded
    <3> QED BY <1>6, <1>8, <2>1, <2>3, <3>1
  <2> QED BY <1>12, <2>2, <2>3 DEF LoadUser
<1>13. CASE RewriteExport
  <2>1. migration'.at = "pseudo" /\ migration'.todo = migration.todo /\ migration.at = "write"
    BY <1>13, MigrationTo DEF RewriteExport, MigrationSteps, Rewriting, MigrationAt
  <2>2. Current \notin old'
    BY <1>13 DEF RewriteExport
  <2> QED BY <1>7, <1>8, <2>1, <2>2
<1>14. CASE RewritePseudo
  <2>1. migration'.at = "attribute" /\ migration'.todo = migration.todo /\ migration.at = "pseudo"
    BY <1>14, MigrationTo DEF RewritePseudo, MigrationSteps, Rewriting, MigrationAt
  <2>2. Current \notin old'
    BY <1>14, <2>1 DEF RewritePseudo
  <2> QED BY <1>7, <1>8, <2>1, <2>2
<1>15. CASE RewriteId
  BY <1>1, <1>6, <1>8, <1>15 DEF RewriteId, MigrationAt
<1>16. CASE MigrationEnds
  <2>1. migration'.at = "done"
    BY <1>16, MigrationTo DEF MigrationEnds, MigrationSteps
  <2>2. \A u : ~Awaits(u)
    BY <1>16 DEF MigrationEnds, MigrationAt, NoneLeft, Awaits, Range
  <2> QED BY <1>5, <2>1, <2>2
<1> QED BY <1>3, <1>9, <1>10, <1>11, <1>12, <1>13, <1>14, <1>15, <1>16 DEF MigrationStep

\* The list after a call of goroutine h: the entries of other users stay, none further back.
LEMMA ListKeeps ==
  ASSUME NfsTypeOK, NEW h \in Handlers, Call(h), mishaps' \intersect {"staleList", "fault"} = {},
         NEW u \in Users, RewriteList(h) => handler[h].user # u,
         NEW i \in 1 .. Len(list), list[i] = u
  PROVE  \E j \in 1 .. Len(list') : j <= i /\ list'[j] = u
<1>1. PICK n \in Nat : n = Len(list) /\ i \in 1 .. n
  BY LenProperties DEF NfsTypeOK
<1>2. list \in Seq(Entries) /\ "staleList" \notin mishaps' /\ "fault" \notin mishaps'
  BY DEF NfsTypeOK
<1>3. CASE AppendEntry(h)
  <2>1. PICK w \in Users : w = handler[h].user /\ list' = Append(list, w)
    BY <1>3, CallActs DEF AppendEntry
  <2>2. Len(list') = n + 1 /\ list'[i] = u
    BY <1>1, <1>2, <2>1, AppendProperties DEF Entries
  <2> QED BY <1>1, <2>2
<1>4. CASE RewriteList(h)
  <2>1. PICK w \in Users : w = handler[h].user /\ w # u
    BY <1>4, CallActs
  <2>2. list' = Without(list, w)
    BY <1>2, <1>4, <2>1 DEF RewriteList, Rewrite
  <2>3. CASE w \notin Range(list)
    BY <1>1, <1>2, <2>2, <2>3, WithoutIs
  <2>4. CASE w \in Range(list)
    <3>1. PICK k \in 1 .. n : list[k] = w /\ TakenOut(list, list', k)
      BY <1>1, <1>2, <2>2, <2>4, WithoutIs
    <3>2. Len(list') = n - 1 /\ \A j \in 1 .. n - 1 : list'[j] = IF j < k THEN list[j] ELSE list[j + 1]
      BY <1>1, <3>1 DEF TakenOut
    <3>3. k # i
      BY <2>1, <3>1
    <3>4. CASE i < k
      <4>1. i \in 1 .. n - 1 /\ list'[i] = u
        BY <1>1, <3>2, <3>4
      <4> QED BY <1>1, <3>2, <4>1
    <3>5. CASE i > k
      <4>1. PICK j \in 1 .. n - 1 : j = i - 1 /\ j + 1 = i /\ ~(j < k)
        BY <1>1, <3>5
      <4>2. list'[j] = u
        BY <3>2, <4>1
      <4> QED BY <1>1, <3>2, <4>1, <4>2
    <3> QED BY <1>1, <3>1, <3>3, <3>4, <3>5
  <2> QED BY <2>3, <2>4
<1>5. CASE list' = list
  BY <1>1, <1>5
<1> QED BY <1>2, <1>3, <1>4, <1>5, CallSteps DEF Call, PickId, WriteObject, SetPseudo, SetExportId,
        StatList, ReadList, DeleteObject, WriteFails, ReadFails, Fault

LEMMA OldCalled ==
  ASSUME NfsTypeOK, ProxyStep, NEW h \in Handlers, Call(h),
         mishaps' \intersect {"staleList", "fault"} = {},
         NEW u \in Users, u \in old', OldOK(u)
  PROVE  OldOK(u)'
<1>1. PICK w \in Users, g \in Goroutines \union {Idle} : w = handler[h].user /\ Acts(h, g, w)
  BY CallActs DEF Acts
<1>2. /\ g = handler'[h] /\ handler[h] # Idle /\ users' = users
      /\ \A k \in Handlers \ {h} : handler'[k] = handler[k]
      /\ "fault" \notin mishaps'
  BY <1>1, CallActs DEF Acts, NfsTypeOK
<1>3. ASSUME Does(h, u), handler[h].at \in Removing PROVE Leaving(u)'
  <2>1. ~DeleteObject(h)
    BY <1>3 DEF ProxyStep, Does
  <2>2. StatList(h) \/ ReadList(h) \/ RewriteList(h)
    BY <1>2, <1>3, <2>1, AtIs, CallSteps DEF Call, PickId, WriteObject, SetPseudo, SetExportId,
       AppendEntry, At
  <2>3. g # Idle /\ g.at \in {"read", "rewrite", "delete"}
    BY <1>2, <2>2, CallSteps
  <2>4. g.user = u
    BY <1>1, <1>3, <2>3 DEF Acts, Does
  <2> QED BY <1>2, <2>3, <2>4, AtIs DEF Leaving, Does
<1>4. CASE Leaving(u)
  <2>1. PICK k \in Handlers : Does(k, u) /\ handler[k].at \in Removing
    BY <1>4 DEF Leaving
  <2>2. CASE k = h
    BY <1>3, <2>1, <2>2 DEF OldOK
  <2>3. CASE k # h
    BY <1>2, <2>1, <2>3 DEF OldOK, Leaving, Does
  <2> QED BY <2>2, <2>3
<1>5. CASE ~Leaving(u)
  <2>1. u \in users /\ Awaits(u)
    BY <1>5 DEF OldOK
  <2>2. RewriteList(h) => handler[h].user # u
    BY <1>2, <1>5, AtIs DEF Leaving, Does, RewriteList, Rewrite, At
  <2>3. \A i \in 1 .. Len(list) : list[i] = u => \E j \in 1 .. Len(list') : j <= i /\ list'[j] = u
    BY <2>2, ListKeeps
  <2>4. Awaits(u)'
    BY <2>1, <2>3, ListTypes, AwaitsStays DEF ProxyStep
  <2> QED BY <1>2, <2>1, <2>4 DEF OldOK
<1> QED BY <1>4, <1>5

LEMMA OldRequested ==
  ASSUME NfsTypeOK, ProxyStep, NEW h \in Handlers, NEW v \in Users,
         CreateUser(h, v) \/ DeleteUser(h, v), NEW u \in Users, OldOK(u)
  PROVE  OldOK(u)'
<1>1. handler[h] = Idle /\ list' = list /\ migration' = migration
  BY RequestActs DEF ProxyStep
<1>2. PICK g : /\ handler' = [handler EXCEPT ![h] = g]
               /\ DeleteUser(h, v) => g = Started("remove", v, "stat")
  BY DEF CreateUser, DeleteUser, Starts
<1>3. handler'[h] = g /\ \A k \in Handlers \ {h} : handler'[k] = handler[k]
  BY <1>2 DEF NfsTypeOK
<1>4. Leaving(u) => Leaving(u)'
  BY <1>1, <1>3 DEF Leaving, Does
<1>5. Awaits(u) => Awaits(u)'
  BY <1>1 DEF Awaits, Listed
<1>6. CASE u \in users => u \in users'
  BY <1>4, <1>5, <1>6 DEF OldOK
<1>7. CASE u \in users /\ u \notin users'
  <2>1. DeleteUser(h, v) /\ u = v
    BY <1>7 DEF CreateUser, DeleteUser
  <2>2. g # Idle /\ g.user = u /\ g.at = "stat"
    BY <1>2, <2>1, AtIs, StartedIs
  <2> QED BY <1>3, <2>2, AtIs DEF OldOK, Leaving, Does
<1> QED BY <1>6, <1>7

LEMMA MigrationInvStep ==
  ASSUME NfsTypeOK, MigrationInv, [MigrationNext]_migrationVars
  PROVE  MigrationInv'
<1> SUFFICES ASSUME mishaps' \intersect {"staleList", "fault"} = {}
             PROVE  /\ \A u \in Heeded' : OldOK(u)'
                    /\ migration'.at \in {"pseudo", "attribute"} => Current' \notin old'
    BY DEF MigrationInv, Free
<1>1. /\ \A u \in Heeded : OldOK(u)
      /\ migration.at \in {"pseudo", "attribute"} => Current \notin old
  BY MishapsAre DEF MigrationInv, Free
<1>2. CASE MigrationStep
  BY <1>1, <1>2, OldMigrated
<1>3. CASE UNCHANGED migrationVars
  BY <1>1, <1>3 DEF Heeded, OldOK, Leaving, Does, Awaits, Listed, Current, Place, migrationVars, vars
<1>4. CASE ProxyStep
  <2>1. /\ old' \subseteq old /\ Current' = Current /\ migration' = migration
        /\ Heeded' \subseteq Heeded /\ Heeded' \subseteq old' /\ Heeded' \subseteq Users
    BY <1>4 DEF ProxyStep, Current, Place, NfsTypeOK, Heeded
  <2>2. ~Crash
    BY DEF Crash, Fault
  <2>3. ASSUME NEW h \in Handlers, Call(h), NEW u \in Heeded' PROVE OldOK(u)'
    BY <1>1, <1>4, <2>1, <2>3, OldCalled
  <2>4. ASSUME NEW h \in Handlers, NEW v \in Users, CreateUser(h, v) \/ DeleteUser(h, v),
               NEW u \in Heeded'
        PROVE  OldOK(u)'
    BY <1>1, <1>4, <2>1, <2>4, OldRequested
  <2>5. \A u \in Heeded' : OldOK(u)'
    BY <1>4, <2>2, <2>3, <2>4 DEF ProxyStep, Next
  <2> QED BY <1>1, <2>1, <2>5
<1> QED BY <1>2, <1>3, <1>4 DEF MigrationNext

-----------------------------------------------------------------------------
(* The beginning. *)

LEMMA EachListed ==
  ASSUME NEW S, IsFiniteSet(S), NEW s \in SetToSeqs(S)
  PROVE  s \in Seq(S) /\ IsInjective(s) /\ Range(s) = S
<1> DEFINE n == Cardinality(S)
<1>1. n \in Nat
  BY FS_CardinalityType
<1>2. s \in [1 .. n -> S] /\ \A i, j \in 1 .. n : i # j => s[i] # s[j]
  BY DEF SetToSeqs
<1>3. IsFiniteSet(1 .. n) /\ Cardinality(1 .. n) = n
  <2>1. 1 \in Int /\ n \in Int
    BY <1>1
  <2>2. IsFiniteSet(1 .. n) /\ Cardinality(1 .. n) = IF 1 > n THEN 0 ELSE n - 1 + 1
    BY <2>1, FS_Interval
  <2> QED BY <1>1, <2>2
<1> HIDE DEF n
<1>4. s \in Injection(1 .. n, S)
  BY <1>2 DEF Injection, IsInjective
<1>5. s \in Surjection(1 .. n, S)
  <2>1. Cardinality(1 .. n) = Cardinality(S)
    BY <1>3 DEF n
  <2> QED BY <1>4, <2>1, FS_Injection
<1>6. s \in Seq(S)
  BY <1>1, <1>2
<1>7. Range(s) = S
  BY <1>5, <1>2 DEF Surjection, Range
<1> QED BY <1>4, <1>6, <1>7 DEF Injection

LEMMA MigrationInitOK == MigrationInit => NfsInv
<1> SUFFICES ASSUME MigrationInit PROVE NfsInv
    OBVIOUS
<1>1. PICK some \in SUBSET (Users \ Unexported) : \E ids \in [some -> Ids \union {NoId}] :
         /\ \A u, v \in some : u # v /\ ids[u] = ids[v] => ids[u] = NoId
         /\ Exporting(ids) /\ old \in SUBSET some
  BY DEF MigrationInit
<1>2. PICK ids \in [some -> Ids \union {NoId}] :
         /\ \A u, v \in some : u # v /\ ids[u] = ids[v] => ids[u] = NoId
         /\ Exporting(ids) /\ old \in SUBSET some
  BY <1>1
<1>3. /\ users = some /\ list \in SetToSeqs(some) /\ migrating = Nobody /\ mishaps = {}
      /\ handler = [h \in Handlers |-> Idle]
      /\ object = [u \in Users |->
                     IF u \in some THEN [exists |-> TRUE, content |-> ids[u], id |-> ids[u]]
                                   ELSE Missing]
  BY <1>2 DEF Exporting
<1>4. list \in Seq(some) /\ IsInjective(list) /\ Listed = some
  <2>1. IsFiniteSet(some)
    BY <1>2, UsersAssumption, FS_Subset
  <2> QED BY <1>3, <2>1, EachListed DEF Listed
<1>5. migration = [at |-> "start", size |-> 0, todo |-> <<>>, id |-> 0]
  BY DEF MigrationInit
<1>6. some \subseteq Users /\ some \intersect Unexported = {} /\ Nobody \notin Users
  BY <1>2, UsersAssumption
<1>7. \A u \in some : ids[u] \in Numbers /\ ids[u] # 0
  BY <1>2, IdsAre
<1>8. \A u \in Users : /\ u \in some => object[u].exists /\ object[u].content = ids[u] /\ object[u].id = ids[u]
                       /\ u \notin some => object[u] = Missing
  BY <1>3
<1>9. Missing.exists = FALSE /\ Missing.content = 0 /\ Missing.id = 0
  BY DEF Missing
<1>10. \A h \in Handlers : handler[h] = Idle
  BY <1>3
<1>11. Exportable = some
  BY <1>2, <1>3 DEF Exportable
<1>12. \A u \in Users : ~Busy(u)
  BY <1>3, <1>6, <1>10 DEF Busy, Running
<1>13. NfsTypeOK
  <2>1. list \in Seq(Entries)
    <3>1. some \subseteq Entries
      BY <1>6 DEF Entries
    <3> QED BY <1>4, <3>1
  <2>2. object \in [Users -> Objects]
    <3>1. ASSUME NEW u \in Users
          PROVE  (IF u \in some THEN [exists |-> TRUE, content |-> ids[u], id |-> ids[u]]
                                ELSE Missing) \in Objects
      BY <1>7, IdsAre DEF Objects, Missing
    <3> QED BY <1>3, <3>1
  <2>3. migration \in Migrations
    <3>1. <<>> \in [{} -> Users] /\ {} \in SUBSET Nat
      OBVIOUS
    <3>2. <<>> \in Todos
      BY <3>1 DEF Todos
    <3> QED BY <1>5, <3>2, IdsAre DEF Migrations, Todos
  <2>4. migration.at \notin Rewriting
    BY <1>5 DEF Rewriting
  <2>5. handler \in [Handlers -> Goroutines \union {Idle}] /\ mishaps \in SUBSET MishapKinds
    BY <1>3
  <2>6. odd \in [Users -> Oddities]
    BY DEF MigrationInit
  <2> QED BY <1>2, <1>3, <1>6, <2>1, <2>2, <2>3, <2>4, <2>5, <2>6 DEF NfsTypeOK
<1>14. ObjectInv
  BY <1>3, <1>6, <1>7, <1>8, <1>9, <1>10, <1>11 DEF ObjectInv, ObjectOK, Does
<1>15. ListInv
  <2>1. list \in Seq(Users)
    BY <1>4, <1>6
  <2>2. \A u \in Users : EntryOK(u)
    BY <1>4, <1>8, <1>10, <1>11 DEF EntryOK, Does
  <2> QED BY <1>4, <2>1, <2>2 DEF ListInv
<1>16. IdsInv
  <2>1. ExportIdsDiffer
    BY <1>2, <1>8, <1>9 DEF ExportIdsDiffer
  <2> QED BY <2>1, <1>10 DEF IdsInv, IdsOK, Pending
<1>17. MigrationInv
  BY <1>2, <1>3, <1>4, <1>5 DEF MigrationInv, Heeded, OldOK, Awaits
<1> QED BY <1>13, <1>14, <1>15, <1>16, <1>17 DEF NfsInv

LEMMA NfsInvStep == NfsInv /\ [MigrationNext]_migrationVars => NfsInv'
<1> SUFFICES ASSUME NfsInv, [MigrationNext]_migrationVars PROVE NfsInv'
    OBVIOUS
<1>1. NfsTypeOK /\ ObjectInv /\ ListInv /\ IdsInv /\ MigrationInv
  BY DEF NfsInv
<1> QED BY <1>1, NfsTypeStep, ObjectStep, ListStep, IdsStep, MigrationInvStep DEF NfsInv

LEMMA NfsInvHolds == MigrationSpec => []NfsInv
  BY MigrationInitOK, NfsInvStep, PTL DEF MigrationSpec

-----------------------------------------------------------------------------
(* The theorems. *)

LEMMA ListedIs ==
  ASSUME ObjectInv, ListInv, Free({"sameUser", "staleList", "fault"}), NEW u \in Listed
  PROVE  /\ u \in Users /\ object[u].exists
         /\ object[u].content # 0 /\ object[u].content = object[u].id
<1>1. list \in Seq(Users) /\ Free({"sameUser", "fault"})
  BY DEF ListInv, Free
<1>2. u \in Users
  BY <1>1, ElementsAre, ElementOfSeq DEF Listed
<1>3. ObjectOK(u) /\ EntryOK(u)
  BY <1>1, <1>2 DEF ObjectInv, ListInv
<1>4. \A h \in Handlers : Does(h, u) => handler[h].at \notin {"pseudo", "attribute"}
  BY <1>3, AtIs DEF EntryOK
<1> QED BY <1>2, <1>3, <1>4 DEF ObjectOK, EntryOK

\* The export object of a user whom nobody is at work for tells whether the user is to be
\* exported, whatever handlers of other users and the migration do.
THEOREM ObjectsAreRight == MigrationSpec => []ObjectsMatchUsers
<1>1. NfsInv => ObjectsMatchUsers
  BY DEF NfsInv, ObjectInv, ObjectsMatchUsers, ObjectOK, Exportable
<1> QED BY <1>1, NfsInvHolds, PTL

\* ... and so does the list; what it names is there with all that NFS-Ganesha reads of it.
THEOREM ListIsRight == MigrationSpec => []ListMatchesUsers
<1>1. NfsInv => ListMatchesUsers
  <2> SUFFICES ASSUME ObjectInv, ListInv, Free({"sameUser", "staleList", "fault"})
               PROVE  /\ \A u \in Users : ~Busy(u) => (u \in Listed <=> u \in Exportable)
                      /\ IsInjective(list)
                      /\ \A u \in Listed : u \in Users /\ object[u].content # 0
                                           /\ object[u].content = object[u].id
      BY DEF NfsInv, ListMatchesUsers, Exportable
  <2>1. \A u \in Users : ~Busy(u) => (u \in Listed <=> u \in Exportable)
    BY DEF ListInv, EntryOK
  <2> QED BY <2>1, ListedIs DEF ListInv
<1> QED BY <1>1, NfsInvHolds, PTL

\* Two exports have one id only after a race for it, or when the ids have run out.
THEOREM IdsAreDifferent == MigrationSpec => []IdsDifferUnlessRace
<1>1. NfsInv => IdsDifferUnlessRace
  BY DEF NfsInv, IdsInv, IdsOK, IdsDifferUnlessRace
<1> QED BY <1>1, NfsInvHolds, PTL

\* The migration leaves no export for a subuser behind but those that are being removed,
\* those whose uid its expression does not take and those of users without keys.
THEOREM SubusersAreGone == MigrationSpec => []NoSubuserLeft
<1>1. NfsInv => NoSubuserLeft
  <2> SUFFICES ASSUME NfsInv, migration.at = "done", Free({"staleList", "fault"}), NEW u \in Heeded
               PROVE  Busy(u)
      BY DEF NoSubuserLeft, MigrationAt, Heeded
  <2>1. ~Awaits(u)
    BY DEF Awaits, Rewriting
  <2>2. Leaving(u)
    BY <2>1 DEF NfsInv, MigrationInv, OldOK
  <2> QED BY <2>2, BusyIs DEF Leaving
<1> QED BY <1>1, NfsInvHolds, PTL

\* Why the migration may die, and of which export.
DeadlyFor(u) ==
    \/ u \notin Listed
    \/ u \in old /\ (odd[u] = "subuser" \/ object[u].content = NoId)

\* The export that the migration dies of has been removed, or is for a subuser whose name
\* the expression does not take or without an id.
THEOREM DiesOnlyOfRemoval == MigrationSpec => DiesOfRemoval
<1>1. ASSUME NfsInv, [MigrationNext]_migrationVars, migration.at = "loop", migration'.at = "died",
             mishaps' \intersect {"sameUser", "staleList", "fault"} = {}
      PROVE  DeadlyFor(Current)
  <2>1. Free({"sameUser", "staleList", "fault"})
    BY <1>1, MishapsAre DEF NfsInv, Free
  <2>2. MigrationStep /\ ~MigrationCallFails
    BY <1>1 DEF MigrationNext, ProxyStep, MigrationCallFails, migrationVars
  <2>3. ReadExport \/ MigrationEnds
    BY <1>1, <2>2 DEF MigrationStep, StatExports, ReadExports, LoadUser, RewriteExport, RewritePseudo,
       RewriteId, MigrationAt
  <2>4. ~MigrationEnds
    BY <1>1, MigrationTo DEF NfsInv, MigrationEnds, MigrationSteps
  <2>5. Unreadable(Current)
    <3>1. ~NextExport
      BY <1>1, NextExportIs DEF NfsInv
    <3>2. migration' # [migration EXCEPT !.at = "info", !.id = object[Current].content]
      BY <1>1 DEF NfsInv, NfsTypeOK, Migrations
    <3> QED BY <2>3, <2>4, <3>1, <3>2 DEF ReadExport
  <2> QED BY <1>1, <2>1, <2>5, ListedIs DEF Unreadable, NfsInv, DeadlyFor
<1>2. NfsInv /\ [MigrationNext]_migrationVars =>
         [MigrationAt("loop") /\ migration'.at = "died"
            /\ mishaps' \intersect {"sameUser", "staleList", "fault"} = {} =>
            \/ Current \notin Listed
            \/ Current \in old /\ (odd[Current] = "subuser" \/ object[Current].content = NoId)
         ]_migrationVars
  BY <1>1 DEF MigrationAt, DeadlyFor
<1> QED BY <1>2, NfsInvHolds, PTL DEF MigrationSpec, DiesOfRemoval

\* What the list and the objects say the exports are.
Exports == [u \in Listed |-> object[u].content]

LEMMA ExportsStay ==
  ASSUME Listed' = Listed, \A u \in Listed : object'[u].content = object[u].content
  PROVE  Exports' = Exports
BY DEF Exports

\* With no mishap yet, a call exports a user, unexports one, or changes no export.
LEMMA CallExports ==
  ASSUME NfsTypeOK, ObjectInv, ListInv, IdsInv, NEW h \in Handlers, Call(h), mishaps' = {}, mishaps = {}
  PROVE  Registry!Next \/ Exports' = Exports
<1>1. PICK u \in Users, g \in Goroutines \union {Idle} : u = handler[h].user /\ Acts(h, g, u)
  BY CallActs DEF Acts
<1>2. Does(h, u) /\ handler[h] # Idle
  BY <1>1, CallActs DEF Does
<1>3. /\ ObjectOK(u) /\ EntryOK(u) /\ AloneOK(h, u) /\ list \in Seq(Users) /\ IsInjective(list)
      /\ ExportIdsDiffer /\ Free({"sameUser", "staleList", "fault"})
  BY <1>2 DEF ObjectInv, ListInv, IdsInv, IdsOK, ObjectOK, Free
<1>4. handler[h].at \in Adding \union {"delete"} => u \notin Listed
  BY <1>2, <1>3 DEF EntryOK
<1>5. \A v \in Listed : v \in Users /\ object[v].content # 0
  BY <1>3, ListedIs
<1>6. \A v \in Users \ {u} : object'[v] = object[v]
  BY <1>1 DEF Acts
<1>7. "fault" \notin mishaps'
  OBVIOUS
<1>8. CASE AppendEntry(h)
  <2>1. /\ list' = Append(list, u) /\ object' = object /\ handler[h].at = "append"
        /\ u \notin Listed
    BY <1>1, <1>4, <1>8, AtIs DEF AppendEntry, At
  <2>2. Listed' = Listed \union {u}
    BY <1>3, <2>1, Appended DEF Listed
  <2>3. PICK id \in Numbers \ {0} : id = object[u].content
    BY <1>3, <2>1, AtIs DEF AloneOK, NfsTypeOK, Objects
  <2>4. id = NoId \/ \A v \in Listed : object[v].content # id
    BY <1>3, <1>5, <2>1, <2>3 DEF ExportIdsDiffer
  <2>5. Exports' = [v \in Listed \union {u} |-> IF v = u THEN id ELSE Exports[v]]
    BY <2>1, <2>2, <2>3 DEF Exports
  <2>6. Registry!Export(u, id)
    BY <2>1, <2>4, <2>5 DEF Registry!Export, Registry!Exported, Registry!IsFree, Exports
  <2>7. id \in Ids \union {NoId}
    BY <2>3 DEF Numbers
  <2> QED BY <2>6, <2>7 DEF Registry!Next
<1>9. CASE RewriteList(h)
  <2>1. list' = Without(list, u) /\ object' = object
    BY <1>1, <1>9 DEF RewriteList, Rewrite
  <2>2. Listed' = Listed \ {u}
    BY <1>3, <2>1, TakenOutOnce DEF Listed
  <2>3. CASE u \in Listed
    <3>1. Exports' = [v \in Listed \ {u} |-> Exports[v]]
      BY <2>1, <2>2 DEF Exports
    <3>2. Registry!Unexport(u)
      BY <2>3, <3>1 DEF Registry!Unexport, Registry!Exported, Exports
    <3> QED BY <3>2 DEF Registry!Next
  <2>4. CASE u \notin Listed
    BY <2>1, <2>2, <2>4, ExportsStay
  <2> QED BY <2>3, <2>4
<1>10. CASE PickId(h) \/ WriteObject(h) \/ SetPseudo(h) \/ SetExportId(h) \/ DeleteObject(h)
  <2>1. Listed' = Listed /\ handler[h].at \in Adding \union {"delete"}
    BY <1>10, AtIs DEF PickId, WriteObject, SetPseudo, SetExportId, DeleteObject, At, Listed
  <2>2. u \notin Listed
    BY <1>4, <2>1
  <2> QED BY <1>5, <1>6, <2>1, <2>2, ExportsStay
<1>11. CASE StatList(h) \/ ReadList(h)
  BY <1>11, ExportsStay DEF StatList, ReadList, Listed
<1> QED BY <1>2, <1>7, <1>8, <1>9, <1>10, <1>11, CallSteps DEF Call

\* Until a mishap the handlers and the migration implement the registry.
THEOREM NfsIsRegistry == MigrationSpec => ExportsUntilMishap
<1>1. MigrationInit => Registry!Init
  <2> SUFFICES ASSUME MigrationInit PROVE Registry!Init
      OBVIOUS
  <2>1. NfsInv /\ mishaps = {}
    BY MigrationInitOK DEF MigrationInit, Exporting
  <2>2. /\ ObjectInv /\ ListInv /\ ExportIdsDiffer /\ NfsTypeOK
        /\ Free({"sameUser", "staleList", "fault"})
    BY <2>1 DEF NfsInv, IdsInv, IdsOK, Free
  <2>3. \A u \in Listed : u \in Users /\ object[u].content \in Ids \union {NoId}
                          /\ object[u].content # 0
    BY <2>2, ListedIs DEF NfsTypeOK, Objects, Numbers
  <2>4. Exports \in [Listed -> Ids \union {NoId}] /\ Listed \in SUBSET Users
    BY <2>3 DEF Exports
  <2>5. \A u, v \in Listed : u # v /\ Exports[u] = Exports[v] => Exports[u] = NoId
    BY <2>2, <2>3 DEF Exports, ExportIdsDiffer
  <2> QED BY <2>4, <2>5 DEF Registry!Init, Registry!IdsDiffer, Registry!Exported, Exports
<1>2. ASSUME NfsInv, [MigrationNext]_migrationVars, mishaps' = {}
      PROVE  Registry!Next \/ Exports' = Exports
  <2>1. mishaps = {} /\ "fault" \notin mishaps'
    BY <1>2, MishapsAre DEF NfsInv
  <2>2. NfsTypeOK /\ ObjectInv /\ ListInv /\ IdsInv /\ Free({"sameUser", "fault"})
    BY <1>2, <2>1 DEF NfsInv, Free
  <2>3. CASE UNCHANGED <<list, object>>
    BY <2>3, ExportsStay DEF Listed
  <2>4. CASE MigrationStep
    <3>1. migration.at \in Rewriting => ObjectOK(Current)
      BY <2>2, RewritesCurrent DEF ObjectInv
    <3> QED BY <2>2, <2>3, <2>4, <3>1, MigrationKeepsObjects, MigrationTypes
  <2>5. ~Crash
    BY <2>1 DEF Crash, Fault
  <2>6. ASSUME NEW h \in Handlers, Call(h) PROVE Registry!Next \/ Exports' = Exports
    BY <1>2, <2>1, <2>2, <2>6, CallExports
  <2>7. ASSUME NEW h \in Handlers, NEW u \in Users, CreateUser(h, u) \/ DeleteUser(h, u)
        PROVE  Registry!Next \/ Exports' = Exports
    BY <2>2, <2>3, <2>7, RequestActs
  <2> QED BY <1>2, <2>3, <2>4, <2>5, <2>6, <2>7 DEF MigrationNext, ProxyStep, Next, migrationVars, vars
<1>3. NfsInv /\ [MigrationNext]_migrationVars =>
         [mishaps' = {} => Registry!Next \/ UNCHANGED [u \in Listed |-> object[u].content]]_vars
  BY <1>2 DEF Exports
<1> QED BY <1>1, <1>3, NfsInvHolds, PTL DEF MigrationSpec, ExportsUntilMishap
=============================================================================
