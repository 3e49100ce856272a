--------------------------- MODULE NfsUpdaterProofs ---------------------------
(***************************************************************************)
(* What NfsUpdater does for every number of users, export ids, changes,    *)
(* faults and seconds, and whatever the size of the pieces in which the    *)
(* daemon reads the list.                                                  *)
(***************************************************************************)
EXTENDS NfsUpdater, SequenceTheorems, WellFoundedInduction, TLAPS

-----------------------------------------------------------------------------
(* The list. *)

LEMMA MinIs ==
  ASSUME NEW S \in SUBSET Nat, S # {}
  PROVE  Min(S) \in S /\ \A y \in S : Min(S) <= y
<1> DEFINE R == OpToRel(<, Nat)
<1>1. IsWellFoundedOn(R, Nat)
  BY NatLessThanWellFounded
<1>2. \A i, j \in Nat : <<i, j>> \in R <=> i < j
  BY DEF OpToRel
<1> HIDE DEF R
<1>3. PICK i \in S : \A j \in S : ~ (<<j, i>> \in R)
  BY <1>1, WFMin
<1>4. i \in Nat /\ \A j \in S : j \in Nat
  OBVIOUS
<1>5. \A j \in S : ~ (j < i)
  BY <1>2, <1>3, <1>4, Zenon
<1>6. \A j \in S : i <= j
  BY <1>4, <1>5
<1> QED BY <1>6 DEF Min

\* RemoveFirst takes out one element and moves up the ones behind it.
TakenOut(s, t, k) ==
    /\ Len(t) = Len(s) - 1
    /\ \A i \in 1 .. Len(t) : t[i] = IF i < k THEN s[i] ELSE s[i + 1]

LEMMA RemoveFirstIs ==
  ASSUME NEW T, NEW s \in Seq(T), NEW u
  PROVE  /\ RemoveFirst(s, u) \in Seq(T)
         /\ u \notin In(s) => RemoveFirst(s, u) = s
         /\ u \in In(s) => \E k \in 1 .. Len(s) : s[k] = u /\ TakenOut(s, RemoveFirst(s, u), k)
<1>1. In(s) = {s[i] : i \in 1 .. Len(s)} /\ Len(s) \in Nat
  BY LenProperties DEF In
<1>2. CASE u \notin In(s)
  BY <1>1, <1>2 DEF RemoveFirst
<1>3. CASE u \in In(s)
  <2> DEFINE places == {i \in 1 .. Len(s) : s[i] = u}
             k == Min(places)
             t == SubSeq(s, 1, k - 1) \o SubSeq(s, k + 1, Len(s))
  <2>1. places # {} /\ places \in SUBSET Nat
    BY <1>1, <1>3
  <2>2. k \in places
    BY <2>1, MinIs
  <2>3. RemoveFirst(s, u) = t
    BY <1>1, <1>3, <2>1 DEF RemoveFirst, RemoveAt, SelectInSeq
  <2>4. k \in 1 .. Len(s) /\ s[k] = u
    BY <2>2
  <2> HIDE DEF k
  <2>5. PICK n \in Nat : n = Len(s)
    BY <1>1
  <2>6. /\ SubSeq(s, 1, k - 1) \in Seq(T) /\ Len(SubSeq(s, 1, k - 1)) = k - 1
        /\ \A i \in 1 .. k - 1 : SubSeq(s, 1, k - 1)[i] = s[i]
    <3>1. \A i \in 1 .. k - 1 : s[i] \in T
      BY <2>4, <2>5, ElementOfSeq
    <3> QED BY <2>4, <2>5, <3>1, SubSeqProperties
  <2>7. /\ SubSeq(s, k + 1, n) \in Seq(T) /\ Len(SubSeq(s, k + 1, n)) = n - k
        /\ \A i \in 1 .. n - k : SubSeq(s, k + 1, n)[i] = s[k + i]
    <3>1. \A i \in k + 1 .. n : s[i] \in T
      BY <2>4, <2>5, ElementOfSeq
    <3> QED BY <2>4, <2>5, <3>1, SubSeqProperties
  <2> DEFINE a == SubSeq(s, 1, k - 1)
             b == SubSeq(s, k + 1, n)
  <2>8. t = a \o b
    BY <2>5
  <2>9. /\ a \in Seq(T) /\ b \in Seq(T) /\ Len(a) = k - 1 /\ Len(b) = n - k
        /\ \A j \in 1 .. k - 1 : a[j] = s[j]
        /\ \A j \in 1 .. n - k : b[j] = s[k + j]
    BY <2>6, <2>7
  <2> HIDE DEF a, b, t
  <2>10. t \in Seq(T) /\ Len(t) = n - 1
    <3>1. t \in Seq(T) /\ Len(t) = Len(a) + Len(b)
      BY <2>8, <2>9, ConcatProperties
    <3> QED BY <2>4, <2>5, <2>9, <3>1
  <2>11. ASSUME NEW i \in 1 .. n - 1 PROVE t[i] = IF i < k THEN s[i] ELSE s[i + 1]
    <3>1. t[i] = IF i <= Len(a) THEN a[i] ELSE b[i - Len(a)]
      BY <2>4, <2>5, <2>8, <2>9, ConcatProperties
    <3>2. CASE i < k
      BY <2>4, <2>5, <2>9, <3>1, <3>2
    <3>3. CASE ~(i < k)
      <4>1. PICK m \in 1 .. n - k : m = i - (k - 1) /\ k + m = i + 1
        BY <2>4, <2>5, <3>3
      <4>2. t[i] = b[m]
        BY <2>4, <2>5, <2>9, <3>1, <3>3, <4>1
      <4> QED BY <2>9, <3>3, <4>1, <4>2
    <3> QED BY <3>2, <3>3
  <2> QED BY <1>3, <2>3, <2>4, <2>5, <2>10, <2>11 DEF TakenOut
<1> QED BY <1>2, <1>3

LEMMA RemovedOnce ==
  ASSUME NEW T, NEW s \in Seq(T), NEW u \in In(s),
         \A i, j \in 1 .. Len(s) : s[i] = s[j] => i = j
  PROVE  LET t == RemoveFirst(s, u)
         IN  /\ t \in Seq(T) /\ In(t) = In(s) \ {u}
             /\ \A i, j \in 1 .. Len(t) : t[i] = t[j] => i = j
<1> DEFINE t == RemoveFirst(s, u)
<1>1. t \in Seq(T) /\ \E k \in 1 .. Len(s) : s[k] = u /\ TakenOut(s, t, k)
  BY RemoveFirstIs
<1>2. PICK k \in 1 .. Len(s) : s[k] = u /\ TakenOut(s, t, k)
  BY <1>1
<1> HIDE DEF t
<1>3. PICK n \in Nat : n = Len(s) /\ Len(t) = n - 1
  BY <1>2, LenProperties DEF TakenOut
<1>4. \A i \in 1 .. n - 1 : t[i] = IF i < k THEN s[i] ELSE s[i + 1]
  BY <1>2, <1>3 DEF TakenOut
<1>5. In(s) = {s[i] : i \in 1 .. n} /\ In(t) = {t[i] : i \in 1 .. n - 1}
  BY <1>1, <1>3, LenProperties DEF In
<1>6. \A x \in In(t) : x \in In(s) /\ x # u
  BY <1>2, <1>3, <1>4, <1>5
<1>7. ASSUME NEW x \in In(s), x # u PROVE x \in In(t)
  <2>1. PICK i \in 1 .. n : s[i] = x
    BY <1>5
  <2>2. CASE i < k
    BY <1>2, <1>3, <1>4, <1>5, <2>1, <2>2
  <2>3. CASE i > k
    <3>1. PICK m \in 1 .. n - 1 : m + 1 = i
      BY <1>2, <1>3, <2>3
    <3>2. t[m] = x
      BY <1>2, <1>3, <1>4, <2>1, <2>3, <3>1
    <3> QED BY <1>5, <3>2
  <2> QED BY <1>2, <1>3, <1>7, <2>1, <2>2, <2>3
<1>8. \A i, j \in 1 .. Len(t) : t[i] = t[j] => i = j
  BY <1>2, <1>3, <1>4
<1> QED BY <1>1, <1>6, <1>7, <1>8 DEF t

-----------------------------------------------------------------------------
(* The inductive invariant. *)

Busy == {"read", "write", "signal", "paths", "exports", "disable"}
Entries == Ids \X Names
Updates == [at : Busy, pid : Nat, data : Seq(Users), dirty : BOOLEAN,
            paths : SUBSET Names, todo : SUBSET Entries]
Idle == {Asleep, Gone}

UpdaterTypeOK ==
    /\ clock \in Nat /\ mtime \in 0 .. clock
    /\ list \in Seq(Users)
    /\ path \in [Users -> Names]
    /\ object \in [Users -> Ids \union {0}]
    /\ change \in [op : {"add", "remove"}, user : Users] \union {NoChange}
    /\ local \in [exists : BOOLEAN, data : Seq(Users), mtime : 0 .. clock]
    /\ starts \in Nat \ {0} /\ pid \in {0, starts} /\ signal \in BOOLEAN
    /\ exports \in SUBSET Entries
    /\ upd \in Updates \union Idle
    /\ missed \in SUBSET {"list", "addition", "removal"}

Changes(u) == change # NoChange /\ change.user = u
Adds(u) == change = [op |-> "add", user |-> u]
Wanted(p) == \E u \in Users : path[u] = p /\ (u \in In(list) \/ Adds(u))
Readable(u) == path[u] \notin Long

\* The list and the objects differ in no more than the user whose change is half done.
PoolOK ==
    /\ \A i, j \in 1 .. Len(list) : list[i] = list[j] => i = j
    /\ \A u, v \in Users : object[u] = object[v] /\ object[u] # 0 => u = v
    /\ \A u \in Users : u \in In(list) => object[u] # 0
    /\ \A u \in Users : object[u] # 0 => u \in In(list) \/ Changes(u)
    /\ \A u \in Users : Changes(u) => u \notin In(list)
    /\ \A u \in Users : Adds(u) => object[u] # 0

\* An id is exported for one path, and a path under one id.
GaneshaOK ==
    /\ pid = 0 => exports = {} /\ ~signal
    /\ \A x, y \in exports : ~Clash(x, y)

\* The daemon reads because the list is newer than the copy, and has read its beginning;
\* what it is about to remove was exported, by the process that it has found, and is no
\* path that it knows.
UpdateOK ==
    /\ At("read") \/ At("write") => NeedToUpdate
    /\ At("read") /\ ~upd.dirty =>
          /\ Len(upd.data) <= Len(list)
          /\ \A i \in 1 .. Len(upd.data) : upd.data[i] = list[i]
    /\ At("write") /\ ~upd.dirty => upd.data = list
    /\ upd \in Updates => upd.pid \in 1 .. starts
    /\ At("disable") => \A e \in upd.todo : e[2] \notin upd.paths
    /\ At("disable") /\ pid = upd.pid => upd.todo \subseteq exports

\* The list is what the daemon takes it for.
UpToDate == ~NeedToUpdate /\ "list" \notin missed

CopyOK == UpToDate => local.data = list

AdditionsOK ==
    UpToDate /\ "addition" \notin missed =>
        /\ pid # 0 /\ ~signal /\ ~At("signal") =>
              \A u \in In(list) : Readable(u) => Served(u, exports)
        /\ At("exports") \/ At("disable") =>
              \A u \in In(list) : Readable(u) => path[u] \in upd.paths

RemovalsOK ==
    UpToDate /\ "removal" \notin missed =>
        /\ At("exports") \/ At("disable") => \A p \in upd.paths : Wanted(p)
        /\ At("disable") =>
              \A e \in exports : e[2] \in upd.paths \/ e \in upd.todo \/ Wanted(e[2])
        /\ At("sleep") \/ At("gone") => \A e \in exports : Wanted(e[2])

Inv == UpdaterTypeOK /\ PoolOK /\ GaneshaOK /\ UpdateOK /\ CopyOK /\ AdditionsOK /\ RemovalsOK

-----------------------------------------------------------------------------
(* The proxies. *)

LEMMA InitOK == Init => Inv
<1> SUFFICES ASSUME Init PROVE Inv
  OBVIOUS
<1> USE DEF Init, Asleep, NoChange
<1>1. UpdaterTypeOK
  <2>1. /\ list \in Seq(Users) /\ object \in [Users -> Ids \union {0}]
        /\ path \in [Users -> Names]
    BY NamesAssumption
  <2>2. local \in [exists : BOOLEAN, data : Seq(Users), mtime : 0 .. clock]
    OBVIOUS
  <2>3. exports \in SUBSET Entries /\ missed \in SUBSET {"list", "addition", "removal"}
    OBVIOUS
  <2>4. clock \in Nat /\ mtime \in 0 .. clock
    OBVIOUS
  <2>5. starts \in Nat \ {0} /\ pid \in {0, starts}
    OBVIOUS
  <2>6. signal \in BOOLEAN
    BY Zenon
  <2>7. upd = Asleep /\ change = NoChange
    OBVIOUS
  <2> QED BY ONLY <2>1, <2>2, <2>3, <2>4, <2>5, <2>6, <2>7 DEF UpdaterTypeOK, Idle
<1>2. In(list) = {}
  BY DEF In
<1>3. PoolOK /\ GaneshaOK
  BY <1>2 DEF PoolOK, GaneshaOK, Changes, Adds
<1>4. ~UpToDate
  BY DEF UpToDate, NeedToUpdate
<1>5. UpdateOK
  BY DEF UpdateOK, At, Updates
<1>6. CopyOK /\ AdditionsOK /\ RemovalsOK
  BY <1>4 DEF CopyOK, AdditionsOK, RemovalsOK
<1> QED BY <1>1, <1>3, <1>5, <1>6 DEF Inv

\* A daemon that is doing something has an update.
LEMMA Updating ==
  ASSUME upd \in Updates \union Idle
  PROVE  /\ upd \in Updates <=> ~At("sleep") /\ ~At("gone")
         /\ upd \in Updates <=> upd.at \in Busy
BY DEF Updates, Busy, Idle, Asleep, Gone, At

\* When the list is written the daemon has a reason to read it, or misses it.
LEMMA ListBecomesDoes ==
  ASSUME Inv, NEW newList \in Seq(Users), ListBecomes(newList),
         UNCHANGED <<clock, local, ganesha>>
  PROVE  /\ list' = newList /\ mtime' = clock
         /\ upd' \in Updates \union Idle /\ upd'.at = upd.at
         /\ missed' \in SUBSET {"list", "addition", "removal"}
         /\ ~UpToDate' /\ UpdateOK'
<1> DEFINE reading == (At("read") /\ upd.data # <<>>) \/ At("write")
<1>1. /\ list' = newList /\ mtime' = clock
      /\ upd' = IF reading THEN [upd EXCEPT !.dirty = TRUE] ELSE upd
      /\ missed' = missed \union If(/\ ~At("read") /\ ~At("write")
                                    /\ local.exists /\ clock <= local.mtime, "list")
  BY DEF ListBecomes, Misses
<1>2. upd \in Updates \union Idle /\ UpdateOK /\ missed \in SUBSET {"list", "addition", "removal"}
  BY DEF Inv, UpdaterTypeOK
<1>3. ASSUME reading
      PROVE  /\ upd' \in Updates /\ upd'.at = upd.at /\ upd'.dirty /\ upd'.pid = upd.pid
             /\ upd'.paths = upd.paths /\ upd'.todo = upd.todo
  <2>1. upd \in Updates /\ upd' = [upd EXCEPT !.dirty = TRUE]
    BY <1>1, <1>2, <1>3, Updating DEF At
  <2> QED BY <2>1 DEF Updates
<1>4. ~reading => upd' = upd
  BY <1>1
<1>5. /\ upd' \in Updates \union Idle /\ upd'.at = upd.at
      /\ reading => upd'.dirty
      /\ upd'.pid = upd.pid /\ upd'.paths = upd.paths /\ upd'.todo = upd.todo
      /\ upd' \in Updates => upd \in Updates
  <2>1. reading => upd \in Updates
    BY <1>2, Updating DEF At
  <2> QED BY <1>2, <1>3, <1>4, <2>1
<1>6. /\ clock \in Nat /\ mtime \in 0 .. clock /\ local.mtime \in 0 .. clock
      /\ local' = local /\ clock' = clock
  BY DEF Inv, UpdaterTypeOK
<1>7. At("read") \/ At("write") => NeedToUpdate'
  BY <1>1, <1>2, <1>6 DEF UpdateOK, NeedToUpdate
<1>8. ~UpToDate'
  BY <1>1, <1>6, <1>7 DEF UpToDate, NeedToUpdate, If
<1>9. UpdateOK'
  <2>1. (At("read") /\ ~upd.dirty)' => upd'.data = <<>>
    BY <1>4, <1>5 DEF At
  <2>2. (At("read") /\ ~upd.dirty)' =>
           /\ Len(upd'.data) <= Len(list')
           /\ \A i \in 1 .. Len(upd'.data) : upd'.data[i] = list'[i]
    <3>1. Len(newList) \in Nat
      OBVIOUS
    <3> QED BY <1>1, <2>1, <3>1
  <2>3. (At("write") /\ ~upd.dirty)' => FALSE
    BY <1>5 DEF At
  <2>4. (At("read") \/ At("write") => NeedToUpdate)'
    BY <1>5, <1>7 DEF At
  <2>5. starts' = starts /\ pid' = pid /\ exports' = exports
    BY DEF ganesha
  <2>6. (upd \in Updates => upd.pid \in 1 .. starts)'
    BY <1>2, <1>5, <2>5 DEF UpdateOK
  <2>7. (At("disable") => \A e \in upd.todo : e[2] \notin upd.paths)'
    BY <1>2, <1>5 DEF UpdateOK, At
  <2>8. (At("disable") /\ pid = upd.pid => upd.todo \subseteq exports)'
    BY <1>2, <1>5, <2>5 DEF UpdateOK, At
  <2> QED BY <2>2, <2>3, <2>4, <2>6, <2>7, <2>8 DEF UpdateOK
<1>10. missed' \in SUBSET {"list", "addition", "removal"}
  BY <1>1, <1>2 DEF If
<1> QED BY <1>1, <1>5, <1>8, <1>9, <1>10

\* What follows from it.
LEMMA ListBecomesKeeps ==
  ASSUME Inv, ~UpToDate', UpdateOK', UNCHANGED <<clock, local, ganesha>>,
         mtime' = clock, list' \in Seq(Users), object' = object, path' = path,
         change' \in [op : {"add", "remove"}, user : Users] \union {NoChange},
         upd' \in Updates \union Idle,
         missed' \in SUBSET {"list", "addition", "removal"}, PoolOK'
  PROVE  Inv'
<1>1. UpdaterTypeOK'
  BY DEF Inv, UpdaterTypeOK, ganesha
<1>2. GaneshaOK'
  BY DEF Inv, GaneshaOK, ganesha
<1>3. CopyOK' /\ AdditionsOK' /\ RemovalsOK'
  BY DEF CopyOK, AdditionsOK, RemovalsOK
<1> QED BY <1>1, <1>2, <1>3 DEF Inv

LEMMA InAppended ==
  ASSUME NEW T, NEW s \in Seq(T), NEW u \in T, u \notin In(s),
         \A i, j \in 1 .. Len(s) : s[i] = s[j] => i = j
  PROVE  LET t == Append(s, u)
         IN  /\ t \in Seq(T) /\ In(t) = In(s) \union {u}
             /\ \A i, j \in 1 .. Len(t) : t[i] = t[j] => i = j
<1> DEFINE t == Append(s, u)
<1>1. PICK n \in Nat : n = Len(s)
  BY LenProperties
<1>2. /\ t \in Seq(T) /\ Len(t) = n + 1 /\ t[n + 1] = u
      /\ \A i \in 1 .. n : t[i] = s[i]
  BY <1>1, AppendProperties
<1> HIDE DEF t
<1>3. In(s) = {s[i] : i \in 1 .. n} /\ In(t) = {t[i] : i \in 1 .. n + 1}
  BY <1>1, <1>2, LenProperties DEF In
<1>4. \A x \in In(t) : x \in In(s) \union {u}
  BY <1>2, <1>3
<1>5. \A x \in In(s) \union {u} : x \in In(t)
  BY <1>2, <1>3
<1>6. \A i, j \in 1 .. Len(t) : t[i] = t[j] => i = j
  BY <1>1, <1>2, <1>3
<1> QED BY <1>2, <1>4, <1>5, <1>6 DEF t

LEMMA AppendEntryKeeps == Inv /\ AppendEntry => Inv'
<1> SUFFICES ASSUME Inv, AppendEntry PROVE Inv'
  OBVIOUS
<1>1. /\ change.op = "add" /\ ListBecomes(Append(list, change.user)) /\ change' = NoChange
      /\ UNCHANGED <<clock, path, object, local, ganesha>>
  BY DEF AppendEntry
<1>2. PICK u \in Users : change = [op |-> "add", user |-> u]
  BY <1>1 DEF Inv, UpdaterTypeOK, NoChange
<1>3. Changes(u) /\ Adds(u) /\ change.user = u
  BY <1>2 DEF Changes, Adds, NoChange
<1>4. /\ list \in Seq(Users) /\ u \notin In(list) /\ object[u] # 0
      /\ \A i, j \in 1 .. Len(list) : list[i] = list[j] => i = j
  BY <1>3 DEF Inv, UpdaterTypeOK, PoolOK
<1> DEFINE new == Append(list, u)
<1>5. /\ new \in Seq(Users) /\ In(new) = In(list) \union {u}
      /\ \A i, j \in 1 .. Len(new) : new[i] = new[j] => i = j
  BY <1>4, InAppended
<1>6. ListBecomes(new)
  BY <1>1, <1>3
<1> HIDE DEF new
<1>7. /\ list' = new /\ mtime' = clock /\ upd' \in Updates \union Idle
      /\ missed' \in SUBSET {"list", "addition", "removal"} /\ ~UpToDate' /\ UpdateOK'
  BY <1>1, <1>5, <1>6, ListBecomesDoes
<1>8. In(list)' = In(list) \union {u}
  BY <1>5, <1>7 DEF In
<1>9. \A v \in Users : ~Changes(v)' /\ ~Adds(v)'
  BY <1>1 DEF Changes, Adds, NoChange
<1>10. \A v \in Users : Changes(v) => v = u
  BY <1>3 DEF Changes
<1>11. PoolOK'
  BY <1>1, <1>4, <1>5, <1>7, <1>8, <1>9, <1>10 DEF Inv, PoolOK
<1> QED BY <1>1, <1>5, <1>7, <1>11, ListBecomesKeeps

LEMMA RemoveEntryKeeps == ASSUME NEW u \in Users PROVE Inv /\ RemoveEntry(u) => Inv'
<1> SUFFICES ASSUME Inv, RemoveEntry(u) PROVE Inv'
  OBVIOUS
<1> DEFINE new == RemoveFirst(list, u)
<1>1. /\ change = NoChange /\ u \in In(list) /\ ListBecomes(new)
      /\ change' = [op |-> "remove", user |-> u]
      /\ UNCHANGED <<clock, path, object, local, ganesha>>
  BY DEF RemoveEntry
<1>2. /\ list \in Seq(Users)
      /\ \A i, j \in 1 .. Len(list) : list[i] = list[j] => i = j
  BY DEF Inv, UpdaterTypeOK, PoolOK
<1>3. /\ new \in Seq(Users) /\ In(new) = In(list) \ {u}
      /\ \A i, j \in 1 .. Len(new) : new[i] = new[j] => i = j
  BY <1>1, <1>2, RemovedOnce
<1> HIDE DEF new
<1>4. /\ list' = new /\ mtime' = clock /\ upd' \in Updates \union Idle
      /\ missed' \in SUBSET {"list", "addition", "removal"} /\ ~UpToDate' /\ UpdateOK'
  BY <1>1, <1>3, ListBecomesDoes
<1>5. In(list)' = In(list) \ {u}
  BY <1>3, <1>4 DEF In
<1>6. \A v \in Users : (Changes(v)' <=> v = u) /\ ~Adds(v)' /\ ~Changes(v)
  BY <1>1 DEF Changes, Adds, NoChange
<1>7. PoolOK'
  BY <1>1, <1>3, <1>4, <1>5, <1>6 DEF Inv, PoolOK
<1> QED BY <1>1, <1>3, <1>4, <1>7, ListBecomesKeeps

-----------------------------------------------------------------------------
(* The objects. *)

\* A change of objects of users who are not listed is nothing to what the daemon has done,
\* nor is the time.
LEMMA ObjectsKeep ==
  ASSUME Inv, UNCHANGED <<list, mtime, path, local, ganesha, upd, missed>>,
         \A u \in In(list) : object'[u] = object[u],
         \A u \in Users : Adds(u) => Adds(u)'
  PROVE  GaneshaOK' /\ UpdateOK' /\ CopyOK' /\ AdditionsOK' /\ RemovalsOK'
<1> USE DEF ganesha
<1>1. /\ NeedToUpdate' <=> NeedToUpdate
      /\ UpToDate' <=> UpToDate
      /\ In(list)' = In(list)
      /\ \A p : At(p)' <=> At(p)
  BY DEF NeedToUpdate, UpToDate, In, At
<1>2. GaneshaOK' /\ CopyOK'
  BY <1>1 DEF Inv, GaneshaOK, CopyOK, Clash
<1>3. UpdateOK'
  BY <1>1 DEF Inv, UpdateOK
<1>4. AdditionsOK'
  <2>1. ASSUME NEW u \in In(list)
        PROVE  (Readable(u)' <=> Readable(u)) /\ (Served(u, exports)' <=> Served(u, exports))
    BY <2>1 DEF Readable, Served, Alone, Entry
  <2> QED BY <1>1, <2>1 DEF Inv, AdditionsOK
<1>5. RemovalsOK'
  <2>1. ASSUME NEW p, Wanted(p) PROVE Wanted(p)'
    BY <1>1, <2>1 DEF Wanted
  <2> QED BY <1>1, <2>1 DEF Inv, RemovalsOK
<1> QED BY <1>2, <1>3, <1>4, <1>5

LEMMA WriteObjectKeeps ==
  ASSUME NEW u \in Users, NEW id \in Ids PROVE Inv /\ WriteObject(u, id) => Inv'
<1> SUFFICES ASSUME Inv, WriteObject(u, id) PROVE Inv'
  OBVIOUS
<1>1. /\ change = NoChange /\ object[u] = 0 /\ u \notin In(list) /\ FreeId(id)
      /\ object' = [object EXCEPT ![u] = id] /\ change' = [op |-> "add", user |-> u]
      /\ UNCHANGED <<clock, list, mtime, path, local, ganesha, upd, missed>>
  BY DEF WriteObject
<1>2. /\ object \in [Users -> Ids \union {0}] /\ id # 0
      /\ object' \in [Users -> Ids \union {0}]
      /\ \A v \in Users : object'[v] = IF v = u THEN id ELSE object[v]
  BY <1>1, IdsAssumption DEF Inv, UpdaterTypeOK
<1>3. \A v \in Users : (Changes(v)' <=> v = u) /\ (Adds(v)' <=> v = u) /\ ~Changes(v) /\ ~Adds(v)
  BY <1>1 DEF Changes, Adds, NoChange
<1>4. In(list)' = In(list)
  BY <1>1 DEF In
<1>5. In(list) \subseteq Users
  BY DEF Inv, UpdaterTypeOK, In
<1>6. PoolOK'
  BY <1>1, <1>2, <1>3, <1>4 DEF Inv, PoolOK, FreeId
<1>7. UpdaterTypeOK'
  BY <1>1, <1>2 DEF Inv, UpdaterTypeOK, ganesha
<1>8. \A v \in In(list) : object'[v] = object[v]
  BY <1>1, <1>2, <1>5
<1> QED BY <1>1, <1>3, <1>6, <1>7, <1>8, ObjectsKeep DEF Inv

LEMMA DeleteObjectKeeps == Inv /\ DeleteObject => Inv'
<1> SUFFICES ASSUME Inv, DeleteObject PROVE Inv'
  OBVIOUS
<1>1. /\ change.op = "remove" /\ object' = [object EXCEPT ![change.user] = 0]
      /\ change' = NoChange
      /\ UNCHANGED <<clock, list, mtime, path, local, ganesha, upd, missed>>
  BY DEF DeleteObject
<1>2. PICK u \in Users : change = [op |-> "remove", user |-> u]
  BY <1>1 DEF Inv, UpdaterTypeOK, NoChange
<1>3. /\ object' \in [Users -> Ids \union {0}]
      /\ \A v \in Users : object'[v] = IF v = u THEN 0 ELSE object[v]
  BY <1>1, <1>2 DEF Inv, UpdaterTypeOK
<1>4. \A v \in Users : ~Changes(v)' /\ ~Adds(v)' /\ ~Adds(v) /\ (Changes(v) <=> v = u)
  BY <1>1, <1>2 DEF Changes, Adds, NoChange
<1>5. In(list)' = In(list) /\ In(list) \subseteq Users
  BY <1>1 DEF In, Inv, UpdaterTypeOK
<1>6. u \notin In(list)
  BY <1>4 DEF Inv, PoolOK
<1>7. PoolOK'
  BY <1>1, <1>3, <1>4, <1>5, <1>6 DEF Inv, PoolOK
<1>8. UpdaterTypeOK'
  BY <1>1, <1>3 DEF Inv, UpdaterTypeOK, ganesha
<1>9. \A v \in In(list) : object'[v] = object[v]
  BY <1>3, <1>5, <1>6
<1> QED BY <1>1, <1>4, <1>7, <1>8, <1>9, ObjectsKeep DEF Inv

LEMMA TickKeeps == Inv /\ Tick => Inv'
<1> SUFFICES ASSUME Inv, Tick PROVE Inv'
  OBVIOUS
<1>1. clock' = clock + 1 /\ UNCHANGED <<list, mtime, path, object, change, local, ganesha, upd, missed>>
  BY DEF Tick, pool
<1>2. UpdaterTypeOK
  BY DEF Inv
<1>3. local' \in [exists : BOOLEAN, data : Seq(Users), mtime : 0 .. clock']
  <2>1. 0 .. clock \subseteq 0 .. clock'
    BY <1>1, <1>2 DEF UpdaterTypeOK
  <2> QED BY <1>1, <1>2, <2>1 DEF UpdaterTypeOK
<1>4. clock' \in Nat /\ mtime' \in 0 .. clock'
  BY <1>1, <1>2 DEF UpdaterTypeOK
<1>5. UpdaterTypeOK'
  BY <1>1, <1>2, <1>3, <1>4 DEF UpdaterTypeOK, ganesha
<1>6. PoolOK'
  BY <1>1 DEF Inv, PoolOK, In, Changes, Adds
<1>7. \A u \in Users : Adds(u) => Adds(u)'
  BY <1>1 DEF Adds
<1> QED BY <1>1, <1>5, <1>6, <1>7, ObjectsKeep DEF Inv

-----------------------------------------------------------------------------
(* NFS-Ganesha. *)

\* What it is told of changes neither the pool nor what the daemon knows of it.
LEMMA GaneshaFrame ==
  ASSUME Inv, UNCHANGED <<clock, pool, local, upd>>
  PROVE  /\ PoolOK'
         /\ NeedToUpdate' <=> NeedToUpdate
         /\ In(list)' = In(list)
         /\ \A p : At(p)' <=> At(p)
         /\ \A p : Wanted(p)' <=> Wanted(p)
<1> USE DEF pool
<1>1. NeedToUpdate' <=> NeedToUpdate
  BY DEF NeedToUpdate
<1>2. In(list)' = In(list) /\ \A p : At(p)' <=> At(p)
  BY DEF In, At
<1>3. \A u \in Users : (Adds(u)' <=> Adds(u)) /\ (Changes(u)' <=> Changes(u))
  BY DEF Adds, Changes
<1>4. PoolOK'
  BY <1>2, <1>3 DEF Inv, PoolOK
<1>5. \A p : Wanted(p)' <=> Wanted(p)
  BY <1>2, <1>3 DEF Wanted
<1> QED BY <1>1, <1>2, <1>4, <1>5

\* With an up-to-date copy it adds those who are listed.
LEMMA ConfiguredIs ==
  ASSUME Inv
  PROVE  /\ Configured \subseteq Users
         /\ \A u \in Configured : Entry(u) \in Entries
         /\ \A u, v \in Configured : object[u] = object[v] => u = v
         /\ UpToDate => Configured = In(list)
<1>1. /\ local.data \in Seq(Users) /\ list \in Seq(Users)
      /\ object \in [Users -> Ids \union {0}] /\ path \in [Users -> Names]
      /\ CopyOK /\ PoolOK
  BY DEF Inv, UpdaterTypeOK
<1>2. In(local.data) \subseteq Users /\ In(list) \subseteq Users
  BY <1>1 DEF In
<1>3. Configured \subseteq Users
  BY <1>2 DEF Configured
<1>4. \A u \in Configured : object[u] \in Ids /\ object[u] # 0 /\ path[u] \in Names
  BY <1>1, <1>3 DEF Configured
<1>5. \A u, v \in Configured : object[u] = object[v] => u = v
  BY <1>1, <1>3, <1>4 DEF PoolOK
<1>6. UpToDate => Configured = In(list)
  BY <1>1, <1>2 DEF Configured, CopyOK, PoolOK
<1> QED BY <1>3, <1>4, <1>5, <1>6 DEF Entries, Entry

\* What it has after it has read the configuration.
LEMMA TakesIs ==
  ASSUME NEW old, NEW new \in Takes(old)
  PROVE  /\ old \subseteq new
         /\ \A e \in new : e \in old \/ \E u \in Configured : e = Entry(u)
         /\ \A e, f \in new : ~Clash(e, f)
         /\ \A u \in Configured : Entry(u) \in new \/ \E e \in new : Clash(e, Entry(u))
BY DEF Takes

\* The path of one who is listed is wanted.
LEMMA ListedIsWanted ==
  ASSUME Inv, UpToDate, NEW u \in Configured PROVE Wanted(Entry(u)[2])
BY ConfiguredIs DEF Wanted, Entry

LEMMA ReloadKeeps == Inv /\ Reload => Inv'
<1> SUFFICES ASSUME Inv, Reload PROVE Inv'
  OBVIOUS
<1>1. /\ pid # 0 /\ signal' = FALSE /\ exports' \in Takes(exports)
      /\ missed' = missed \union If(\E u \in Configured : ~Served(u, exports'), "addition")
      /\ UNCHANGED <<clock, pool, local, pid, starts, upd>>
  BY DEF Reload, Misses
<1>2. UpdaterTypeOK /\ PoolOK /\ GaneshaOK /\ UpdateOK /\ CopyOK /\ AdditionsOK /\ RemovalsOK
  BY DEF Inv
<1>3. /\ PoolOK' /\ (NeedToUpdate' <=> NeedToUpdate) /\ In(list)' = In(list)
      /\ \A p : At(p)' <=> At(p)
      /\ \A p : Wanted(p)' <=> Wanted(p)
  BY <1>1, GaneshaFrame
<1>4. /\ Configured \subseteq Users
      /\ \A u \in Configured : Entry(u) \in Entries
      /\ UpToDate => Configured = In(list)
  BY ConfiguredIs
<1>5. /\ exports \subseteq exports'
      /\ \A e \in exports' : e \in exports \/ \E u \in Configured : e = Entry(u)
      /\ \A e, f \in exports' : ~Clash(e, f)
  BY <1>1, TakesIs
<1>6. "addition" \notin missed' => \A u \in Configured : Served(u, exports')
  BY <1>1 DEF If
<1>7. UpToDate' <=> UpToDate
  BY <1>1, <1>3 DEF UpToDate, If
<1>8. UpdaterTypeOK'
  <2>1. exports' \in SUBSET Entries
    BY <1>2, <1>4, <1>5 DEF UpdaterTypeOK
  <2>2. signal' \in BOOLEAN
    BY <1>1, Zenon
  <2>3. missed' \in SUBSET {"list", "addition", "removal"}
    BY <1>1, <1>2 DEF UpdaterTypeOK, If
  <2> QED BY <1>1, <1>2, <2>1, <2>2, <2>3 DEF UpdaterTypeOK, pool
<1>9. GaneshaOK'
  BY <1>1, <1>5 DEF GaneshaOK, Clash
<1>10. UpdateOK'
  BY <1>1, <1>2, <1>3, <1>5 DEF UpdateOK, pool
<1>11. CopyOK'
  BY <1>1, <1>2, <1>7 DEF CopyOK, pool
<1>12. AdditionsOK'
  <2>1. "addition" \notin missed' => "addition" \notin missed
    BY <1>1
  <2>2. \A u : Served(u, exports)' <=> Served(u, exports')
    BY <1>1 DEF Served, Alone, Entry, pool
  <2>3. UpToDate /\ "addition" \notin missed' => \A u \in In(list) : Served(u, exports)'
    BY <1>4, <1>6, <2>2
  <2> QED BY <1>1, <1>2, <1>3, <1>7, <2>1, <2>3 DEF AdditionsOK, Readable, pool
<1>13. RemovalsOK'
  <2>1. "removal" \notin missed' => "removal" \notin missed
    BY <1>1
  <2>2. UpToDate => \A e \in exports' : e \in exports \/ Wanted(e[2])
    BY <1>5, ListedIsWanted
  <2> QED BY <1>1, <1>2, <1>3, <1>7, <2>1, <2>2 DEF RemovalsOK
<1> QED BY <1>3, <1>8, <1>9, <1>10, <1>11, <1>12, <1>13 DEF Inv

LEMMA StopKeeps == Inv /\ Stop => Inv'
<1> SUFFICES ASSUME Inv, Stop PROVE Inv'
  OBVIOUS
<1>1. /\ pid' = 0 /\ signal' = FALSE /\ exports' = {}
      /\ UNCHANGED <<clock, pool, local, starts, upd, missed>>
  BY DEF Stop
<1>2. UpdaterTypeOK /\ UpdateOK /\ CopyOK /\ AdditionsOK /\ RemovalsOK
  BY DEF Inv
<1>3. /\ PoolOK' /\ (NeedToUpdate' <=> NeedToUpdate) /\ In(list)' = In(list)
      /\ \A p : At(p)' <=> At(p)
      /\ \A p : Wanted(p)' <=> Wanted(p)
  BY <1>1, GaneshaFrame
<1>4. UpToDate' <=> UpToDate
  BY <1>1, <1>3 DEF UpToDate
<1>5. UpdaterTypeOK'
  <2>1. signal' \in BOOLEAN
    BY <1>1, Zenon
  <2> QED BY <1>1, <1>2, <2>1 DEF UpdaterTypeOK, pool
<1>6. GaneshaOK'
  BY <1>1 DEF GaneshaOK
<1>7. UpdateOK'
  <2>1. At("disable") => pid' # upd.pid
    <3>1. At("disable") => upd \in Updates
      BY <1>2, Updating DEF UpdaterTypeOK, At
    <3> QED BY <1>1, <1>2, <3>1 DEF UpdateOK, UpdaterTypeOK
  <2> QED BY <1>1, <1>2, <1>3, <2>1 DEF UpdateOK, pool
<1>8. CopyOK' /\ AdditionsOK'
  BY <1>1, <1>2, <1>3, <1>4 DEF CopyOK, AdditionsOK, Readable, pool
<1>9. RemovalsOK'
  BY <1>1, <1>2, <1>3, <1>4 DEF RemovalsOK
<1> QED BY <1>3, <1>5, <1>6, <1>7, <1>8, <1>9 DEF Inv

LEMMA StartKeeps == Inv /\ Start => Inv'
<1> SUFFICES ASSUME Inv, Start PROVE Inv'
  OBVIOUS
<1>1. /\ pid = 0 /\ pid' = starts + 1 /\ starts' = starts + 1 /\ exports' \in Takes({})
      /\ UNCHANGED <<clock, pool, local, signal, upd, missed>>
  BY DEF Start
<1>2. UpdaterTypeOK /\ GaneshaOK /\ UpdateOK /\ CopyOK /\ AdditionsOK /\ RemovalsOK
  BY DEF Inv
<1>3. /\ PoolOK' /\ (NeedToUpdate' <=> NeedToUpdate) /\ In(list)' = In(list)
      /\ \A p : At(p)' <=> At(p)
      /\ \A p : Wanted(p)' <=> Wanted(p)
  BY <1>1, GaneshaFrame
<1>4. /\ Configured \subseteq Users
      /\ \A u \in Configured : Entry(u) \in Entries
      /\ \A u, v \in Configured : object[u] = object[v] => u = v
      /\ UpToDate => Configured = In(list)
  BY ConfiguredIs
<1>5. /\ \A e \in exports' : \E u \in Configured : e = Entry(u)
      /\ \A e, f \in exports' : ~Clash(e, f)
      /\ \A u \in Configured : Entry(u) \in exports' \/ \E e \in exports' : Clash(e, Entry(u))
  BY <1>1, TakesIs
<1>6. UpToDate' <=> UpToDate
  BY <1>1, <1>3 DEF UpToDate
<1>7. UpdaterTypeOK'
  <2>1. exports' \in SUBSET Entries
    BY <1>4, <1>5
  <2>2. starts' \in Nat \ {0} /\ pid' \in {0, starts'}
    BY <1>1, <1>2 DEF UpdaterTypeOK
  <2> QED BY <1>1, <1>2, <2>1, <2>2 DEF UpdaterTypeOK, pool
<1>8. GaneshaOK'
  <2>1. pid' # 0
    BY <1>1, <1>2 DEF UpdaterTypeOK
  <2> QED BY <1>5, <2>1 DEF GaneshaOK, Clash
<1>9. UpdateOK'
  <2>1. upd \in Updates => upd.pid \in 1 .. starts' /\ upd.pid # pid'
    BY <1>1, <1>2 DEF UpdateOK, UpdaterTypeOK
  <2>2. At("disable") => upd \in Updates
    BY <1>2, Updating DEF UpdaterTypeOK, At
  <2> QED BY <1>1, <1>2, <1>3, <2>1, <2>2 DEF UpdateOK, pool
<1>10. CopyOK'
  BY <1>1, <1>2, <1>6 DEF CopyOK, pool
\* Ids are unique: an entry is refused only for its path.
<1>11. \A u \in Configured : Served(u, exports')
  <2>1. SUFFICES ASSUME NEW u \in Configured, Entry(u) \notin exports'
                 PROVE  ~Alone(u) /\ \E e \in exports' : e[2] = path[u]
    BY DEF Served, Entry
  <2>2. PICK e \in exports' : Clash(e, Entry(u))
    BY <1>5, <2>1
  <2>3. PICK v \in Configured : e = <<object[v], path[v]>>
    BY <1>5 DEF Entry
  <2>4. (object[v] = object[u]) # (path[v] = path[u])
    BY <2>2, <2>3 DEF Clash, Entry
  <2>5. v # u /\ path[v] = path[u]
    BY <1>4, <2>4
  <2> QED BY <1>4, <2>3, <2>5 DEF Alone
<1>12. AdditionsOK'
  <2>1. \A u : Served(u, exports)' <=> Served(u, exports')
    BY <1>1 DEF Served, Alone, Entry, pool
  <2>2. UpToDate => \A u \in In(list) : Served(u, exports)'
    BY <1>4, <1>11, <2>1
  <2> QED BY <1>1, <1>2, <1>3, <1>6, <2>2 DEF AdditionsOK, Readable, pool
<1>13. RemovalsOK'
  <2>1. UpToDate => \A e \in exports' : Wanted(e[2])
    BY <1>5, ListedIsWanted
  <2> QED BY <1>1, <1>2, <1>3, <1>6, <2>1 DEF RemovalsOK
<1> QED BY <1>3, <1>7, <1>8, <1>9, <1>10, <1>12, <1>13 DEF Inv

-----------------------------------------------------------------------------
(* The daemon: reading the list. *)

Kinds == {"list", "addition", "removal"}

LEMMA DaemonKeeps ==
  ASSUME Inv, UNCHANGED <<clock, pool, pid, starts>>,
         exports' \subseteq exports, signal' \in BOOLEAN, pid = 0 => ~signal',
         local' \in [exists : BOOLEAN, data : Seq(Users), mtime : 0 .. clock],
         upd' \in Updates \union Idle, missed' \in SUBSET Kinds,
         UpdateOK', CopyOK', AdditionsOK', RemovalsOK'
  PROVE  Inv'
<1> USE DEF pool
<1>1. PoolOK'
  <2>1. In(list)' = In(list)
    BY DEF In
  <2>2. \A u \in Users : (Adds(u)' <=> Adds(u)) /\ (Changes(u)' <=> Changes(u))
    BY DEF Adds, Changes
  <2> QED BY <2>1, <2>2 DEF Inv, PoolOK
<1>2. GaneshaOK'
  BY DEF Inv, GaneshaOK, Clash
<1>3. UpdaterTypeOK'
  BY DEF Inv, UpdaterTypeOK, Kinds
<1> QED BY <1>1, <1>2, <1>3 DEF Inv

\* A step that leaves the rest and what it has missed alone.
LEMMA DaemonGoesOn ==
  ASSUME Inv, UNCHANGED <<clock, pool, ganesha, local>>,
         upd' \in Updates \union Idle, missed' \in SUBSET Kinds,
         UpdateOK', CopyOK', AdditionsOK', RemovalsOK'
  PROVE  Inv'
BY DaemonKeeps DEF Inv, UpdaterTypeOK, GaneshaOK, Clash, ganesha

LEMMA DaemonFrame ==
  ASSUME Inv, UNCHANGED <<clock, pool>>
  PROVE  /\ In(list)' = In(list)
         /\ \A p : Wanted(p)' <=> Wanted(p)
         /\ local' = local => (NeedToUpdate' <=> NeedToUpdate)
         /\ local' = local /\ missed' = missed => (UpToDate' <=> UpToDate)
BY DEF In, Adds, Wanted, NeedToUpdate, UpToDate, pool

\* The daemon goes to p.
LEMMA Goes ==
  ASSUME NEW r \in Updates, NEW p \in Busy
  PROVE  LET s == [r EXCEPT !.at = p]
         IN  /\ s \in Updates /\ s.at = p /\ s.pid = r.pid /\ s.data = r.data
             /\ s.dirty <=> r.dirty
             /\ s.paths = r.paths /\ s.todo = r.todo
BY DEF Updates

\* While it reads there is nothing that the rest of the invariant says.
LEMMA StillReading ==
  ASSUME Inv, UNCHANGED <<others, local, missed>>, NeedToUpdate,
         upd' \in Updates, UpdateOK'
  PROVE  Inv'
<1>1. UNCHANGED <<clock, pool, ganesha, local>> /\ missed \in SUBSET Kinds
  BY DEF others, Inv, UpdaterTypeOK, Kinds
<1>2. ~UpToDate'
  BY <1>1, DaemonFrame DEF UpToDate
<1>3. CopyOK' /\ AdditionsOK' /\ RemovalsOK'
  BY <1>2 DEF CopyOK, AdditionsOK, RemovalsOK
<1> QED BY <1>1, <1>3, DaemonGoesOn

LEMMA PollKeeps == Inv /\ Poll => Inv'
<1> SUFFICES ASSUME Inv, Poll PROVE Inv'
  OBVIOUS
<1>1. /\ pid # 0 /\ NeedToUpdate
      /\ upd' = [at |-> "read", pid |-> pid, data |-> <<>>, dirty |-> FALSE,
                 paths |-> {}, todo |-> {}]
      /\ UNCHANGED <<others, local, missed>>
  BY DEF Poll
<1>2. UpdaterTypeOK /\ pid \in 1 .. starts /\ pid \in Nat
  BY <1>1 DEF Inv, UpdaterTypeOK
<1>3. upd' \in Updates
  BY <1>1, <1>2 DEF Updates, Busy
<1>4. NeedToUpdate'
  BY <1>1, DaemonFrame DEF others
<1>5. UpdateOK'
  <2>1. Len(list) \in Nat /\ list' = list /\ starts' = starts
    BY <1>1, <1>2 DEF UpdaterTypeOK, others, pool, ganesha
  <2>2. upd'.at = "read" /\ upd'.data = <<>> /\ upd'.pid = pid
    BY <1>1
  <2>3. Len(upd'.data) = 0
    BY <2>2
  <2> QED BY <1>2, <1>4, <2>1, <2>2, <2>3 DEF UpdateOK, At
<1> QED BY <1>1, <1>3, <1>5, StillReading

LEMMA ReadPieceKeeps == Inv /\ ReadPiece => Inv'
<1> SUFFICES ASSUME Inv, ReadPiece PROVE Inv'
  OBVIOUS
<1> DEFINE offset == Len(upd.data)
           end == IF offset + Piece < Len(list) THEN offset + Piece ELSE Len(list)
           piece == SubSeq(list, offset + 1, end)
           next == IF Len(piece) = Piece THEN "read" ELSE "write"
<1>1. /\ At("read") /\ upd' = [upd EXCEPT !.data = @ \o piece, !.at = next]
      /\ UNCHANGED <<others, local, missed>>
  BY DEF ReadPiece
<1>2. UpdaterTypeOK /\ UpdateOK /\ upd \in Updates
  BY <1>1, Updating DEF Inv, UpdaterTypeOK, At
<1>3. /\ upd.data \in Seq(Users) /\ list \in Seq(Users) /\ Piece \in Nat \ {0}
      /\ list' = list /\ starts' = starts
  BY <1>1, <1>2, PieceAssumption DEF UpdaterTypeOK, Updates, others, pool, ganesha
<1>4. PICK o \in Nat, n \in Nat : o = offset /\ n = Len(list)
  BY <1>3, LenProperties
<1>5. PICK e \in Int : /\ e <= n /\ piece = SubSeq(list, o + 1, e)
                       /\ o <= n => o <= e
                       /\ o <= n /\ e - o # Piece => e = n
  <2>1. end \in Int /\ end <= n /\ (o <= n => o <= end)
    BY <1>3, <1>4
  <2>2. o <= n /\ end - o # Piece => end = n
    BY <1>3, <1>4
  <2>3. piece = SubSeq(list, o + 1, end)
    BY <1>4
  <2> HIDE DEF end, piece
  <2> QED BY <2>1, <2>2, <2>3
<1>6. \A i \in o + 1 .. e : list[i] \in Users
  BY <1>3, <1>4, <1>5, ElementOfSeq
<1> HIDE DEF piece
<1>7. /\ piece \in Seq(Users)
      /\ Len(piece) = IF o + 1 <= e THEN e - (o + 1) + 1 ELSE 0
      /\ \A i \in 1 .. e - (o + 1) + 1 : piece[i] = list[o + 1 + i - 1]
  <2>1. o + 1 \in Int /\ e \in Int
    BY <1>4, <1>5
  <2> QED BY ONLY <1>5, <1>6, <2>1, SubSeqProperties
<1> DEFINE read == upd.data \o piece
<1>8. /\ read \in Seq(Users) /\ Len(read) = o + Len(piece)
      /\ \A i \in 1 .. o + Len(piece) :
            read[i] = IF i <= o THEN upd.data[i] ELSE piece[i - o]
  BY <1>3, <1>4, <1>7, ConcatProperties
<1>9. next \in {"read", "write"}
  OBVIOUS
<1> HIDE DEF read, next
<1>10. /\ upd' \in Updates /\ upd'.at = next /\ upd'.data = read /\ upd'.pid = upd.pid
       /\ upd'.dirty <=> upd.dirty
  BY <1>1, <1>2, <1>8, <1>9 DEF Updates, Busy, read
<1>11. NeedToUpdate /\ NeedToUpdate'
  BY <1>1, <1>2, DaemonFrame DEF UpdateOK, others
<1>12. ASSUME ~upd.dirty
       PROVE  /\ Len(read) <= n /\ \A i \in 1 .. Len(read) : read[i] = list[i]
              /\ next = "write" => Len(read) = n
  <2>1. o <= n /\ \A i \in 1 .. o : upd.data[i] = list[i]
    BY <1>1, <1>2, <1>4, <1>12 DEF UpdateOK
  <2>2. PICK m \in Nat : m = e /\ o <= m /\ m <= n /\ (m - o # Piece => m = n)
    BY <1>4, <1>5, <2>1
  <2>3. Len(piece) = m - o
    <3>1. o \in Nat /\ m \in Nat /\ m = e /\ o <= m
      BY <1>4, <2>2
    <3>2. (IF o + 1 <= m THEN m - (o + 1) + 1 ELSE 0) = m - o
      BY ONLY <3>1
    <3> QED BY <1>7, <3>1, <3>2
  <2>4. Len(read) = m
    BY <1>4, <1>8, <2>2, <2>3
  <2>5. ASSUME NEW i \in 1 .. m PROVE read[i] = list[i]
    <3>1. read[i] = IF i <= o THEN upd.data[i] ELSE piece[i - o]
      BY <1>4, <1>8, <2>2, <2>3
    <3>2. CASE i <= o
      BY <1>4, <2>1, <2>2, <3>1, <3>2
    <3>3. CASE ~(i <= o)
      <4>1. o \in Nat /\ m \in Nat /\ m = e /\ i \in 1 .. m /\ ~(i <= o)
        BY <1>4, <2>2, <2>5, <3>3
      <4>2. i - o \in 1 .. m - (o + 1) + 1 /\ o + 1 + (i - o) - 1 = i
        BY ONLY <4>1
      <4> QED BY <1>7, <3>1, <3>3, <4>1, <4>2
    <3> QED BY <3>2, <3>3
  <2>6. next = "write" => m = n
    BY <2>2, <2>3 DEF next
  <2> QED BY <2>2, <2>4, <2>5, <2>6
<1>13. UpdateOK'
  <2>1. next = "write" /\ ~upd.dirty => read = list
    <3>1. SUFFICES ASSUME next = "write", ~upd.dirty PROVE read = list
      OBVIOUS
    <3>2. Len(read) = Len(list) /\ \A i \in 1 .. Len(read) : read[i] = list[i]
      BY <1>4, <1>12, <3>1
    <3> QED BY <1>3, <1>8, <3>2, SeqEqual
  <2>2. (upd \in Updates => upd.pid \in 1 .. starts)'
    BY <1>1, <1>2, <1>3, <1>10 DEF UpdateOK
  <2> QED BY <1>3, <1>4, <1>9, <1>10, <1>11, <1>12, <2>1, <2>2 DEF UpdateOK, At
<1> QED BY <1>1, <1>10, <1>11, <1>13, StillReading

LEMMA ReadFailsKeeps == Inv /\ ReadFails => Inv'
<1> SUFFICES ASSUME Inv, ReadFails PROVE Inv'
  OBVIOUS
<1>1. /\ At("read") /\ upd' = [upd EXCEPT !.at = "write", !.dirty = TRUE]
      /\ UNCHANGED <<others, local, missed>>
  BY DEF ReadFails
<1>2. UpdaterTypeOK /\ UpdateOK /\ upd \in Updates
  BY <1>1, Updating DEF Inv, UpdaterTypeOK, At
<1>3. /\ upd' \in Updates /\ upd'.at = "write" /\ upd'.dirty /\ upd'.pid = upd.pid
  BY <1>1, <1>2 DEF Updates, Busy
<1>4. NeedToUpdate /\ NeedToUpdate'
  BY <1>1, <1>2, DaemonFrame DEF UpdateOK, others
<1>5. UpdateOK'
  BY <1>1, <1>2, <1>3, <1>4 DEF UpdateOK, At, others, ganesha
<1> QED BY <1>1, <1>3, <1>4, <1>5, StillReading

\* When it is about to signal, the rest of the invariant says no more than that the copy
\* is the list, unless the list was missed.
LEMMA WroteKeeps ==
  ASSUME Inv, At("write"), upd' = [upd EXCEPT !.at = "signal"], UNCHANGED others,
         local' \in [exists : BOOLEAN, data : Seq(Users), mtime : 0 .. clock],
         missed' \in SUBSET Kinds, CopyOK'
  PROVE  Inv'
<1>1. UpdaterTypeOK /\ UpdateOK /\ upd \in Updates
  BY Updating DEF Inv, UpdaterTypeOK, At
<1>2. /\ upd' \in Updates /\ upd'.at = "signal" /\ upd'.pid = upd.pid
  BY <1>1, Goes DEF Busy
<1>3. UNCHANGED <<clock, pool, pid, starts, signal, exports>>
  BY DEF others, ganesha
<1>4. UpdateOK'
  BY <1>1, <1>2, <1>3 DEF UpdateOK, At
<1>5. AdditionsOK' /\ RemovalsOK'
  BY <1>2 DEF AdditionsOK, RemovalsOK, At
<1>6. signal' \in BOOLEAN /\ (pid = 0 => ~signal')
  BY <1>1, <1>3 DEF UpdaterTypeOK, Inv, GaneshaOK
<1> QED BY <1>2, <1>3, <1>4, <1>5, <1>6, DaemonKeeps

LEMMA WriteKeeps == Inv /\ Write => Inv'
<1> SUFFICES ASSUME Inv, Write PROVE Inv'
  OBVIOUS
<1>1. /\ At("write") /\ local' = [exists |-> TRUE, data |-> upd.data, mtime |-> clock]
      /\ missed' = If(upd.dirty, "list") /\ upd' = [upd EXCEPT !.at = "signal"]
      /\ UNCHANGED others
  BY DEF Write
<1>2. UpdaterTypeOK /\ UpdateOK /\ upd \in Updates /\ clock \in Nat
  BY <1>1, Updating DEF Inv, UpdaterTypeOK, At
<1>3. local' \in [exists : BOOLEAN, data : Seq(Users), mtime : 0 .. clock]
  BY <1>1, <1>2 DEF Updates
<1>4. missed' \in SUBSET Kinds /\ ("list" \notin missed' => ~upd.dirty)
  BY <1>1 DEF If, Kinds
<1>5. CopyOK'
  BY <1>1, <1>2, <1>4 DEF CopyOK, UpToDate, UpdateOK, others, pool
<1> QED BY <1>1, <1>3, <1>4, <1>5, WroteKeeps

LEMMA WriteFailsKeeps == Inv /\ WriteFails => Inv'
<1> SUFFICES ASSUME Inv, WriteFails PROVE Inv'
  OBVIOUS
<1>1. /\ At("write") /\ upd' = [upd EXCEPT !.at = "signal"] /\ UNCHANGED others
  BY DEF WriteFails
<1>2. UpdaterTypeOK /\ UpdateOK /\ clock \in Nat
  BY DEF Inv, UpdaterTypeOK
<1>3. CASE local' = [exists |-> TRUE, data |-> <<>>, mtime |-> clock] /\ missed' = {"list"}
  <2>1. local' \in [exists : BOOLEAN, data : Seq(Users), mtime : 0 .. clock]
    BY <1>2, <1>3
  <2>2. CopyOK'
    BY <1>3 DEF CopyOK, UpToDate
  <2> QED BY <1>1, <1>3, <2>1, <2>2, WroteKeeps DEF Kinds
<1>4. CASE UNCHANGED <<local, missed>>
  <2>1. NeedToUpdate'
    BY <1>1, <1>2, <1>4, DaemonFrame DEF UpdateOK, others
  <2>2. CopyOK'
    BY <2>1 DEF CopyOK, UpToDate
  <2>3. local' \in [exists : BOOLEAN, data : Seq(Users), mtime : 0 .. clock]
    BY <1>2, <1>4 DEF UpdaterTypeOK
  <2>4. missed' \in SUBSET Kinds
    BY <1>2, <1>4 DEF UpdaterTypeOK, Kinds
  <2> QED BY <1>1, <2>2, <2>3, <2>4, WroteKeeps
<1> QED BY <1>3, <1>4 DEF WriteFails

-----------------------------------------------------------------------------
(* The daemon: adding and removing exports. *)

\* A step that changes neither the pool nor the copy, nor misses the list.
LEMMA CopyStays ==
  ASSUME Inv, UNCHANGED <<clock, pool, local>>,
         "list" \in missed' <=> "list" \in missed
  PROVE  /\ UpToDate' <=> UpToDate
         /\ NeedToUpdate' <=> NeedToUpdate
         /\ CopyOK'
         /\ In(list)' = In(list) /\ In(list) \subseteq Users
         /\ \A p : Wanted(p)' <=> Wanted(p)
         /\ \A u : Readable(u)' <=> Readable(u)
         /\ \A u : Served(u, exports)' <=> Served(u, exports')
         /\ path' = path
<1>1. /\ In(list)' = In(list) /\ \A p : Wanted(p)' <=> Wanted(p)
      /\ NeedToUpdate' <=> NeedToUpdate
  BY DaemonFrame
<1>2. UpToDate' <=> UpToDate
  BY <1>1 DEF UpToDate
<1>3. CopyOK'
  BY <1>2 DEF Inv, CopyOK, pool
<1>4. In(list) \subseteq Users
  BY DEF Inv, UpdaterTypeOK, In
<1>5. /\ \A u : Readable(u)' <=> Readable(u)
      /\ \A u : Served(u, exports)' <=> Served(u, exports')
      /\ path' = path
  BY DEF Readable, Served, Alone, Entry, pool
<1> QED BY <1>1, <1>2, <1>3, <1>4, <1>5

\* It sleeps again, or ends, after a signal and after it has removed what was to be
\* removed, unless the addition or the removal is recorded as missed.
LEMMA SleepKeeps ==
  ASSUME Inv, UNCHANGED <<others, local>>, upd' \in Idle,
         missed' \in SUBSET Kinds, missed \subseteq missed',
         "list" \in missed' <=> "list" \in missed,
         At("signal") => "addition" \in missed',
         \/ "removal" \in missed' \/ pid = 0
         \/ At("disable") /\ upd.todo = {}
         \/ At("read") \/ At("write") \/ At("sleep") \/ At("gone")
  PROVE  Inv'
<1>1. UNCHANGED <<clock, pool, local, pid, signal, exports>>
  BY DEF others, ganesha
<1>2. /\ UpToDate' <=> UpToDate
      /\ CopyOK'
      /\ In(list)' = In(list)
      /\ \A p : Wanted(p)' <=> Wanted(p)
      /\ \A u : Readable(u)' <=> Readable(u)
      /\ \A u : Served(u, exports)' <=> Served(u, exports')
  BY <1>1, CopyStays
<1>3. UpdateOK /\ GaneshaOK /\ AdditionsOK /\ RemovalsOK /\ exports \in SUBSET Entries
  BY DEF Inv, UpdaterTypeOK
<1>4. (At("sleep") \/ At("gone"))' /\ \A p \in Busy : ~At(p)'
  BY DEF At, Asleep, Gone, Idle, Busy
<1>5. UpdateOK'
  <2>1. upd' \notin Updates
    BY <1>4 DEF Updates, At
  <2> QED BY <1>4, <2>1 DEF UpdateOK, Busy
<1>6. AdditionsOK'
  BY <1>1, <1>2, <1>3, <1>4 DEF AdditionsOK, Busy, pool
<1>7. RemovalsOK'
  <2>1. SUFFICES ASSUME UpToDate, "removal" \notin missed', NEW e \in exports
                 PROVE  Wanted(e[2])
    BY <1>1, <1>2, <1>4, <2>1 DEF RemovalsOK, Busy
  <2>2. (At("disable") /\ upd.todo = {}) \/ At("sleep") \/ At("gone")
    BY <1>3, <2>1 DEF GaneshaOK, UpdateOK, UpToDate
  <2> QED BY <1>3, <2>1, <2>2 DEF RemovalsOK
<1> QED BY <1>1, <1>2, <1>5, <1>6, <1>7, DaemonGoesOn DEF others

LEMMA SignalKeeps == Inv /\ Signal => Inv'
<1> SUFFICES ASSUME Inv, Signal PROVE Inv'
  OBVIOUS
<1>1. /\ At("signal") /\ upd' = [upd EXCEPT !.at = "paths"]
      /\ UNCHANGED <<clock, pool, local, pid, starts, exports>>
      /\ \/ pid = upd.pid /\ signal' = TRUE /\ missed' = missed
         \/ signal' = signal /\ missed' = missed \union {"addition"}
  BY DEF Signal, Misses
<1>2. UpdaterTypeOK /\ UpdateOK /\ GaneshaOK /\ upd \in Updates
  BY <1>1, Updating DEF Inv, UpdaterTypeOK, At
<1>3. upd' \in Updates /\ upd'.at = "paths" /\ upd'.pid = upd.pid
  BY <1>1, <1>2, Goes DEF Busy
<1>4. /\ missed' \in SUBSET Kinds
      /\ "list" \in missed' <=> "list" \in missed
  BY <1>1, <1>2 DEF UpdaterTypeOK, Kinds
<1>5. (UpToDate' <=> UpToDate) /\ CopyOK'
  BY <1>1, <1>4, CopyStays
<1>6. signal' \in BOOLEAN
  <2>1. CASE signal' = TRUE
    BY <2>1, Zenon
  <2>2. CASE signal' = signal
    BY <1>2, <2>2 DEF UpdaterTypeOK
  <2> QED BY <1>1, <2>1, <2>2
<1>7. pid = 0 => ~signal'
  BY <1>1, <1>2 DEF UpdateOK, GaneshaOK, At
<1>8. UpdateOK'
  BY <1>1, <1>2, <1>3 DEF UpdateOK, At
<1>9. AdditionsOK'
  BY <1>1, <1>3 DEF AdditionsOK, At
<1>10. RemovalsOK'
  BY <1>3 DEF RemovalsOK, At
<1>11. /\ UNCHANGED <<clock, pool, pid, starts>> /\ exports' \subseteq exports
       /\ local' \in [exists : BOOLEAN, data : Seq(Users), mtime : 0 .. clock]
  BY <1>1, <1>2 DEF UpdaterTypeOK
<1> QED BY <1>3, <1>4, <1>5, <1>6, <1>7, <1>8, <1>9, <1>10, <1>11, DaemonKeeps

LEMMA LoadPathsKeeps == Inv /\ (LoadPaths \/ LoadPathsFails) => Inv'
<1> SUFFICES ASSUME Inv, LoadPaths \/ LoadPathsFails PROVE Inv'
  OBVIOUS
<1>1. PICK paths \in SUBSET Names :
         /\ At("paths") /\ upd' = [upd EXCEPT !.at = "exports", !.paths = paths]
         /\ UNCHANGED <<others, local>>
         /\ \/ /\ paths = Paths
               /\ missed' = missed \union If(change.op = "remove", "removal")
            \/ /\ paths \subseteq Paths
               /\ missed' = missed \union ({"addition"} \union If(change.op = "remove", "removal"))
  <2>1. Paths \in SUBSET Names
    BY DEF Paths, PathsOf, Inv, UpdaterTypeOK
  <2> QED BY <2>1 DEF LoadPaths, LoadPathsFails, Misses
<1>2. /\ UpdaterTypeOK /\ UpdateOK /\ PoolOK /\ AdditionsOK /\ RemovalsOK
      /\ upd \in Updates
  BY <1>1, Updating DEF Inv, UpdaterTypeOK, At
<1>3. upd' \in Updates /\ upd'.at = "exports" /\ upd'.pid = upd.pid /\ upd'.paths = paths
  BY <1>1, <1>2 DEF Updates, Busy
<1>4. UNCHANGED <<clock, pool, local, ganesha, pid, starts, signal, exports>>
  BY <1>1 DEF others, ganesha
<1>5. /\ missed' \in SUBSET Kinds
      /\ "list" \in missed' <=> "list" \in missed
      /\ missed \subseteq missed'
  BY <1>1, <1>2 DEF UpdaterTypeOK, Kinds, If
<1>6. /\ UpToDate' <=> UpToDate
      /\ CopyOK'
      /\ In(list)' = In(list) /\ In(list) \subseteq Users
      /\ \A p : Wanted(p)' <=> Wanted(p)
      /\ \A u : Readable(u)' <=> Readable(u)
      /\ \A u : Served(u, exports)' <=> Served(u, exports')
      /\ path' = path
  BY <1>4, <1>5, CopyStays
<1>7. UpdateOK'
  BY <1>1, <1>2, <1>3, <1>4 DEF UpdateOK, At
<1>8. AdditionsOK'
  <2>1. "addition" \notin missed' => \A u \in In(list) : Readable(u) => path[u] \in paths
    BY <1>1, <1>2, <1>6 DEF PoolOK, Paths, PathsOf, Readable
  <2>2. object' = object
    BY <1>4 DEF pool
  <2> QED BY <1>1, <1>2, <1>3, <1>4, <1>5, <1>6, <2>1, <2>2 DEF AdditionsOK, At
<1>9. RemovalsOK'
  <2>1. \A u \in Users : Changes(u) /\ change.op # "remove" => Adds(u)
    BY <1>2 DEF Changes, Adds, UpdaterTypeOK
  <2>2. "removal" \notin missed' => \A p \in paths : Wanted(p)
    <3>1. SUFFICES ASSUME change.op # "remove", NEW p \in Paths PROVE Wanted(p)
      BY <1>1 DEF If
    <3>2. PICK u \in Users : object[u] # 0 /\ path[u] = p
      BY <3>1 DEF Paths, PathsOf
    <3> QED BY <1>2, <2>1, <3>1, <3>2 DEF PoolOK, Wanted
  <2> QED BY <1>3, <1>6, <2>2 DEF RemovalsOK, At
<1> QED BY <1>3, <1>4, <1>5, <1>6, <1>7, <1>8, <1>9, DaemonGoesOn

LEMMA ListExportsKeeps == Inv /\ (ListExports \/ ListExportsFails) => Inv'
<1> SUFFICES ASSUME Inv, ListExports \/ ListExportsFails PROVE Inv'
  OBVIOUS
<1>1. At("exports") /\ UNCHANGED <<others, local>>
  BY DEF ListExports, ListExportsFails
<1>2. /\ UpdaterTypeOK /\ UpdateOK /\ AdditionsOK /\ RemovalsOK
      /\ upd \in Updates /\ missed \in SUBSET Kinds
  BY <1>1, Updating DEF Inv, UpdaterTypeOK, At, Kinds
<1>3. CASE ListExportsFails
  <2>1. upd' = Asleep /\ missed' = missed \union {"removal"}
    BY <1>3 DEF ListExportsFails, Misses
  <2>2. missed' \in SUBSET Kinds
    BY <1>2, <2>1 DEF Kinds
  <2> QED BY <1>1, <2>1, <2>2, SleepKeeps DEF At, Idle
<1>4. CASE ListExports /\ pid = 0
  <2>1. upd' = Asleep /\ missed' = missed
    BY <1>4 DEF ListExports
  <2> QED BY <1>1, <1>2, <1>4, <2>1, SleepKeeps DEF At, Idle
<1>5. CASE ListExports /\ pid # 0
  <2>1. /\ upd' = [upd EXCEPT !.at = "disable", !.todo = StaleExports]
        /\ missed' = missed
    BY <1>5 DEF ListExports
  <2>2. /\ StaleExports \in SUBSET Entries /\ StaleExports \subseteq exports
        /\ \A e \in exports : e[2] \notin upd.paths <=> e \in StaleExports
    BY <1>2 DEF StaleExports, UpdaterTypeOK
  <2>3. /\ upd' \in Updates /\ upd'.at = "disable" /\ upd'.pid = upd.pid
        /\ upd'.paths = upd.paths /\ upd'.todo = StaleExports
    BY <1>2, <2>1, <2>2 DEF Updates, Busy
  <2>4. UNCHANGED <<clock, pool, local, ganesha, pid, starts, signal, exports>>
    BY <1>1 DEF others, ganesha
  <2>5. /\ UpToDate' <=> UpToDate
        /\ CopyOK'
        /\ In(list)' = In(list)
        /\ \A p : Wanted(p)' <=> Wanted(p)
        /\ \A u : Readable(u)' <=> Readable(u)
        /\ \A u : Served(u, exports)' <=> Served(u, exports')
    BY <2>1, <2>4, CopyStays
  <2>6. UpdateOK'
    BY <1>1, <1>2, <2>2, <2>3, <2>4 DEF UpdateOK, At
  <2>7. AdditionsOK'
    BY <1>1, <1>2, <2>1, <2>3, <2>4, <2>5 DEF AdditionsOK, At, pool
  <2>8. RemovalsOK'
    BY <1>1, <1>2, <2>1, <2>2, <2>3, <2>4, <2>5 DEF RemovalsOK, At
  <2> QED BY <1>2, <2>1, <2>3, <2>4, <2>5, <2>6, <2>7, <2>8, DaemonGoesOn
<1> QED BY <1>3, <1>4, <1>5

\* What both outcomes of a removal share.
LEMMA TodoShrinks ==
  ASSUME Inv, NEW e \in ToDo, upd' = [upd EXCEPT !.todo = @ \ {e}]
  PROVE  /\ At("disable") /\ upd \in Updates /\ e \in upd.todo
         /\ upd' \in Updates /\ upd'.at = "disable" /\ upd'.pid = upd.pid
         /\ upd'.paths = upd.paths /\ upd'.todo = upd.todo \ {e}
<1>1. At("disable") /\ e \in upd.todo
  BY DEF ToDo
<1>2. upd \in Updates
  BY <1>1, Updating DEF Inv, UpdaterTypeOK, At
<1>3. upd.todo \ {e} \in SUBSET Entries
  BY <1>2 DEF Updates
<1> QED BY <1>1, <1>2, <1>3 DEF Updates, At

LEMMA DisableKeeps == ASSUME NEW e \in ToDo PROVE Inv /\ Disable(e) => Inv'
<1> SUFFICES ASSUME Inv, Disable(e) PROVE Inv'
  OBVIOUS
<1>1. /\ exports' = exports \ Disabled(e) /\ upd' = [upd EXCEPT !.todo = @ \ {e}]
      /\ missed' = missed \union If(pid # upd.pid, "addition")
      /\ UNCHANGED <<clock, pool, local, pid, starts, signal>>
  BY DEF Disable, Misses
<1>2. /\ At("disable") /\ upd \in Updates /\ e \in upd.todo
      /\ upd' \in Updates /\ upd'.at = "disable" /\ upd'.pid = upd.pid
      /\ upd'.paths = upd.paths /\ upd'.todo = upd.todo \ {e}
  BY <1>1, TodoShrinks
<1>3. UpdaterTypeOK /\ UpdateOK /\ GaneshaOK /\ AdditionsOK /\ RemovalsOK
  BY DEF Inv
<1>4. /\ missed' \in SUBSET Kinds /\ missed \subseteq missed'
      /\ "list" \in missed' <=> "list" \in missed
      /\ "removal" \in missed' <=> "removal" \in missed
      /\ "addition" \notin missed' => pid = upd.pid
  BY <1>1, <1>3 DEF UpdaterTypeOK, Kinds, If
<1>5. /\ UpToDate' <=> UpToDate
      /\ CopyOK'
      /\ In(list)' = In(list) /\ In(list) \subseteq Users
      /\ \A p : Wanted(p)' <=> Wanted(p)
      /\ \A u : Readable(u)' <=> Readable(u)
      /\ \A u : Served(u, exports)' <=> Served(u, exports')
      /\ path' = path
  BY <1>1, <1>4, CopyStays
<1>6. \A x \in exports : x \in exports' <=> x[1] # e[1]
  BY <1>1 DEF Disabled
<1>7. exports' \subseteq exports /\ e \notin exports'
  BY <1>1 DEF Disabled
\* What has its id is the export itself, when it is one of this process.
<1>8. ASSUME pid = upd.pid, NEW x \in exports, x # e PROVE x \in exports'
  <2>1. e \in exports
    BY <1>2, <1>3, <1>8 DEF UpdateOK
  <2>2. x[1] = e[1] => x[2] = e[2]
    BY <1>3, <1>8, <2>1 DEF GaneshaOK, Clash
  <2>3. /\ x = <<x[1], x[2]>> /\ e = <<e[1], e[2]>>
    BY <1>3, <2>1 DEF UpdaterTypeOK, Entries
  <2> QED BY <1>6, <1>8, <2>2, <2>3
<1>9. UpdateOK'
  <2>1. (At("disable") /\ pid = upd.pid => upd.todo \subseteq exports)'
    BY <1>1, <1>2, <1>3, <1>8 DEF UpdateOK
  <2> QED BY <1>1, <1>2, <1>3, <2>1 DEF UpdateOK, At
<1>10. AdditionsOK'
  <2>1. SUFFICES ASSUME UpToDate, "addition" \notin missed', pid # 0, ~signal,
                        NEW u \in In(list), Readable(u)
                 PROVE  Served(u, exports')
    <3>1. UpToDate /\ "addition" \notin missed' =>
             \A u \in In(list) : Readable(u) => path[u] \in upd.paths
      BY <1>2, <1>3, <1>4 DEF AdditionsOK
    <3> QED BY <1>1, <1>2, <1>5, <2>1, <3>1 DEF AdditionsOK, At
  <2>2. Served(u, exports) /\ path[u] \in upd.paths
    BY <1>2, <1>3, <1>4, <2>1 DEF AdditionsOK, At
  <2>3. \A x \in exports : x[2] = path[u] => x \in exports'
    <3>1. e[2] \notin upd.paths
      BY <1>2, <1>3 DEF UpdateOK
    <3> QED BY <1>4, <1>8, <2>1, <2>2, <3>1
  <2> QED BY <2>2, <2>3 DEF Served, Entry
<1>11. RemovalsOK'
  BY <1>2, <1>3, <1>4, <1>5, <1>7 DEF RemovalsOK, At
<1> QED BY <1>1, <1>2, <1>3, <1>4, <1>5, <1>7, <1>9, <1>10, <1>11, DaemonKeeps
        DEF UpdaterTypeOK, GaneshaOK, Clash

LEMMA DisableFailsKeeps == ASSUME NEW e \in ToDo PROVE Inv /\ DisableFails(e) => Inv'
<1> SUFFICES ASSUME Inv, DisableFails(e) PROVE Inv'
  OBVIOUS
<1>1. /\ upd' = [upd EXCEPT !.todo = @ \ {e}] /\ missed' = missed \union {"removal"}
      /\ UNCHANGED <<others, local>>
  BY DEF DisableFails, Misses
<1>2. /\ At("disable") /\ upd \in Updates
      /\ upd' \in Updates /\ upd'.at = "disable" /\ upd'.pid = upd.pid
      /\ upd'.paths = upd.paths /\ upd'.todo = upd.todo \ {e}
  BY <1>1, TodoShrinks
<1>3. UpdaterTypeOK /\ UpdateOK /\ AdditionsOK
  BY DEF Inv
<1>4. UNCHANGED <<clock, pool, local, ganesha, pid, starts, signal, exports>>
  BY <1>1 DEF others, ganesha
<1>5. /\ missed' \in SUBSET Kinds /\ missed \subseteq missed'
      /\ "list" \in missed' <=> "list" \in missed
  BY <1>1, <1>3 DEF UpdaterTypeOK, Kinds
<1>6. /\ UpToDate' <=> UpToDate
      /\ CopyOK'
      /\ In(list)' = In(list)
      /\ \A u : Readable(u)' <=> Readable(u)
      /\ \A u : Served(u, exports)' <=> Served(u, exports')
  BY <1>4, <1>5, CopyStays
<1>7. UpdateOK'
  BY <1>2, <1>3, <1>4 DEF UpdateOK, At
<1>8. AdditionsOK'
  <2>1. "addition" \notin missed' => "addition" \notin missed
    BY <1>5
  <2>2. \A u : Served(u, exports)' <=> Served(u, exports)
    BY <1>4, <1>6
  <2> QED BY <1>2, <1>3, <1>4, <1>6, <2>1, <2>2 DEF AdditionsOK, At, pool
<1>9. RemovalsOK'
  BY <1>1 DEF RemovalsOK
<1> QED BY <1>2, <1>4, <1>5, <1>6, <1>7, <1>8, <1>9, DaemonGoesOn

LEMMA DoneKeeps == Inv /\ Done => Inv'
<1> SUFFICES ASSUME Inv, Done PROVE Inv'
  OBVIOUS
<1>1. /\ At("disable") /\ upd.todo = {} /\ upd' = Asleep
      /\ UNCHANGED <<others, local>> /\ missed' = missed
  BY DEF Done
<1>2. missed' \in SUBSET Kinds
  BY <1>1 DEF Inv, UpdaterTypeOK, Kinds
<1> QED BY <1>1, <1>2, SleepKeeps DEF At, Idle

LEMMA CrashKeeps == Inv /\ Crash => Inv'
<1> SUFFICES ASSUME Inv, Crash PROVE Inv'
  OBVIOUS
<1>1. /\ upd' = Gone /\ UNCHANGED <<others, local>>
      /\ missed' = missed \union (If(At("signal"), "addition") \union
           If(At("signal") \/ At("paths") \/ At("exports") \/ ToDo # {}, "removal"))
  BY DEF Crash, Misses
<1>2. upd \in Updates \union Idle /\ missed \in SUBSET Kinds
  BY DEF Inv, UpdaterTypeOK, Kinds
<1>3. missed' \in SUBSET Kinds /\ missed \subseteq missed'
  BY <1>1, <1>2 DEF If, Kinds
<1>4. /\ "list" \in missed' <=> "list" \in missed
      /\ At("signal") => "addition" \in missed'
  BY <1>1 DEF If
<1>5. \/ At("read") \/ At("write") \/ At("signal") \/ At("paths") \/ At("exports")
      \/ At("disable") \/ At("sleep") \/ At("gone")
  BY <1>2 DEF Updates, Busy, Idle, Asleep, Gone, At
<1>6. \/ "removal" \in missed'
      \/ At("disable") /\ upd.todo = {}
      \/ At("read") \/ At("write") \/ At("sleep") \/ At("gone")
  BY <1>1, <1>5 DEF If, ToDo
<1>7. upd' \in Idle
  BY <1>1 DEF Idle
<1> QED BY <1>1, <1>3, <1>4, <1>6, <1>7, SleepKeeps

LEMMA RestartKeeps == Inv /\ Restart => Inv'
<1> SUFFICES ASSUME Inv, Restart PROVE Inv'
  OBVIOUS
<1>1. At("gone") /\ upd' = Asleep /\ UNCHANGED <<others, local>> /\ missed' = missed
  BY DEF Restart
<1>2. missed' \in SUBSET Kinds /\ upd' \in Idle
  BY <1>1 DEF Inv, UpdaterTypeOK, Kinds, Idle
<1> QED BY <1>1, <1>2, SleepKeeps DEF At

-----------------------------------------------------------------------------
(* Every step. *)

LEMMA StutterKeeps == Inv /\ UNCHANGED vars => Inv'
<1> SUFFICES ASSUME Inv, UNCHANGED vars PROVE Inv'
  OBVIOUS
<1>1. UNCHANGED <<clock, pool, ganesha, local, upd, missed, others>>
  BY DEF vars, others
<1>2. UpdaterTypeOK' /\ PoolOK' /\ GaneshaOK'
  BY <1>1 DEF Inv, UpdaterTypeOK, PoolOK, GaneshaOK, Clash, In, Changes, Adds, pool, ganesha
<1>3. \A u \in Users : Adds(u) => Adds(u)'
  BY <1>1 DEF Adds, pool
<1>4. UNCHANGED <<list, mtime, path, object>>
  BY <1>1 DEF pool
<1> QED BY <1>1, <1>2, <1>3, <1>4, ObjectsKeep DEF Inv

LEMMA NextKeeps == Inv /\ [Next]_vars => Inv'
<1> SUFFICES ASSUME Inv, [Next]_vars PROVE Inv'
  OBVIOUS
<1>1. CASE Tick
  BY <1>1, TickKeeps
<1>2. ASSUME NEW u \in Users, NEW id \in Ids, WriteObject(u, id) PROVE Inv'
  BY <1>2, WriteObjectKeeps
<1>3. ASSUME NEW u \in Users, RemoveEntry(u) PROVE Inv'
  BY <1>3, RemoveEntryKeeps
<1>4. CASE Publish
  BY <1>4, AppendEntryKeeps, DeleteObjectKeeps DEF Publish
<1>5. CASE Reload \/ Start \/ Restart
  BY <1>5, ReloadKeeps, StartKeeps, RestartKeeps
<1>6. ASSUME NEW e \in ToDo, Disable(e) \/ DisableFails(e) PROVE Inv'
  BY <1>6, DisableKeeps, DisableFailsKeeps
<1>7. CASE Execute
  BY <1>6, <1>7, PollKeeps, ReadPieceKeeps, WriteKeeps, SignalKeeps, LoadPathsKeeps,
     ListExportsKeeps, DoneKeeps DEF Execute
<1>8. CASE Fails
  BY <1>6, <1>8, ReadFailsKeeps, WriteFailsKeeps, LoadPathsKeeps, ListExportsKeeps,
     CrashKeeps, StopKeeps DEF Fails
<1>9. CASE UNCHANGED vars
  BY <1>9, StutterKeeps
<1> QED BY <1>1, <1>2, <1>3, <1>4, <1>5, <1>7, <1>8, <1>9 DEF Next

LEMMA InvHolds == Spec => []Inv
<1>1. Init => Inv
  BY InitOK
<1>2. Inv /\ [Next]_vars => Inv'
  BY NextKeeps
<1> QED BY <1>1, <1>2, PTL DEF Spec

\* When the daemon takes the list for unmodified, its copy is the list, however the list
\* is cut into pieces and whatever is written, fails or is restarted meanwhile, unless it
\* records that it cannot have seen the list.
THEOREM CopyIsListHolds == Spec => []CopyIsList
<1>1. Inv => CopyIsList
  BY DEF Inv, CopyOK, UpToDate, CopyIsList
<1> QED BY <1>1, InvHolds, PTL

\* At rest every listed user whose name the daemon can read is exported, under the id of
\* his object or, when others have his name, as one of them, unless it records that the
\* list or an addition was missed.
THEOREM ListedIsExportedHolds == Spec => []ListedIsExported
<1>1. Inv => ListedIsExported
  BY DEF Inv, AdditionsOK, UpToDate, ListedIsExported, Readable, AtRest, At
<1> QED BY <1>1, InvHolds, PTL

\* At rest no path is exported but the name of a user who is listed or just being added,
\* unless it records that the list or a removal was missed.
THEOREM ExportedIsListedHolds == Spec => []ExportedIsListed
<1>1. Inv => ExportedIsListed
  BY DEF Inv, RemovalsOK, UpToDate, ExportedIsListed, Wanted, AtRest, Adds
<1> QED BY <1>1, InvHolds, PTL
=============================================================================
