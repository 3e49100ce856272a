---------------------------- MODULE MetadataProofs ----------------------------
(***************************************************************************)
(* What elastic-notify and the metadata search promise, for every number   *)
(* of addresses, documents, changes and faults, and for every query.       *)
(***************************************************************************)
EXTENDS MetadataServices, SequenceTheorems, FiniteSetTheorems, TLAPS

-----------------------------------------------------------------------------
(* elastic-notify.  What it has told comes before what it has still to     *)
(* read, each in order, and nothing of either is newer than the last       *)
(* change.                                                                 *)

Increasing(s) == \A i, j \in 1 .. Len(s) : i < j => s[i] < s[j]

NotifyInv ==
    /\ changes \in Seq(Causes) /\ enabled \in [create : BOOLEAN, copy : BOOLEAN, elastic : BOOLEAN]
    /\ told \in Seq(1 .. Len(changes)) /\ stream \in Seq(1 .. Len(changes))
    /\ Increasing(told) /\ Increasing(stream)
    /\ \A i \in 1 .. Len(told), j \in 1 .. Len(stream) : told[i] < stream[j]
    /\ enabled.elastic => WritesSoFar \subseteq Range(told) \union Range(stream) \union unheard
    /\ enabled.elastic \/ told = <<>>
    /\ proxyTold \subseteq 1 .. Len(changes)
    /\ \A n \in proxyTold : ProxyTells(changes[n])

LEMMA ElementsAre ==
  ASSUME NEW T, NEW s \in Seq(T)
  PROVE  /\ Len(s) \in Nat
         /\ \A n : n \in Range(s) <=> \E i \in 1 .. Len(s) : s[i] = n
         /\ \A i \in 1 .. Len(s) : s[i] \in T
BY LenProperties DEF Range

\* A number is put behind smaller ones.
LEMMA PutBehind ==
  ASSUME NEW top \in Nat, NEW s \in Seq(1 .. top), NEW n \in 1 .. top, Increasing(s),
         \A i \in 1 .. Len(s) : s[i] < n
  PROVE  /\ Append(s, n) \in Seq(1 .. top) /\ Increasing(Append(s, n))
         /\ Len(Append(s, n)) = Len(s) + 1 /\ Append(s, n)[Len(s) + 1] = n
         /\ \A i \in 1 .. Len(s) : Append(s, n)[i] = s[i]
         /\ Range(Append(s, n)) = Range(s) \union {n}
<1> DEFINE t == Append(s, n)
<1>1. PICK m \in Nat : m = Len(s)
  BY ElementsAre
<1>2. /\ t \in Seq(1 .. top) /\ Len(t) = m + 1 /\ t[m + 1] = n
      /\ \A i \in 1 .. m : t[i] = s[i]
  BY <1>1, AppendProperties
<1> HIDE DEF t
<1>3. \A i \in 1 .. m : s[i] \in 1 .. top
  BY <1>1, ElementsAre
<1>4. Increasing(t)
  <2> SUFFICES ASSUME NEW i \in 1 .. m + 1, NEW j \in 1 .. m + 1, i < j PROVE t[i] < t[j]
      BY <1>2 DEF Increasing
  <2>1. CASE j = m + 1
    BY <1>1, <1>2, <2>1
  <2>2. CASE j # m + 1
    <3>1. i \in 1 .. m /\ j \in 1 .. m
      BY <2>2
    <3> QED BY <1>1, <1>2, <3>1 DEF Increasing
  <2> QED BY <2>1, <2>2
<1>5. Range(t) = Range(s) \union {n}
  <2>1. \A k : k \in Range(t) <=> \E i \in 1 .. m + 1 : t[i] = k
    BY <1>2, ElementsAre
  <2>2. \A k : k \in Range(s) <=> \E i \in 1 .. m : s[i] = k
    BY <1>1, ElementsAre
  <2>3. \A i : i \in 1 .. m + 1 <=> i \in 1 .. m \/ i = m + 1
    OBVIOUS
  <2> QED BY <1>2, <2>1, <2>2, <2>3
<1> QED BY <1>1, <1>2, <1>4, <1>5 DEF t

\* The first is taken from the front.
LEMMA TakenFromFront ==
  ASSUME NEW top \in Nat, NEW s \in Seq(1 .. top), s # <<>>, Increasing(s)
  PROVE  /\ Head(s) = s[1] /\ Head(s) \in 1 .. top /\ 1 \in 1 .. Len(s)
         /\ Tail(s) \in Seq(1 .. top) /\ Increasing(Tail(s))
         /\ \A j \in 1 .. Len(Tail(s)) : Tail(s)[j] = s[j + 1] /\ j + 1 \in 1 .. Len(s)
                                         /\ Head(s) < Tail(s)[j]
         /\ Range(s) = {Head(s)} \union Range(Tail(s))
<1>1. PICK m \in Nat : m = Len(s) /\ m > 0
  BY EmptySeq, ElementsAre
<1> DEFINE t == Tail(s)
<1>2. /\ t \in Seq(1 .. top) /\ Len(t) = m - 1 /\ Head(s) = s[1]
      /\ \A i \in 1 .. m - 1 : t[i] = s[i + 1]
  BY <1>1, HeadTailProperties
<1> HIDE DEF t
<1>3. s[1] \in 1 .. top /\ \A i \in 1 .. m : s[i] \in 1 .. top
  BY <1>1, ElementsAre
<1>4. \A j \in 1 .. m - 1 : j + 1 \in 1 .. m /\ 1 < j + 1
  BY <1>1
<1>5. Increasing(t) /\ \A j \in 1 .. m - 1 : s[1] < t[j]
  <2>1. \A i, j \in 1 .. m : i < j => s[i] < s[j]
    BY <1>1 DEF Increasing
  <2>2. ASSUME NEW j \in 1 .. m - 1 PROVE s[1] < t[j]
    <3>1. 1 \in 1 .. m /\ j + 1 \in 1 .. m /\ 1 < j + 1
      BY <1>1, <1>4
    <3>2. s[1] < s[j + 1]
      BY <2>1, <3>1
    <3> QED BY <1>2, <3>2
  <2>3. ASSUME NEW i \in 1 .. m - 1, NEW j \in 1 .. m - 1, i < j PROVE t[i] < t[j]
    <3>1. s[i + 1] < s[j + 1]
      BY <1>4, <2>1, <2>3
    <3> QED BY <1>2, <3>1
  <2> QED BY <1>2, <2>2, <2>3 DEF Increasing
<1>6. Range(s) = {s[1]} \union Range(t)
  <2>1. \A k : k \in Range(t) <=> \E i \in 1 .. m - 1 : t[i] = k
    BY <1>2, ElementsAre
  <2>2. \A k : k \in Range(s) <=> \E i \in 1 .. m : s[i] = k
    BY <1>1, ElementsAre
  <2>3. \A i \in 1 .. m : i = 1 \/ (i - 1 \in 1 .. m - 1 /\ (i - 1) + 1 = i)
    OBVIOUS
  <2>4. \A i \in 1 .. m : s[i] = s[1] \/ s[i] \in Range(t)
    BY <1>2, <2>1, <2>3
  <2>5. ASSUME NEW k \in Range(t) PROVE k \in Range(s)
    BY <1>2, <1>4, <2>1, <2>2, <2>5
  <2> QED BY <1>1, <2>2, <2>4, <2>5
<1> QED BY <1>1, <1>2, <1>3, <1>4, <1>5, <1>6 DEF t

\* What becomes of the lists of a process that is not told of a change.
LEMMA NotifyStays ==
  ASSUME NotifyInv, UNCHANGED <<indexVars, enabled, proxyTold, told>>,
         \/ UNCHANGED stream /\ unheard \subseteq unheard'
         \/ stream' = <<>> /\ unheard' = unheard \union Range(stream)
  PROVE  NotifyInv'
<1>1. /\ <<>> \in Seq(1 .. Len(changes)) /\ Len(<<>>) = 0
      /\ UNCHANGED changes
  BY EmptySeq DEF indexVars
<1>2. \A k : k \notin Range(<<>>)
  BY DEF Range
<1>3. \A n : ProxyTells(n)' <=> ProxyTells(n)
  BY DEF ProxyTells
<1>4. CASE UNCHANGED stream /\ unheard \subseteq unheard'
  BY <1>1, <1>3, <1>4 DEF NotifyInv, WritesSoFar, Increasing
<1>5. CASE stream' = <<>> /\ unheard' = unheard \union Range(stream)
  <2>1. Increasing(<<>>)
    BY <1>1 DEF Increasing
  <2> QED BY <1>1, <1>2, <1>3, <1>5, <2>1 DEF NotifyInv, WritesSoFar, Increasing
<1> QED BY <1>4, <1>5

\* The next change is read: it is told, or need not be, or is among the unheard.
LEMMA NotifyTaken ==
  ASSUME NotifyInv, NEW newTold, TakeChange(newTold), unheard \subseteq unheard',
         \/ newTold = Append(told, Head(stream)) /\ enabled.elastic
         \/ /\ newTold = told
            /\ Qualifies(Head(stream)) => Head(stream) \in unheard'
  PROVE  NotifyInv'
<1>1. PICK top, n : top \in Nat /\ top = Len(changes) /\ n = Head(stream)
  BY ElementsAre DEF NotifyInv
<1>2. /\ stream # <<>> /\ stream' = Tail(stream) /\ told' = newTold
      /\ UNCHANGED <<changes, enabled, proxyTold>>
  BY DEF TakeChange, indexVars
<1>3. /\ changes \in Seq(Causes) /\ told \in Seq(1 .. top) /\ stream \in Seq(1 .. top)
      /\ Increasing(told) /\ Increasing(stream)
      /\ \A i \in 1 .. Len(told), j \in 1 .. Len(stream) : told[i] < stream[j]
  BY <1>1 DEF NotifyInv
<1>4. /\ n = stream[1] /\ n \in 1 .. top /\ 1 \in 1 .. Len(stream)
      /\ stream' \in Seq(1 .. top) /\ Increasing(stream')
      /\ \A j \in 1 .. Len(stream') : stream'[j] = stream[j + 1] /\ j + 1 \in 1 .. Len(stream)
                                     /\ n < stream'[j]
      /\ Range(stream) = {n} \union Range(stream')
  BY <1>1, <1>2, <1>3, TakenFromFront
<1>5. \A m : ProxyTells(m)' <=> ProxyTells(m)
  BY <1>2 DEF ProxyTells
<1>6. CASE newTold = Append(told, n) /\ enabled.elastic
  <2>1. /\ told' \in Seq(1 .. top) /\ Increasing(told') /\ Len(told') = Len(told) + 1
        /\ told'[Len(told) + 1] = n /\ \A i \in 1 .. Len(told) : told'[i] = told[i]
        /\ Range(told') = Range(told) \union {n}
    <3>1. \A i \in 1 .. Len(told) : told[i] < n
      BY <1>3, <1>4
    <3>2. told' = Append(told, n) /\ told \in Seq(1 .. top) /\ n \in 1 .. top /\ Increasing(told)
      BY <1>1, <1>2, <1>3, <1>4, <1>6
    <3>3. top \in Nat
      BY <1>1
    <3> QED BY ONLY <3>1, <3>2, <3>3, PutBehind
  <2>2. PICK l \in Nat : l = Len(told)
    BY <1>3, ElementsAre
  <2>3. ASSUME NEW i \in 1 .. l + 1, NEW j \in 1 .. Len(stream') PROVE told'[i] < stream'[j]
    <3>1. CASE i = l + 1
      BY <1>4, <2>1, <2>2, <3>1
    <3>2. CASE i \in 1 .. l
      BY <1>3, <1>4, <2>1, <2>2, <3>2
    <3> QED BY <3>1, <3>2
  <2>4. WritesSoFar' = WritesSoFar
    BY <1>2 DEF WritesSoFar
  <2>5. WritesSoFar \subseteq Range(told') \union Range(stream') \union unheard'
    BY <1>4, <1>6, <2>1 DEF NotifyInv
  <2> QED BY <1>2, <1>4, <1>5, <1>6, <2>1, <2>2, <2>3, <2>4, <2>5 DEF NotifyInv
<1>7. CASE newTold = told /\ (Qualifies(n) => n \in unheard')
  <2>1. WritesSoFar' = WritesSoFar
    BY <1>2 DEF WritesSoFar
  <2>2. enabled.elastic /\ n \in WritesSoFar => Qualifies(n)
    BY DEF Qualifies, WritesSoFar, Writes
  <2>3. enabled.elastic => WritesSoFar \subseteq Range(told) \union Range(stream') \union unheard'
    BY <1>4, <1>7, <2>2 DEF NotifyInv
  <2>4. \A i \in 1 .. Len(told), j \in 1 .. Len(stream') : told[i] < stream'[j]
    BY <1>3, <1>4
  <2> QED BY <1>2, <1>3, <1>4, <1>5, <1>7, <2>1, <2>3, <2>4 DEF NotifyInv
<1> QED BY <1>1, <1>6, <1>7

LEMMA NotifyStep == NotifyInv /\ [ServicesNext]_allVars => NotifyInv'
<1> SUFFICES ASSUME NotifyInv, [ServicesNext]_allVars PROVE NotifyInv'
    OBVIOUS
<1>1. ASSUME UNCHANGED notifyVars PROVE NotifyInv'
  BY <1>1, NotifyStays DEF notifyVars
<1>2. ASSUME NEW d \in Documents, ObjectChanges(d) PROVE NotifyInv'
  <2>1. PICK cause \in Causes : changes' = Append(changes, cause)
    BY <1>2 DEF ObjectChanges, Change, Write, ChangeMetadata, RemoveObject, Changed, Causes, Writes
  <2>2. PICK top \in Nat : top = Len(changes) /\ changes \in Seq(Causes)
    BY ElementsAre DEF NotifyInv
  <2>3. /\ changes' \in Seq(Causes) /\ Len(changes') = top + 1 /\ changes'[top + 1] = cause
        /\ \A i \in 1 .. top : changes'[i] = changes[i]
    BY <2>1, <2>2, AppendProperties
  <2>4. /\ told \in Seq(1 .. top + 1) /\ stream \in Seq(1 .. top + 1)
        /\ \A i \in 1 .. Len(told) : told[i] < top + 1
        /\ \A j \in 1 .. Len(stream) : stream[j] < top + 1
    <3>1. /\ told \in Seq(1 .. top) /\ stream \in Seq(1 .. top) /\ 1 .. top \subseteq 1 .. top + 1
      BY <2>2 DEF NotifyInv
    <3>2. /\ \A i \in 1 .. Len(told) : told[i] \in 1 .. top
          /\ \A j \in 1 .. Len(stream) : stream[j] \in 1 .. top
      BY <3>1, ElementsAre
    <3> QED BY <3>1, <3>2, SeqMonotonic
  <2>5. UNCHANGED <<enabled, told>> /\ Increasing(told) /\ Increasing(stream)
    BY <1>2 DEF ObjectChanges, NotifyInv
  <2>6. WritesSoFar' \subseteq WritesSoFar \union {top + 1}
    BY <2>2, <2>3 DEF WritesSoFar
  <2>7. \A c : ProxyTells(c)' <=> ProxyTells(c)
    BY <2>5 DEF ProxyTells
  <2>8. /\ proxyTold' \subseteq 1 .. top + 1
        /\ \A n \in proxyTold' : ProxyTells(changes'[n])
    <3>1. /\ proxyTold \subseteq 1 .. top
          /\ \A n \in proxyTold : ProxyTells(changes[n])
      BY <2>2 DEF NotifyInv
    <3>2. proxyTold' = IF ProxyTells(changes'[top + 1]) THEN proxyTold \union {top + 1} ELSE proxyTold
      BY <1>2, <2>3 DEF ObjectChanges
    <3>3. \A n \in proxyTold : changes'[n] = changes[n]
      BY <2>3, <3>1
    <3> QED BY <3>1, <3>2, <3>3
  <2>9. CASE stream' = Append(stream, top + 1) /\ UNCHANGED unheard
    <3>1. /\ stream' \in Seq(1 .. top + 1) /\ Increasing(stream')
          /\ Len(stream') = Len(stream) + 1 /\ stream'[Len(stream) + 1] = top + 1
          /\ \A i \in 1 .. Len(stream) : stream'[i] = stream[i]
          /\ Range(stream') = Range(stream) \union {top + 1}
      BY <2>4, <2>5, <2>9, PutBehind, top + 1 \in Nat, top + 1 \in 1 .. top + 1
    <3>2. PICK m \in Nat : m = Len(stream)
      BY <2>4, ElementsAre
    <3>3. ASSUME NEW i \in 1 .. Len(told), NEW j \in 1 .. m + 1 PROVE told[i] < stream'[j]
      <4>1. CASE j = m + 1
        BY <2>4, <3>1, <3>2, <4>1
      <4>2. CASE j \in 1 .. m
        BY <3>1, <3>2, <4>2 DEF NotifyInv
      <4> QED BY <4>1, <4>2
    <3>4. enabled.elastic => WritesSoFar' \subseteq Range(told) \union Range(stream') \union unheard
      BY <2>6, <3>1 DEF NotifyInv
    <3> QED BY <2>3, <2>4, <2>5, <2>7, <2>8, <2>9, <3>1, <3>2, <3>3, <3>4 DEF NotifyInv
  <2>10. CASE unheard' = unheard \union {top + 1} /\ UNCHANGED stream
    <3>1. enabled.elastic => WritesSoFar' \subseteq Range(told) \union Range(stream) \union unheard'
      BY <2>6, <2>10 DEF NotifyInv
    <3> QED BY <2>3, <2>4, <2>5, <2>7, <2>8, <2>10, <3>1 DEF NotifyInv
  <2> QED BY <1>2, <2>3, <2>9, <2>10 DEF ObjectChanges
<1>3. CASE ProcessStep
  <2>1. CASE ReadChange
    <3>1. Qualifies(Head(stream)) => enabled.elastic
      BY DEF Qualifies
    <3> QED BY <2>1, <3>1, NotifyTaken DEF ReadChange
  <2>2. CASE Start \/ Dial \/ ReadFails
    BY <2>2, NotifyStays DEF Start, Dial, ReadFails
  <2>3. CASE RegisterFlag
    BY <2>3, NotifyStays DEF RegisterFlag, Dies
  <2> QED BY <1>3, <2>1, <2>2, <2>3 DEF ProcessStep
<1>4. CASE FaultStep
  <2>1. CASE SendFails
    BY <2>1, NotifyTaken DEF SendFails
  <2>2. CASE Crash
    BY <2>2, NotifyStays DEF Crash, Dies
  <2>3. ASSUME NEW a \in 1 .. Addresses, Outage(a) \/ Returns(a) PROVE NotifyInv'
    BY <2>3, NotifyStays DEF Outage, Returns
  <2> QED BY <1>4, <2>1, <2>2, <2>3 DEF FaultStep
<1> QED BY <1>1, <1>2, <1>3, <1>4 DEF ServicesNext, allVars

LEMMA NotifyInitOK == ServicesInit => NotifyInv
<1> SUFFICES ASSUME ServicesInit PROVE NotifyInv
    OBVIOUS
<1>1. /\ changes = <<>> /\ told = <<>> /\ stream = <<>> /\ proxyTold = {} /\ enabled \in Settings
  BY DEF ServicesInit, Init, IndexInit
<1>2. <<>> \in Seq(Causes) /\ <<>> \in Seq({}) /\ Len(<<>>) = 0
  BY EmptySeq
<1>3. 1 .. 0 = {}
  OBVIOUS
<1>4. Increasing(<<>>)
  BY <1>2 DEF Increasing
<1>5. WritesSoFar = {}
  BY <1>1, <1>2, <1>3 DEF WritesSoFar
<1> QED BY <1>1, <1>2, <1>3, <1>4, <1>5, SettingsAssumption DEF NotifyInv

LEMMA NotifyInvHolds == ServicesSpec => []NotifyInv
  BY NotifyInitOK, NotifyStep, PTL DEF ServicesSpec

\* Each write that elastic-notify has heard of is told, once and in order.
THEOREM HeardIsToldHolds == ServicesSpec => []HeardIsTold
<1>1. NotifyInv => HeardIsTold
  BY DEF NotifyInv, HeardIsTold, Increasing
<1> QED BY <1>1, NotifyInvHolds, PTL

\* Of one write the proxy and elastic-notify both tell only when both are switched on, or
\* when it is one from parts.
THEOREM ToldOnce == ServicesSpec => []ToldByOneSource
<1>1. NotifyInv => ToldByOneSource
  <2> SUFFICES ASSUME NotifyInv, ~(enabled.elastic /\ (enabled.create \/ enabled.copy)),
                      NEW n \in proxyTold, n \in Range(told)
               PROVE  changes[n] = "multipart"
      BY DEF ToldByOneSource
  <2>1. told # <<>>
    BY EmptySeq DEF Range
  <2>2. enabled.elastic
    BY <2>1 DEF NotifyInv
  <2> QED BY <2>2 DEF NotifyInv, ProxyTells
<1> QED BY <1>1, NotifyInvHolds, PTL

-----------------------------------------------------------------------------
(* The text of a query, and how the expression takes it apart.             *)

LEMMA Joined ==
  ASSUME NEW T, NEW x \in Seq(T), NEW y \in Seq(T), NEW l, l = Len(x), NEW m, m = Len(y)
  PROVE  /\ x \o y \in Seq(T) /\ Len(x \o y) = l + m
         /\ \A i \in 1 .. l : (x \o y)[i] = x[i]
         /\ \A i \in 1 .. m : (x \o y)[l + i] = y[i]
<1>1. l \in Nat /\ m \in Nat
  BY LenProperties
<1>2. /\ x \o y \in Seq(T) /\ Len(x \o y) = l + m
      /\ \A i \in 1 .. l + m : (x \o y)[i] = IF i <= l THEN x[i] ELSE y[i - l]
  BY ConcatProperties
<1>3. ASSUME NEW i \in 1 .. m PROVE (x \o y)[l + i] = y[i]
  <2>1. PICK j \in 1 .. l + m : j = l + i /\ j - l = i /\ ~(j <= l)
    BY <1>1
  <2> QED BY <1>2, <2>1
<1> QED BY <1>1, <1>2, <1>3

LEMMA Dropped ==
  ASSUME NEW T, NEW x \in Seq(T), NEW y \in Seq(T), NEW l, l = Len(x)
  PROVE  SubSeq(x \o y, l + 1, Len(x \o y)) = y
<1>1. PICK m \in Nat : m = Len(y)
  BY LenProperties
<1>2. l \in Nat
  BY LenProperties
<1> DEFINE z == x \o y
<1>3. /\ z \in Seq(T) /\ Len(z) = l + m
      /\ \A i \in 1 .. m : z[l + i] = y[i]
  BY <1>1, Joined
<1> HIDE DEF z
<1>4. \A i \in l + 1 .. l + m : z[i] \in T
  BY <1>1, <1>2, <1>3, ElementOfSeq
<1> DEFINE t == SubSeq(z, l + 1, l + m)
<1>5. /\ t \in Seq(T) /\ Len(t) = m
      /\ \A i \in 1 .. m : t[i] = z[l + i]
  BY <1>1, <1>2, <1>4, SubSeqProperties
<1> HIDE DEF t
<1>6. t = y
  BY <1>1, <1>3, <1>5, SeqEqual
<1> QED BY <1>3, <1>6 DEF t, z

LEMMA FirstIs ==
  ASSUME NEW T, NEW s \in Seq(T), s # <<>>
  PROVE  s[1] = Head(s)
OBVIOUS

LEMMA OfOne ==
  ASSUME NEW T, NEW e \in T
  PROVE  <<e>> \in Seq(T) /\ Len(<<e>>) = 1 /\ <<e>>[1] = e /\ <<e>> # <<>>
OBVIOUS

LEMMA PutBefore ==
  ASSUME NEW T, NEW e \in T, NEW x \in Seq(T)
  PROVE  /\ <<e>> \o x \in Seq(T) /\ <<e>> \o x # <<>>
         /\ Head(<<e>> \o x) = e /\ Tail(<<e>> \o x) = x
<1>1. PICK l \in Nat, m \in Nat : l = 1 /\ m = Len(x)
  BY LenProperties
<1> DEFINE one == <<e>>
<1>2. one \in Seq(T) /\ l = Len(one) /\ one[1] = e
  BY <1>1, OfOne
<1> HIDE DEF one
<1> DEFINE z == one \o x
<1>3. /\ z \in Seq(T) /\ Len(z) = l + m /\ \A i \in 1 .. l : z[i] = one[i]
  <2>1. one \in Seq(T) /\ x \in Seq(T) /\ l = Len(one) /\ m = Len(x)
    BY <1>1, <1>2
  <2> HIDE DEF z
  <2>2. /\ one \o x \in Seq(T) /\ Len(one \o x) = l + m
        /\ \A i \in 1 .. l : (one \o x)[i] = one[i]
    BY ONLY <2>1, Joined
  <2> QED BY <2>2 DEF z
<1>4. SubSeq(z, l + 1, Len(z)) = x
  BY <1>2, Dropped
<1> HIDE DEF z
<1>5. z # <<>>
  <2>1. Len(z) # 0 /\ Len(<<>>) = 0
    BY <1>1, <1>3
  <2> QED BY <2>1
<1>6. z[1] = e /\ SubSeq(z, 2, Len(z)) = x
  <2>1. 1 \in 1 .. l /\ l + 1 = 2
    BY <1>1
  <2> QED BY <1>2, <1>3, <1>4, <2>1
<1>7. Head(z) = z[1] /\ Tail(z) = SubSeq(z, 2, Len(z))
  BY <1>3, <1>5, HeadTailProperties, TailIsSubSeq
<1> QED BY <1>3, <1>5, <1>6, <1>7 DEF z, one

\* At most one space is skipped.
LEMMA SkippedOf ==
  ASSUME NEW T, NEW x \in Seq(T), x # <<>>, Head(x) # " ", " " \in T
  PROVE  SkipSpace(x) = x /\ SkipSpace(<<" ">> \o x) = x
<1>1. SkipSpace(x) = x
  BY DEF SkipSpace
<1> DEFINE z == <<" ">> \o x
<1>2. z # <<>> /\ Head(z) = " " /\ Tail(z) = x
  BY PutBefore, Zenon
<1> HIDE DEF z
<1>3. SkipSpace(z) = x
  BY <1>2 DEF SkipSpace
<1> QED BY <1>1, <1>3 DEF z

\* What is skipped of a text is at most its first token.
LEMMA SkippedIs ==
  ASSUME NEW T, NEW x \in Seq(T)
  PROVE  \E k \in {0, 1} : /\ SkipSpace(x) \in Seq(T) /\ Len(SkipSpace(x)) = Len(x) - k
                           /\ \A i \in 1 .. Len(x) - k : SkipSpace(x)[i] = x[i + k]
<1>1. Len(x) \in Nat
  BY LenProperties
<1>2. CASE x # <<>> /\ Head(x) = " "
  <2>1. /\ SkipSpace(x) = Tail(x) /\ Tail(x) \in Seq(T) /\ Len(Tail(x)) = Len(x) - 1
        /\ \A i \in 1 .. Len(x) - 1 : Tail(x)[i] = x[i + 1]
    BY <1>2, HeadTailProperties DEF SkipSpace
  <2> QED BY <2>1
<1>3. CASE ~(x # <<>> /\ Head(x) = " ")
  <2>1. SkipSpace(x) = x
    BY <1>3 DEF SkipSpace
  <2> QED BY <1>1, <2>1
<1> QED BY <1>2, <1>3

\* The operators are told apart by their first character and their length, and of two that
\* begin alike the expression tries the longer one first.
LEMMA OperatorsAre ==
  /\ Len(Operators) = 5 /\ DOMAIN Operators = 1 .. 5
  /\ \A k \in 1 .. 5 : /\ Operators[k] \in Seq({"<", "=", ">"}) /\ Len(Operators[k]) \in {1, 2}
                       /\ Operators[k] # <<>>
                       /\ Len(Operators[k]) = 2 => Operators[k][2] = "="
  /\ \A j, k \in 1 .. 5 : Operators[j][1] = Operators[k][1] =>
        /\ Len(Operators[j]) = Len(Operators[k]) => j = k
        /\ Len(Operators[j]) > Len(Operators[k]) => j < k
<1>1. /\ Len(Operators) = 5 /\ DOMAIN Operators = 1 .. 5
      /\ Operators[1] = <<"<", "=">> /\ Operators[2] = <<"<">> /\ Operators[3] = <<"=", "=">>
      /\ Operators[4] = <<">", "=">> /\ Operators[5] = <<">">>
  BY DEF Operators, Equal
<1>2. \A k \in 1 .. 5 : k = 1 \/ k = 2 \/ k = 3 \/ k = 4 \/ k = 5
  OBVIOUS
<1>3. /\ <<"<", "=">> \in Seq({"<", "=", ">"}) /\ <<"=", "=">> \in Seq({"<", "=", ">"})
      /\ <<">", "=">> \in Seq({"<", "=", ">"}) /\ <<"<">> \in Seq({"<", "=", ">"})
      /\ <<">">> \in Seq({"<", "=", ">"})
  OBVIOUS
<1>4. /\ Len(<<"<", "=">>) = 2 /\ Len(<<"=", "=">>) = 2 /\ Len(<<">", "=">>) = 2
      /\ Len(<<"<">>) = 1 /\ Len(<<">">>) = 1
      /\ <<"<", "=">>[2] = "=" /\ <<"=", "=">>[2] = "=" /\ <<">", "=">>[2] = "="
      /\ <<"<", "=">>[1] = "<" /\ <<"=", "=">>[1] = "=" /\ <<">", "=">>[1] = ">"
      /\ <<"<">>[1] = "<" /\ <<">">>[1] = ">"
  OBVIOUS
<1>5. \A k \in 1 .. 5 : /\ Operators[k] \in Seq({"<", "=", ">"}) /\ Len(Operators[k]) \in {1, 2}
                        /\ Operators[k] # <<>>
                        /\ Len(Operators[k]) = 2 => Operators[k][2] = "="
  BY <1>1, <1>2, <1>3, <1>4, EmptySeq
<1>6. \A j, k \in 1 .. 5 : Operators[j][1] = Operators[k][1] =>
         /\ Len(Operators[j]) = Len(Operators[k]) => j = k
         /\ Len(Operators[j]) > Len(Operators[k]) => j < k
  <2> SUFFICES ASSUME NEW j \in 1 .. 5, NEW k \in 1 .. 5, Operators[j][1] = Operators[k][1]
               PROVE  /\ Len(Operators[j]) = Len(Operators[k]) => j = k
                      /\ Len(Operators[j]) > Len(Operators[k]) => j < k
      OBVIOUS
  <2> QED BY <1>1, <1>2, <1>4
<1> QED BY <1>1, <1>5, <1>6
-----------------------------------------------------------------------------
(* A query, written and read. *)

Space(q) == IF q.spaced THEN <<" ">> ELSE <<>>
Rest(q) == q.op \o (Space(q) \o q.value)

LEMMA QueryParts ==
  ASSUME NEW q, IsQuery(q)
  PROVE  /\ q.field \in Tokens /\ <<q.field>> \in Seq(Tokens) /\ " " \in Tokens
         /\ q.meta \in Seq(Tokens) /\ q.op \in Seq(Tokens) /\ q.value \in Seq(Tokens)
         /\ Space(q) \in Seq(Tokens) /\ q.value # <<>> /\ Head(q.value) # " "
         /\ \E k \in 1 .. 5 : q.op = Operators[k]
<1>1. q.field \in Tokens /\ " " \in Tokens /\ {"<", "=", ">"} \subseteq Tokens
  BY DEF IsQuery, Tokens
<1>2. <<q.field>> \in Seq(Tokens) /\ <<" ">> \in Seq(Tokens)
  BY <1>1, OfOne, Zenon
<1>3. q.meta \in Seq(Tokens)
  <2>1. q.meta \in Seq(Tokens \ {" "}) /\ Tokens \ {" "} \subseteq Tokens
    BY DEF IsQuery
  <2> QED BY <2>1, SeqMonotonic
<1>4. PICK k \in 1 .. 5 : q.op = Operators[k]
  <2>1. q.op \in Range(Operators)
    BY DEF IsQuery
  <2> QED BY <2>1, OperatorsAre DEF Range
<1>5. q.op \in Seq(Tokens)
  <2>1. q.op \in Seq({"<", "=", ">"})
    BY <1>4, OperatorsAre
  <2> QED BY <1>1, <2>1, SeqMonotonic
<1>6. Space(q) \in Seq(Tokens)
  <2>1. <<>> \in Seq(Tokens)
    BY EmptySeq
  <2> QED BY <1>2, <2>1 DEF Space
<1>7. q.value \in Seq(Tokens) /\ q.value # <<>> /\ Head(q.value) # " "
  BY DEF IsQuery
<1> QED BY <1>1, <1>2, <1>3, <1>4, <1>5, <1>6, <1>7

\* Where the name ends, and where the operator.
LEMMA WrittenIs ==
  ASSUME NEW q, IsQuery(q)
  PROVE  Written(q) = (<<q.field>> \o q.meta) \o (Space(q) \o Rest(q))
<1>1. PICK a, s, o, v : a = <<q.field>> \o q.meta /\ s = Space(q) /\ o = q.op /\ v = q.value
  OBVIOUS
<1>2. PICK T : T = Tokens
  OBVIOUS
<1>3. a \in Seq(T) /\ s \in Seq(T) /\ o \in Seq(T) /\ v \in Seq(T)
  BY <1>1, <1>2, QueryParts, ConcatProperties
<1>4. PICK b, c : b = a \o s /\ c = s \o v
  OBVIOUS
<1>5. b \in Seq(T) /\ c \in Seq(T)
  BY <1>3, <1>4, ConcatProperties
<1>6. PICK d, e : d = b \o o /\ e = o \o c
  OBVIOUS
<1>7. d \in Seq(T) /\ e \in Seq(T)
  BY <1>3, <1>5, <1>6, ConcatProperties
<1>8. (d \o s) \o v = d \o (s \o v)
  BY ONLY <1>3, <1>7
<1>9. (b \o o) \o c = b \o (o \o c)
  BY ONLY <1>3, <1>5
<1>10. (a \o s) \o e = a \o (s \o e)
  BY ONLY <1>3, <1>7
<1>11. (((a \o s) \o o) \o s) \o v = a \o (s \o e)
  BY ONLY <1>4, <1>6, <1>8, <1>9, <1>10, Zenon
<1>12. Written(q) = (((a \o s) \o o) \o s) \o v
  BY <1>1, Zenon DEF Written, Space
<1>13. e = Rest(q)
  BY <1>1, <1>4, <1>6, Zenon DEF Rest
<1> QED BY <1>1, <1>11, <1>12, <1>13, Zenon

\* What is left when a space that may stand before it is skipped.
LEMMA Unspaced ==
  ASSUME NEW q, IsQuery(q), NEW x \in Seq(Tokens), x # <<>>, Head(x) # " "
  PROVE  SkipSpace(Space(q) \o x) = x
<1>1. SkipSpace(x) = x /\ SkipSpace(<<" ">> \o x) = x
  BY QueryParts, SkippedOf, Zenon
<1>2. <<>> \o x = x
  BY ConcatEmptySeq
<1> QED BY <1>1, <1>2 DEF Space

\* An operator that a text begins with, when something is left behind it.
LEMMA BeginsWith ==
  ASSUME NEW x \in Seq(Tokens), NEW k \in 1 .. 5, IsPrefix(Operators[k], x),
         SkipSpace(SubSeq(x, Len(Operators[k]) + 1, Len(x))) # <<>>
  PROVE  /\ Len(Operators[k]) < Len(x)
         /\ \A i \in 1 .. Len(Operators[k]) : x[i] = Operators[k][i]
<1>1. PICK o, l, m : o = Operators[k] /\ l = Len(o) /\ m = Len(x)
  OBVIOUS
<1>2. l \in {1, 2} /\ m \in Nat /\ o \in Seq({"<", "=", ">"})
  BY <1>1, OperatorsAre, LenProperties
<1>3. l <= m /\ SubSeq(o, 1, l) = SubSeq(x, 1, l)
  BY <1>1 DEF IsPrefix
<1>4. l # m
  <2>1. SubSeq(x, m + 1, m) = <<>>
    BY <1>2, SubSeqEmpty
  <2>2. SkipSpace(<<>>) = <<>>
    BY DEF SkipSpace
  <2> QED BY <1>1, <2>1, <2>2
<1>5. ASSUME NEW i \in 1 .. l PROVE x[i] = o[i]
  <2>1. l \in Int /\ 1 + i - 1 = i /\ i \in 1 .. l - 1 + 1
    BY <1>2
  <2>2. \A j \in 1 .. l : x[j] \in Tokens
    BY <1>1, <1>2, <1>3, ElementOfSeq
  <2>3. \A j \in 1 .. l : o[j] \in {"<", "=", ">"}
    BY <1>1, <1>2, ElementOfSeq
  <2>4. SubSeq(x, 1, l)[i] = x[i]
    BY <2>1, <2>2, SubSeqProperties
  <2>5. SubSeq(o, 1, l)[i] = o[i]
    BY <2>1, <2>3, SubSeqProperties
  <2> QED BY <1>3, <2>4, <2>5
<1> QED BY <1>1, <1>2, <1>3, <1>4, <1>5

LEMMA Prefixed ==
  ASSUME NEW T, NEW o \in Seq(T), NEW y \in Seq(T), NEW l, l = Len(o)
  PROVE  IsPrefix(o, o \o y) /\ SubSeq(o \o y, 1, l) = o
<1>1. PICK m \in Nat : m = Len(y)
  BY LenProperties
<1>2. l \in Nat /\ l \in Int /\ 1 \in Int
  BY LenProperties
<1> DEFINE z == o \o y
           t == SubSeq(z, 1, l)
<1>3. /\ z \in Seq(T) /\ Len(z) = l + m
      /\ \A i \in 1 .. l : z[i] = o[i]
  BY <1>1, Joined
<1> HIDE DEF z
<1>4. \A i \in 1 .. l : z[i] \in T
  BY <1>3, ElementOfSeq
<1>5. /\ t \in Seq(T) /\ Len(t) = IF 1 <= l THEN l - 1 + 1 ELSE 0
      /\ \A i \in 1 .. l - 1 + 1 : t[i] = z[1 + i - 1]
  BY <1>2, <1>4, SubSeqProperties
<1> HIDE DEF t
<1>6. Len(t) = l /\ \A i \in 1 .. l : t[i] = z[i]
  BY <1>2, <1>5
<1>7. t = o
  BY <1>3, <1>5, <1>6, SeqEqual
<1>8. SubSeq(o, 1, l) = o
  BY SubSeqFull
<1>9. Len(o) <= Len(z)
  BY <1>1, <1>2, <1>3
<1> QED BY <1>7, <1>8, <1>9 DEF IsPrefix, t, z

\* The expression can match a query as its client wrote it.
LEMMA ReadAsWritten ==
  ASSUME NEW q, IsQuery(q), NEW k \in 1 .. 5, q.op = Operators[k],
         NEW text, text = Written(q), NEW l, l = Len(q.meta)
  PROVE  /\ l \in Nat /\ text \in Seq(Tokens) /\ l + 1 < Len(text)
         /\ text[1] = q.field /\ SubSeq(text, 2, l + 1) = q.meta
         /\ SubSeq(text, l + 2, Len(text)) = Space(q) \o Rest(q)
         /\ Rest(q) \in Seq(Tokens) /\ AfterName(text, l) = Rest(q)
         /\ AfterOperator(text, l, k) = q.value
         /\ <<l, k>> \in Matches(text)
<1>1. PICK n, y, r, v, s : n = <<q.field>> \o q.meta /\ y = Space(q) \o Rest(q) /\ r = Rest(q)
                           /\ v = q.value /\ s = Space(q)
  OBVIOUS
<1>2. PICK o, m : o = q.op /\ m = Len(o) /\ m \in {1, 2} /\ o # <<>> /\ o[1] \in {"<", "=", ">"}
  <2>1. Operators[k] \in Seq({"<", "=", ">"}) /\ Len(Operators[k]) \in {1, 2} /\ Operators[k] # <<>>
    BY OperatorsAre
  <2>2. 1 \in 1 .. Len(Operators[k])
    BY <2>1
  <2> QED BY <2>1, <2>2, ElementOfSeq
<1>3. /\ o \in Seq(Tokens) /\ v \in Seq(Tokens) /\ s \in Seq(Tokens) /\ q.meta \in Seq(Tokens)
      /\ <<q.field>> \in Seq(Tokens) /\ v # <<>> /\ Head(v) # " " /\ q.field \in Tokens
  BY <1>1, <1>2, QueryParts
<1>4. PICK c : c = s \o v
  OBVIOUS
<1>5. c \in Seq(Tokens) /\ r = o \o c
  <2>1. c \in Seq(Tokens)
    BY <1>3, <1>4, ConcatProperties
  <2> QED BY <1>1, <1>2, <1>4, <2>1, Zenon DEF Rest
<1>6. r \in Seq(Tokens) /\ Len(r) \in Nat /\ Len(r) > 0 /\ \A i \in 1 .. m : r[i] = o[i]
  <2>1. PICK mc \in Nat : mc = Len(c)
    BY <1>5, LenProperties
  <2>2. o \in Seq(Tokens) /\ c \in Seq(Tokens) /\ m = Len(o) /\ mc = Len(c)
    BY <1>2, <1>3, <1>5, <2>1
  <2>3. /\ o \o c \in Seq(Tokens) /\ Len(o \o c) = m + mc
        /\ \A i \in 1 .. m : (o \o c)[i] = o[i]
    BY ONLY <2>2, Joined
  <2> QED BY <1>2, <1>5, <2>1, <2>3
<1>7. r # <<>> /\ Head(r) # " "
  <2>1. 1 \in 1 .. m /\ r[1] = o[1]
    BY <1>2, <1>6
  <2>2. r # <<>>
    <3>1. Len(<<>>) = 0 /\ Len(r) # 0
      BY <1>6
    <3> QED BY <3>1
  <2>3. Head(r) = r[1]
    BY <1>6, <2>2, HeadTailProperties
  <2> QED BY <1>2, <2>1, <2>2, <2>3
<1>8. IsPrefix(o, r) /\ SubSeq(r, m + 1, Len(r)) = c
  <2>1. IsPrefix(o, o \o c)
    BY <1>2, <1>3, <1>5, Prefixed
  <2>2. SubSeq(o \o c, m + 1, Len(o \o c)) = c
    BY <1>2, <1>3, <1>5, Dropped
  <2> QED BY <1>5, <2>1, <2>2
<1>9. SkipSpace(c) = v
  BY <1>1, <1>3, <1>4, Unspaced
<1>10. y \in Seq(Tokens) /\ SkipSpace(y) = r
  <2>1. s \o r \in Seq(Tokens)
    BY <1>3, <1>6, ConcatProperties
  <2>2. SkipSpace(s \o r) = r
    BY <1>1, <1>6, <1>7, Unspaced
  <2> QED BY <1>1, <2>1, <2>2
<1>11. l \in Nat /\ n \in Seq(Tokens) /\ Len(n) = l + 1 /\ n[1] = q.field
       /\ \A i \in 1 .. l : n[i + 1] = q.meta[i]
  <2>1. l \in Nat
    BY <1>3, LenProperties
  <2>2. PICK a, u, w : w = q.meta /\ w \in Seq(Tokens) /\ l = Len(w) /\ a = <<q.field>> /\ u = 1 /\ a \in Seq(Tokens) /\ Len(a) = u /\ a[1] = q.field
    BY <1>3, OfOne
  <2>3. /\ a \o w \in Seq(Tokens) /\ Len(a \o w) = u + l
        /\ \A i \in 1 .. u : (a \o w)[i] = a[i]
        /\ \A i \in 1 .. l : (a \o w)[u + i] = w[i]
    BY <2>2, Joined
  <2>4. 1 \in 1 .. u /\ u + l = l + 1 /\ \A i \in 1 .. l : u + i = i + 1
    BY <2>1, <2>2
  <2> QED BY <1>1, <2>1, <2>2, <2>3, <2>4
<1>12. text = n \o y
  BY <1>1, WrittenIs
<1>13. /\ text \in Seq(Tokens) /\ Len(text) = (l + 1) + Len(y)
       /\ \A i \in 1 .. l + 1 : text[i] = n[i]
  <2>1. PICK ln, ly : ln = l + 1 /\ ln = Len(n) /\ ly = Len(y)
    BY <1>11
  <2>2. n \in Seq(Tokens) /\ y \in Seq(Tokens) /\ ln = Len(n) /\ ly = Len(y)
    BY <1>10, <1>11, <2>1
  <2>3. /\ n \o y \in Seq(Tokens) /\ Len(n \o y) = ln + ly
        /\ \A i \in 1 .. ln : (n \o y)[i] = n[i]
    BY ONLY <2>2, Joined
  <2> QED BY <1>12, <2>1, <2>3
<1>14. SubSeq(text, l + 2, Len(text)) = y
  <2>1. l + 1 = Len(n) /\ (l + 1) + 1 = l + 2
    BY <1>11
  <2>2. SubSeq(n \o y, (l + 1) + 1, Len(n \o y)) = y
    BY <1>10, <1>11, <2>1, Dropped
  <2> QED BY <1>12, <2>1, <2>2
<1>15. AfterName(text, l) = r
  BY <1>10, <1>14 DEF AfterName
<1>16. AfterOperator(text, l, k) = v
  BY <1>2, <1>8, <1>9, <1>15 DEF AfterOperator
<1>17. l + 1 < Len(text)
  <2>1. PICK ls, lr : ls \in Nat /\ ls = Len(s) /\ lr = Len(r)
    BY <1>3, LenProperties
  <2>2. s \in Seq(Tokens) /\ r \in Seq(Tokens) /\ ls = Len(s) /\ lr = Len(r)
    BY <1>3, <1>6, <2>1
  <2>3. Len(s \o r) = ls + lr
    BY ONLY <2>2, Joined
  <2>4. Len(y) = ls + lr
    BY <1>1, <2>3
  <2>5. l \in Nat /\ lr \in Nat /\ lr > 0 /\ Len(text) = (l + 1) + Len(y)
    BY <1>6, <1>11, <1>13, <2>1
  <2> QED BY ONLY <2>1, <2>4, <2>5
<1> QED
  <2>1. text[1] = q.field
    <3>1. 1 \in 1 .. l + 1
      BY <1>11
    <3> QED BY <1>11, <1>13, <3>1
  <2>2. SubSeq(text, 2, l + 1) = q.meta
    <3> DEFINE t == SubSeq(text, 2, l + 1)
    <3>1. \A i \in 2 .. l + 1 : text[i] \in Tokens
      <4>1. \A i \in 2 .. l + 1 : i \in 1 .. Len(text)
        BY <1>11, <1>13, <1>17, LenProperties
      <4> QED BY <1>13, <4>1, ElementOfSeq
    <3>2. l + 1 \in Int /\ 2 \in Int
      BY <1>11
    <3>3. /\ t \in Seq(Tokens) /\ Len(t) = IF 2 <= l + 1 THEN l + 1 - 2 + 1 ELSE 0
          /\ \A i \in 1 .. l + 1 - 2 + 1 : t[i] = text[2 + i - 1]
      BY <3>1, <3>2, SubSeqProperties
    <3> HIDE DEF t
    <3>4. Len(t) = l
      BY <1>11, <3>3
    <3>5. \A i \in 1 .. l : t[i] = q.meta[i]
      <4>1. \A i \in 1 .. l : i \in 1 .. l + 1 - 2 + 1 /\ 2 + i - 1 = i + 1 /\ i + 1 \in 1 .. l + 1
        BY <1>11
      <4> QED BY <1>11, <1>13, <3>3, <4>1
    <3> QED BY <1>3, <3>3, <3>4, <3>5, SeqEqual DEF t
  <2>3. l \in NameLengths(text)
    <3>1. CASE q.field = Custom
      <4>1. q.meta \in Seq(Tokens \ {" "}) /\ q.meta # <<>>
        BY <3>1 DEF IsQuery
      <4>2. l # 0
        BY <4>1, EmptySeq
      <4>3. \A i \in 2 .. l + 1 : text[i] # " "
        <5>1. \A i \in 2 .. l + 1 : i - 1 \in 1 .. l /\ i \in 1 .. l + 1 /\ (i - 1) + 1 = i
          BY <1>11
        <5>2. \A i \in 1 .. l : q.meta[i] \in Tokens \ {" "}
          BY <4>1, ElementOfSeq
        <5>3. \A i \in 2 .. l + 1 : text[i] = q.meta[i - 1]
          BY <1>11, <1>13, <5>1
        <5> QED BY <5>1, <5>2, <5>3
      <4>4. l \in 1 .. Len(text) - 1
        BY <1>11, <1>13, <1>17, <4>2, LenProperties
      <4> QED BY <2>1, <3>1, <4>3, <4>4 DEF NameLengths
    <3>2. CASE q.field # Custom
      <4>1. q.meta = <<>>
        BY <3>2 DEF IsQuery
      <4>2. l = 0
        BY <4>1, EmptySeq
      <4> QED BY <2>1, <3>2, <4>2 DEF NameLengths
    <3> QED BY <3>1, <3>2
  <2>4. <<l, k>> \in Matches(text)
    <3>1. <<l, k>>[1] = l /\ <<l, k>>[2] = k /\ <<l, k>> \in NameLengths(text) \X (1 .. Len(Operators))
      BY <2>3, OperatorsAre
    <3>2. IsPrefix(Operators[k], AfterName(text, l)) /\ AfterOperator(text, l, k) # <<>>
      BY <1>2, <1>3, <1>8, <1>15, <1>16
    <3> QED BY <3>1, <3>2 DEF Matches
  <2> QED BY <1>1, <1>6, <1>11, <1>13, <1>14, <1>15, <1>16, <1>17, <2>1, <2>2, <2>4

LEMMA RestIs ==
  ASSUME NEW q, IsQuery(q), NEW m, m = Len(q.op), m \in {1, 2}
  PROVE  /\ \A i \in 1 .. m : Rest(q)[i] = q.op[i]
         /\ q.spaced => Rest(q)[m + 1] = " " /\ Head(Space(q) \o Rest(q)) = " "
                        /\ Space(q) \o Rest(q) # <<>>
         /\ ~q.spaced => Rest(q) = q.op \o q.value /\ Space(q) \o Rest(q) = Rest(q)
<1>1. PICK o, v, s, c : o = q.op /\ v = q.value /\ s = Space(q) /\ c = s \o v
  OBVIOUS
<1>2. /\ o \in Seq(Tokens) /\ v \in Seq(Tokens) /\ s \in Seq(Tokens) /\ v # <<>>
      /\ " " \in Tokens
  BY <1>1, QueryParts
<1>3. c \in Seq(Tokens)
  BY <1>1, <1>2, ConcatProperties
<1>4. Rest(q) = o \o c
  BY <1>1, Zenon DEF Rest
<1>5. PICK mc \in Nat : mc = Len(c)
  BY <1>3, LenProperties
<1>6. /\ \A i \in 1 .. m : (o \o c)[i] = o[i]
      /\ \A i \in 1 .. mc : (o \o c)[m + i] = c[i]
      /\ o \o c \in Seq(Tokens)
  <2>1. o \in Seq(Tokens) /\ c \in Seq(Tokens) /\ m = Len(o) /\ mc = Len(c)
    BY <1>1, <1>2, <1>3, <1>5
  <2> QED BY ONLY <2>1, Joined
<1>7. CASE q.spaced
  <2>1. s = <<" ">>
    BY <1>1, <1>7 DEF Space
  <2>2. c # <<>> /\ Head(c) = " "
    BY <1>1, <1>2, <2>1, PutBefore, Zenon
  <2>3. c[1] = " " /\ 1 \in 1 .. mc
    <3>1. c[1] = Head(c)
      BY <1>3, <2>2, FirstIs
    <3>2. Len(c) \in Nat \ {0}
      BY <1>3, <2>2, EmptySeq
    <3>3. 1 \in 1 .. mc
      BY <1>5, <3>2
    <3> QED BY <2>2, <3>1, <3>3
  <2>4. Rest(q)[m + 1] = " "
    BY <1>4, <1>6, <2>3
  <2>5. PICK r : r = Rest(q) /\ r \in Seq(Tokens)
    BY <1>4, <1>6
  <2>6. Head(<<" ">> \o r) = " " /\ <<" ">> \o r # <<>>
    BY <1>2, <2>5, PutBefore, Zenon
  <2> QED BY <1>1, <1>4, <1>6, <1>7, <2>1, <2>4, <2>5, <2>6
<1>8. CASE ~q.spaced
  <2>1. s = <<>>
    BY <1>1, <1>8 DEF Space
  <2>2. c = v
    BY <1>1, <1>2, <2>1, ConcatEmptySeq
  <2>3. PICK r : r = Rest(q) /\ r \in Seq(Tokens)
    BY <1>4, <1>6
  <2>4. <<>> \o r = r
    BY <2>3, ConcatEmptySeq
  <2> QED BY <1>1, <1>4, <1>6, <1>8, <2>1, <2>2, <2>3, <2>4
<1> QED BY <1>7, <1>8

LEMMA NameIs ==
  ASSUME NEW text \in Seq(Tokens), 1 < Len(text), NEW n \in NameLengths(text)
  PROVE  /\ n \in Nat /\ n + 1 <= Len(text)
         /\ n # 0 => text[1] = Custom /\ \A i \in 2 .. n + 1 : text[i] # " "
<1>1. Len(text) \in Nat
  BY LenProperties
<1>2. CASE text[1] = Custom
  <2>1. NameLengths(text) = {i \in 1 .. Len(text) - 1 : \A h \in 2 .. i + 1 : text[h] # " "}
    BY <1>2, Zenon DEF NameLengths
  <2>2. n \in 1 .. Len(text) - 1 /\ \A h \in 2 .. n + 1 : text[h] # " "
    BY <2>1
  <2>3. PICK l \in Nat : l = Len(text) /\ n \in 1 .. l - 1
    BY <1>1, <2>2
  <2>4. n \in Nat /\ n + 1 <= l
    BY <2>3
  <2> QED BY ONLY <1>2, <2>2, <2>3, <2>4
<1>3. CASE text[1] # Custom
  <2>1. n = 0
    BY <1>3 DEF NameLengths
  <2> QED BY <1>1, <2>1
<1> QED BY <1>2, <1>3

\* Operator j stands behind a name of n tokens and d spaces, and something behind it.
StandsAt(text, n, j, d) ==
    /\ n + 1 + d + Len(Operators[j]) < Len(text)
    /\ \A i \in 1 .. Len(Operators[j]) :
          AfterName(text, n)[i] = Operators[j][i] /\ text[n + 1 + d + i] = Operators[j][i]

\* What stands behind a name, when the expression matches.
LEMMA BehindName ==
  ASSUME NEW text \in Seq(Tokens), 1 < Len(text), NEW n, NEW j, <<n, j>> \in Matches(text)
  PROVE  /\ n \in NameLengths(text) /\ n \in Nat /\ j \in 1 .. 5
         /\ \E d \in {0, 1} : StandsAt(text, n, j, d)
<1>1. PICK m : m = <<n, j>>
  OBVIOUS
<1>2. m[1] = n /\ m[2] = j
  BY <1>1
<1>3. /\ n \in NameLengths(text) /\ j \in 1 .. 5
      /\ IsPrefix(Operators[j], AfterName(text, n))
      /\ AfterOperator(text, n, j) # <<>>
  <2>1. m \in Matches(text)
    BY <1>1
  <2>2. /\ m \in NameLengths(text) \X (1 .. Len(Operators))
        /\ IsPrefix(Operators[m[2]], AfterName(text, m[1]))
        /\ AfterOperator(text, m[1], m[2]) # <<>>
    BY <2>1 DEF Matches
  <2>3. n \in NameLengths(text) /\ j \in 1 .. Len(Operators)
    BY <1>1, <2>2
  <2> QED BY <1>2, <2>2, <2>3, OperatorsAre
<1>4. n \in Nat /\ n + 1 <= Len(text) /\ Len(text) \in Nat
  BY <1>3, NameIs, LenProperties
<1>5. PICK l : l = Len(text)
  OBVIOUS
<1> DEFINE y == SubSeq(text, n + 2, Len(text))
<1>6. /\ y \in Seq(Tokens) /\ Len(y) = l - (n + 1)
      /\ \A i \in 1 .. l - (n + 1) : y[i] = text[n + 1 + i]
  <2>1. \A i \in n + 2 .. l : text[i] \in Tokens
    BY <1>4, <1>5, ElementOfSeq
  <2>2. n + 2 \in Int /\ l \in Int
    BY <1>4, <1>5
  <2>3. /\ y \in Seq(Tokens) /\ Len(y) = IF n + 2 <= l THEN l - (n + 2) + 1 ELSE 0
        /\ \A i \in 1 .. l - (n + 2) + 1 : y[i] = text[(n + 2) + i - 1]
    BY <1>5, <2>1, <2>2, SubSeqProperties
  <2> HIDE DEF y
  <2>4. l - (n + 2) + 1 = l - (n + 1) /\ \A i \in 1 .. l - (n + 1) : (n + 2) + i - 1 = n + 1 + i
    BY <1>4, <1>5
  <2>5. Len(y) = l - (n + 1)
    BY <1>4, <1>5, <2>3
  <2> QED BY <2>3, <2>4, <2>5
<1>7. AfterName(text, n) = SkipSpace(y)
  BY DEF AfterName
<1> HIDE DEF y
<1>8. PICK x : x = AfterName(text, n)
  OBVIOUS
<1>9. PICK d \in {0, 1} : /\ x \in Seq(Tokens) /\ Len(x) = l - (n + 1) - d
                          /\ \A i \in 1 .. l - (n + 1) - d : x[i] = y[i + d]
  BY <1>6, <1>7, <1>8, SkippedIs
<1>10. PICK o : o = Len(Operators[j])
  OBVIOUS
<1>11. o < Len(x) /\ \A i \in 1 .. o : x[i] = Operators[j][i]
  BY <1>3, <1>8, <1>9, <1>10, BeginsWith DEF AfterOperator
<1>12. o \in Nat
  BY <1>3, <1>10, OperatorsAre
<1>13. n + 1 + d + o < l
  BY <1>4, <1>5, <1>9, <1>11, <1>12
<1>14. ASSUME NEW i \in 1 .. o PROVE text[n + 1 + d + i] = Operators[j][i]
  <2>1. i \in 1 .. l - (n + 1) - d /\ i + d \in 1 .. l - (n + 1) /\ n + 1 + (i + d) = n + 1 + d + i
    BY <1>4, <1>5, <1>12, <1>13
  <2> QED BY <1>6, <1>9, <1>11, <2>1
<1>15. StandsAt(text, n, j, d)
  BY <1>5, <1>8, <1>10, <1>11, <1>13, <1>14 DEF StandsAt
<1> QED BY <1>3, <1>4, <1>15

LEMMA SliceIs ==
  ASSUME NEW T, NEW x \in Seq(T), NEW o \in Seq(T), NEW i \in Nat, i > 0, NEW m, m = Len(o),
         i + m <= Len(x), \A h \in 1 .. m : x[i - 1 + h] = o[h]
  PROVE  SubSeq(x, i, i + m - 1) = o
<1>1. m \in Nat /\ Len(x) \in Nat
  BY LenProperties
<1> DEFINE t == SubSeq(x, i, i + m - 1)
<1>2. \A h \in i .. i + m - 1 : x[h] \in T
  BY <1>1, ElementOfSeq
<1>3. i + m - 1 \in Int /\ i \in Int
  BY <1>1
<1>4. /\ t \in Seq(T) /\ Len(t) = IF i <= i + m - 1 THEN (i + m - 1) - i + 1 ELSE 0
      /\ \A h \in 1 .. (i + m - 1) - i + 1 : t[h] = x[i + h - 1]
  BY <1>2, <1>3, SubSeqProperties
<1> HIDE DEF t
<1>5. Len(t) = m
  BY <1>1, <1>4
<1>6. (i + m - 1) - i + 1 = m /\ \A h \in 1 .. m : i + h - 1 = i - 1 + h
  BY <1>1
<1>7. \A h \in 1 .. m : t[h] = o[h]
  BY <1>4, <1>6
<1> QED BY <1>4, <1>5, <1>7, SeqEqual DEF t

\* An operator that the rest of a query written without spaces holds makes it ambiguous.
LEMMA AmbiguousIf ==
  ASSUME NEW q, IsQuery(q), ~q.spaced, NEW j \in 1 .. 5, NEW i \in Nat, i > 0,
         i + Len(Operators[j]) <= Len(Rest(q)),
         \A h \in 1 .. Len(Operators[j]) : Rest(q)[i - 1 + h] = Operators[j][h],
         \/ i = 1 /\ Len(Operators[j]) > Len(q.op)
         \/ i > 1 /\ q.field = Custom
  PROVE  Ambiguous(q)
<1>1. PICK r, o, m : r = Rest(q) /\ o = Operators[j] /\ m = Len(o)
  OBVIOUS
<1>2. m \in {1, 2} /\ o \in Seq(Tokens)
  <2>1. o \in Seq({"<", "=", ">"}) /\ m \in {1, 2} /\ {"<", "=", ">"} \subseteq Tokens
    BY <1>1, OperatorsAre DEF Tokens
  <2> QED BY <2>1, SeqMonotonic
<1>3. PICK k \in 1 .. 5 : q.op = Operators[k]
  BY QueryParts
<1>4. r \in Seq(Tokens)
  BY <1>1, <1>3, ReadAsWritten
<1>5. r = q.op \o q.value
  <2>1. Len(q.op) \in {1, 2}
    BY <1>3, OperatorsAre
  <2> QED BY <1>1, <2>1, RestIs
<1>6. i + m <= Len(r) /\ \A h \in 1 .. m : r[i - 1 + h] = o[h]
  BY <1>1
<1>7. SubSeq(r, i, i + m - 1) = o
  BY <1>1, <1>2, <1>4, <1>6, SliceIs
<1>8. i \in 1 .. Len(r)
  BY <1>2, <1>4, <1>6, LenProperties
<1> DEFINE begins(h, p) == h + Len(p) <= Len(r) /\ SubSeq(r, h, h + Len(p) - 1) = p
<1>9. begins(i, Operators[j])
  BY <1>1, <1>6, <1>7
<1>10. Ambiguous(q) <=> \/ \E h \in 1 .. Len(Operators) :
                              begins(1, Operators[h]) /\ Len(Operators[h]) > Len(q.op)
                        \/ q.field = Custom /\ \E p \in 2 .. Len(r), h \in 1 .. Len(Operators) :
                              begins(p, Operators[h])
  BY <1>5 DEF Ambiguous
<1> HIDE DEF begins
<1>11. j \in 1 .. Len(Operators)
  BY OperatorsAre
<1>12. CASE i = 1 /\ Len(Operators[j]) > Len(q.op)
  BY <1>9, <1>10, <1>11, <1>12
<1>13. CASE i > 1 /\ q.field = Custom
  <2>1. i \in 2 .. Len(r)
    BY <1>8, <1>13
  <2> QED BY <1>9, <1>10, <1>11, <1>13, <2>1
<1> QED BY <1>12, <1>13

\* No other match of the expression is preferred to what the client wrote.
LEMMA OtherReading ==
  ASSUME NEW q, IsQuery(q), ~Ambiguous(q), NEW k \in 1 .. 5, q.op = Operators[k],
         NEW text, text = Written(q), NEW l, l = Len(q.meta), NEW n, NEW j,
         <<n, j>> \in Matches(text)
  PROVE  l > n \/ (l = n /\ k <= j)
<1>1. PICK m : m = Len(q.op) /\ m \in {1, 2}
  BY OperatorsAre
<1>2. PICK y, r : y = Space(q) \o Rest(q) /\ r = Rest(q)
  OBVIOUS
<1>3. /\ l \in Nat /\ text \in Seq(Tokens) /\ l + 1 < Len(text) /\ text[1] = q.field
      /\ SubSeq(text, l + 2, Len(text)) = y
      /\ r \in Seq(Tokens) /\ AfterName(text, l) = r
  BY <1>2, ReadAsWritten
<1>4. PICK L \in Nat : L = Len(text) /\ l + 1 < L /\ 1 < L
  BY <1>3, LenProperties
<1>5. PICK p : p = Len(Operators[j])
  OBVIOUS
<1>6. n \in NameLengths(text) /\ n \in Nat /\ j \in 1 .. 5
  BY <1>3, <1>4, BehindName
<1>7. PICK d \in {0, 1} :
         /\ n + 1 + d + p < L
         /\ \A i \in 1 .. p : /\ AfterName(text, n)[i] = Operators[j][i]
                              /\ text[n + 1 + d + i] = Operators[j][i]
  <2>1. \E d \in {0, 1} : StandsAt(text, n, j, d)
    BY <1>3, <1>4, BehindName
  <2> QED BY <1>4, <1>5, <2>1 DEF StandsAt
<1>8. p \in {1, 2} /\ Operators[j] # <<>> /\ (p = 2 => Operators[j][2] = "=")
  BY <1>5, <1>6, OperatorsAre
<1>9. /\ y \in Seq(Tokens) /\ Len(y) = L - (l + 1)
      /\ \A i \in 1 .. L - (l + 1) : y[i] = text[l + 1 + i]
  <2>1. \A i \in l + 2 .. L : text[i] \in Tokens
    BY <1>3, <1>4, ElementOfSeq
  <2>2. l + 2 \in Int /\ L \in Int
    BY <1>3
  <2>3. /\ y \in Seq(Tokens) /\ Len(y) = IF l + 2 <= L THEN L - (l + 2) + 1 ELSE 0
        /\ \A i \in 1 .. L - (l + 2) + 1 : y[i] = text[(l + 2) + i - 1]
    <3>1. SubSeq(text, l + 2, L) = y
      BY <1>3, <1>4
    <3>2. PICK t : t = SubSeq(text, l + 2, L)
      OBVIOUS
    <3>3. /\ t \in Seq(Tokens) /\ Len(t) = IF l + 2 <= L THEN L - (l + 2) + 1 ELSE 0
          /\ \A i \in 1 .. L - (l + 2) + 1 : t[i] = text[(l + 2) + i - 1]
      BY ONLY <2>1, <2>2, <3>2, SubSeqProperties
    <3> QED BY ONLY <3>1, <3>2, <3>3
  <2>4. L - (l + 2) + 1 = L - (l + 1) /\ \A i \in 1 .. L - (l + 1) : (l + 2) + i - 1 = l + 1 + i
    BY <1>3
  <2>5. Len(y) = L - (l + 1)
    <3>1. l \in Nat /\ Len(y) = IF l + 2 <= L THEN L - (l + 2) + 1 ELSE 0
      BY <1>3, <2>3
    <3> QED BY ONLY <1>4, <3>1
  <2> QED BY <2>3, <2>4, <2>5
<1>10. CASE n > l
  <2>1. q.field = Custom /\ \A i \in 2 .. n + 1 : text[i] # " "
    <3>1. n # 0
      BY <1>3, <1>6, <1>10
    <3> QED BY <1>3, <1>4, <1>6, <3>1, NameIs
  <2>2. ~q.spaced
    <3>1. SUFFICES ASSUME q.spaced PROVE FALSE
      OBVIOUS
    <3>2. y # <<>> /\ Head(y) = " "
      BY <1>1, <1>2, <3>1, RestIs
    <3>3. y[1] = " "
      BY <1>9, <3>2, FirstIs
    <3>4. 1 \in 1 .. L - (l + 1) /\ l + 1 + 1 \in 2 .. n + 1
      BY <1>3, <1>4, <1>6, <1>10
    <3> QED BY <1>9, <2>1, <3>3, <3>4
  <2>3. y = r
    BY <1>1, <1>2, <2>2, RestIs
  <2>4. PICK i \in Nat : i = n - l + 1 + d /\ i > 1
    <3>1. l \in Nat /\ n \in Nat /\ n > l
      BY <1>3, <1>6, <1>10
    <3>2. n - l + 1 + d \in Nat /\ n - l + 1 + d > 1
      BY ONLY <3>1, d \in {0, 1}
    <3> QED BY ONLY <3>2
  <2>5. i + p <= Len(r)
    <3>1. l \in Nat /\ n \in Nat /\ p \in Nat /\ Len(r) = L - (l + 1) /\ n + 1 + d + p < L
      <4>1. l \in Nat
        BY <1>3
      <4>2. p \in Nat
        BY ONLY <1>8
      <4>3. Len(r) = L - (l + 1)
        BY ONLY <1>9, <2>3
      <4> QED BY ONLY <1>6, <1>7, <4>1, <4>2, <4>3
    <3> QED BY ONLY <1>4, <2>4, <3>1, d \in {0, 1}
  <2>6. ASSUME NEW h \in 1 .. p PROVE r[i - 1 + h] = Operators[j][h]
    <3>1. i - 1 + h \in 1 .. L - (l + 1) /\ l + 1 + (i - 1 + h) = n + 1 + d + h
      <4>1. l \in Nat /\ n \in Nat /\ p \in Nat /\ n + 1 + d + p < L /\ n > l
        BY <1>3, <1>6, <1>7, <1>8, <1>10
      <4> QED BY ONLY <1>4, <2>4, <4>1, d \in {0, 1}, h \in 1 .. p
    <3> QED BY <1>7, <1>9, <2>3, <3>1
  <2>7. /\ i + Len(Operators[j]) <= Len(Rest(q))
        /\ \A h \in 1 .. Len(Operators[j]) : Rest(q)[i - 1 + h] = Operators[j][h]
    BY <1>2, <1>5, <2>5, <2>6
  <2>8. IsQuery(q) /\ j \in 1 .. 5 /\ i > 1 /\ q.field = Custom /\ i > 0
    <3>1. i > 0
      BY ONLY <2>4
    <3> QED BY <1>6, <2>1, <2>4, <3>1
  <2>9. Ambiguous(q)
    BY ONLY <2>2, <2>4, <2>7, <2>8, AmbiguousIf
  <2> QED BY <2>9
<1>11. CASE n = l
  <2>1. \A i \in 1 .. p : r[i] = Operators[j][i]
    BY <1>3, <1>7, <1>11
  <2>2. \A i \in 1 .. m : r[i] = q.op[i]
    BY <1>1, <1>2, RestIs
  <2>3. Operators[j][1] = Operators[k][1]
    BY <1>1, <1>8, <2>1, <2>2
  <2>4. CASE p <= m
    <3>0. Len(Operators[j]) = p /\ Len(Operators[k]) = m /\ j \in 1 .. 5 /\ k \in 1 .. 5
      BY <1>1, <1>5, <1>6
    <3>1. p = m => j = k
      BY ONLY <2>3, <3>0, OperatorsAre
    <3>2. m > p => k < j
      BY ONLY <2>3, <3>0, OperatorsAre
    <3> QED BY <1>1, <1>6, <1>8, <1>11, <2>4, <3>1, <3>2
  <2>5. CASE p > m
    <3>1. p = 2 /\ m = 1 /\ r[2] = "="
      <4>1. p = 2 /\ m = 1
        BY ONLY <1>1, <1>8, <2>5
      <4>2. 2 \in 1 .. p
        BY <4>1
      <4> QED BY <1>8, <2>1, <4>1, <4>2
    <3>2. ~q.spaced
      <4>1. q.spaced => r[m + 1] = " "
        BY <1>1, <1>2, RestIs
      <4>2. m + 1 = 2
        BY ONLY <3>1
      <4> QED BY <3>1, <4>1, <4>2
    <3>3. y = r
      BY <1>1, <1>2, <3>2, RestIs
    <3>4. 1 + p <= Len(r)
      <4>1. l \in Nat /\ Len(r) = L - (l + 1) /\ l + 1 + d + p < L /\ p \in Nat
        <5>1. l \in Nat
          BY <1>3
        <5>2. p \in Nat
          BY ONLY <1>8
        <5>3. Len(r) = L - (l + 1)
          BY ONLY <1>9, <3>3
        <5> QED BY ONLY <1>7, <1>11, <5>1, <5>2, <5>3
      <4> QED BY ONLY <1>4, <4>1, d \in {0, 1}
    <3>5. \A h \in 1 .. p : r[1 - 1 + h] = Operators[j][h]
      BY <2>1
    <3>6. PICK i \in Nat : i = 1
      OBVIOUS
    <3>7. /\ i + Len(Operators[j]) <= Len(Rest(q)) /\ Len(Operators[j]) > Len(q.op)
          /\ \A h \in 1 .. Len(Operators[j]) : Rest(q)[i - 1 + h] = Operators[j][h]
      BY <1>1, <1>2, <1>5, <2>5, <3>4, <3>5, <3>6
    <3>8. IsQuery(q) /\ j \in 1 .. 5 /\ i > 0
      BY <1>6, <3>6
    <3>9. Ambiguous(q)
      BY ONLY <3>2, <3>6, <3>7, <3>8, AmbiguousIf
    <3> QED BY <3>9
  <2> QED BY <1>1, <1>8, <2>4, <2>5
<1>12. CASE n < l
  BY <1>12
<1> QED BY <1>3, <1>6, <1>10, <1>11, <1>12

-----------------------------------------------------------------------------
(* What Search makes of a query, and whether it is what the client means.  *)

\* A query whose text is not ambiguous is taken apart into what the client wrote.
LEMMA GroupsAreWritten ==
  ASSUME NEW q, IsQuery(q), ~Ambiguous(q)
  PROVE  /\ Matches(Written(q)) # {}
         /\ Groups(Written(q)) =
              [field |-> q.field, meta |-> q.meta, op |-> q.op, value |-> q.value]
<1>1. PICK k \in 1 .. 5 : q.op = Operators[k]
  BY QueryParts
<1>2. PICK text, l : text = Written(q) /\ l = Len(q.meta)
  OBVIOUS
<1>3. /\ l \in Nat /\ text \in Seq(Tokens) /\ text[1] = q.field
      /\ SubSeq(text, 2, l + 1) = q.meta /\ AfterOperator(text, l, k) = q.value
      /\ <<l, k>> \in Matches(text)
  BY <1>1, <1>2, ReadAsWritten
<1>4. \A n, j : <<n, j>> \in Matches(text) => l > n \/ (l = n /\ k <= j)
  BY <1>1, <1>2, OtherReading
<1>5. \A m \in Matches(text) : m = <<m[1], m[2]>> /\ m[1] \in NameLengths(text) /\ m[2] \in 1 .. 5
  <2>1. \A m \in Matches(text) : m \in NameLengths(text) \X (1 .. Len(Operators))
    BY DEF Matches
  <2> QED BY <2>1, OperatorsAre
<1>6. PICK best : best = <<l, k>> /\ best[1] = l /\ best[2] = k
  <2>1. <<l, k>>[1] = l /\ <<l, k>>[2] = k
    OBVIOUS
  <2> QED BY <2>1
<1> DEFINE First(m) == \A other \in Matches(text) :
                          m[1] > other[1] \/ (m[1] = other[1] /\ m[2] <= other[2])
<1>7. First(best)
  <2> SUFFICES ASSUME NEW other \in Matches(text)
               PROVE  l > other[1] \/ (l = other[1] /\ k <= other[2])
      BY <1>6
  <2>1. other = <<other[1], other[2]>>
    BY <1>5
  <2> QED BY <1>4, <2>1
<1>8. ASSUME NEW m \in Matches(text), First(m) PROVE m = best
  <2>1. PICK n, j : n = m[1] /\ j = m[2] /\ m = <<n, j>> /\ j \in 1 .. 5 /\ n \in NameLengths(text)
    BY <1>5
  <2>2. l > n \/ (l = n /\ k <= j)
    BY <1>4, <2>1
  <2>3. n > l \/ (n = l /\ j <= k)
    BY <1>3, <1>6, <1>8, <2>1
  <2>4. n \in Nat
    <3>1. 1 < Len(text)
      <4>1. l + 1 < Len(text)
        BY <1>1, <1>2, ReadAsWritten
      <4>2. Len(text) \in Nat
        BY <1>3, LenProperties
      <4> QED BY <1>3, <4>1, <4>2
    <3> QED BY <1>3, <2>1, <3>1, NameIs
  <2>5. n = l /\ j = k
    BY <1>3, <2>1, <2>2, <2>3, <2>4
  <2> QED BY <1>6, <2>1, <2>5
<1>9. best \in Matches(text)
  BY <1>3, <1>6
<1>10. Preferred(Matches(text)) = best
  <2>1. Preferred(Matches(text)) = CHOOSE m \in Matches(text) : First(m)
    BY DEF Preferred
  <2> HIDE DEF First
  <2> QED BY <1>7, <1>8, <1>9, <2>1
<1>11. Groups(text) = [field |-> text[1], meta |-> SubSeq(text, 2, l + 1),
                       op |-> Operators[k], value |-> AfterOperator(text, l, k)]
  BY <1>6, <1>10 DEF Groups
<1> QED BY <1>1, <1>2, <1>3, <1>9, <1>11

\* The values that the handler takes are those of the syntax, but for the named ones.
LEMMA ValuesAre ==
  ASSUME NEW value
  PROVE  /\ IsDuration(value) \/ IsDate(value) <=>
               \/ /\ IsOne({"length", "padded length", "date"}, value)
                  /\ ~IsOne({"padded length"}, value)
                  /\ ~(IsOne({"date"}, value) /\ AmountOf[value[1]] = 0)
               \/ IsOne({"barred length"}, value)
               \/ IsOne({"short date"}, value) /\ AmountOf[value[1]] # 0
         /\ IsSize(value) <=> IsOne({"number"}, value) /\ ~(AmountOf[value[1]] > MaxInt)
         /\ IsOne({"md5"}, value) <=>
               IsOne({"md5", "upper md5"}, value) /\ ~IsOne({"upper md5"}, value)
<1>1. IsSize(value) <=> IsOne({"number"}, value) /\ ~(AmountOf[value[1]] > MaxInt)
  <2>1. CASE IsOne({"number"}, value)
    <3>1. PICK n \in Nat, m \in Nat : n = AmountOf[value[1]] /\ m = MaxInt
      BY <2>1, WordsAssumption DEF IsOne
    <3> QED BY <2>1, <3>1 DEF IsSize
  <2> QED BY <2>1 DEF IsSize
<1> QED BY <1>1 DEF IsDuration, IsDate, IsOne

LEMMA AcceptedIs ==
  ASSUME NEW q, IsQuery(q), ~Ambiguous(q)
  PROVE  Accepts(Written(q)) <=> (Documented(q) /\ ~Overlooked(q)) \/ Beyond(q)
<1>1. PICK g : g = Groups(Written(q))
  OBVIOUS
<1>2. g.field = q.field /\ g.op = q.op /\ g.value = q.value
  BY <1>1, GroupsAreWritten
<1>3. Accepts(Written(q)) <=>
         \/ q.field \in TextFields /\ q.op = Equal
         \/ q.field = "lastmodified" /\ q.op # Equal /\ (IsDuration(q.value) \/ IsDate(q.value))
         \/ q.field = "size" /\ q.op # Equal /\ IsSize(q.value)
         \/ q.field = "etag" /\ q.op = Equal /\ IsOne({"md5"}, q.value)
  BY <1>1, <1>2, GroupsAreWritten DEF Accepts
<1>4. PICK field, op, value : field = q.field /\ op = q.op /\ value = q.value
  OBVIOUS
<1>5. field \in TextFields => field \notin {"lastmodified", "size", "etag"}
  BY DEF TextFields, Custom
<1> QED BY <1>3, <1>4, <1>5, ValuesAre DEF Documented, Overlooked, Beyond

\* A value of a time that is accepted is a length of time for the handler when it is one for
\* the client.
LEMMA NotPadded ==
  ASSUME NEW q, IsQuery(q), ~Ambiguous(q), Accepts(Written(q)), q.field = "lastmodified"
  PROVE  IsOne(Lengths, q.value) <=> IsDuration(q.value)
<1>1. (Documented(q) /\ ~Overlooked(q)) \/ Beyond(q)
  BY AcceptedIs
<1>2. ~IsOne({"padded length"}, q.value)
  <2>1. CASE Documented(q) /\ ~Overlooked(q)
    BY <2>1 DEF Overlooked
  <2>2. CASE Beyond(q)
    BY <2>2 DEF Beyond, IsOne
  <2> QED BY <1>1, <2>1, <2>2
<1> QED BY <1>2 DEF IsOne, Lengths, IsDuration

\* What Elasticsearch selects for a query whose text is not ambiguous is what the client
\* means by it (newQuery and the queries it builds).
THEOREM SelectedIsMeant ==
  ASSUME NEW q \in Accepted, ~Ambiguous(q)
  PROVE  Selected[q] \subseteq Meant[q]
<1>1. IsQuery(q) /\ q \in Queries /\ Accepts(Written(q))
  BY QueriesAssumption DEF Accepted
<1>2. Documented(q) \/ Beyond(q)
  BY <1>1, AcceptedIs
<1>3. PICK g : g = Groups(Written(q))
  OBVIOUS
<1>4. g.field = q.field /\ g.meta = q.meta /\ g.op = q.op /\ g.value = q.value
  BY <1>1, <1>3, GroupsAreWritten
<1>5. ASSUME NEW d \in Documents, Selects(g, Attributes[d]) PROVE Means(q, Attributes[d])
  <2>1. PICK doc : doc = Attributes[d] /\ doc.mtime \in Nat
    BY AttributesAssumption
  <2>2. \A text, value : TextQuery(text, value) => Like(text, value)
    BY DEF TextQuery, Like
  <2>3. CASE q.field \in {"name", "contenttype"} /\ TextQuery(doc[q.field], q.value)
    BY <2>1, <2>2, <2>3 DEF Means
  <2>4. CASE q.field = Custom /\ \E pair \in doc.custom :
                pair[1] = q.meta /\ TextQuery(pair[2], q.value)
    BY <2>1, <2>2, <2>4 DEF Means
  <2>5. CASE \/ q.field = "etag" /\ doc.etag = q.value
             \/ q.field = "size" /\ Compare(doc.size, q.op, AmountOf[q.value[1]])
    BY <2>1, <2>5 DEF Means
  <2>6. CASE q.field = "lastmodified" /\ IsDuration(q.value)
             /\ TimeQuery(q.op, doc.mtime, AmountOf[q.value[1]])
    <3>1. PICK n \in Nat, t \in Nat, now \in Nat :
             n = AmountOf[q.value[1]] /\ t = doc.mtime /\ now = Now
      BY <2>1, <2>6, WordsAssumption DEF IsDuration, IsOne
    <3>2. TimeQuery(q.op, t, n)
      BY <2>6, <3>1
    <3>3. Compare(now - t, q.op, n)
      BY <3>1, <3>2 DEF TimeQuery, Compare
    <3>4. IsOne(Lengths, q.value)
      BY <2>6 DEF IsDuration, IsOne, Lengths
    <3> QED BY <2>1, <2>6, <3>1, <3>3, <3>4 DEF Means
  <2>7. CASE q.field = "lastmodified" /\ ~IsDuration(q.value)
             /\ Compare(doc.mtime, q.op, AmountOf[q.value[1]])
    <3>1. ~IsOne(Lengths, q.value)
      BY <1>1, <2>7, NotPadded
    <3> QED BY <2>1, <2>7, <3>1 DEF Means
  <2> QED BY <1>4, <1>5, <2>1, <2>3, <2>4, <2>5, <2>6, <2>7 DEF Selects
<1> QED BY <1>1, <1>2, <1>3, <1>5 DEF Selected, Meant

\* Without a wildcard, like means equal.
LEMMA LikeIsSelected ==
  ASSUME NEW text \in Seq(Tokens), NEW value \in Seq(Tokens), Like(text, value)
  PROVE  TextQuery(text, value)
<1>1. CASE HasStar(value)
  BY <1>1 DEF TextQuery
<1>2. CASE ~HasStar(value)
  <2>1. Len(text) = Len(value) /\ \A i \in 1 .. Len(text) : text[i] = value[i]
    BY <1>2 DEF Like, HasStar
  <2>2. text = value
    BY <2>1, SeqEqual
  <2> QED BY <1>2, <2>2 DEF TextQuery
<1> QED BY <1>1, <1>2

\* ... and of what the client means nothing is missing that is older than the search.
THEOREM MeantIsSelected ==
  ASSUME NEW q \in Accepted, ~Ambiguous(q), NEW d \in Meant[q], Attributes[d].mtime < Now
  PROVE  d \in Selected[q]
<1>1. IsQuery(q) /\ q \in Queries
  BY QueriesAssumption DEF Accepted
<1>2. PICK g : g = Groups(Written(q))
  OBVIOUS
<1>3. g.field = q.field /\ g.meta = q.meta /\ g.op = q.op /\ g.value = q.value
  BY <1>1, <1>2, GroupsAreWritten
<1>4. d \in Documents /\ InBucket(d) /\ Means(q, Attributes[d])
  BY <1>1 DEF Meant
<1>5. PICK doc : /\ doc = Attributes[d] /\ doc.mtime \in Nat /\ doc.mtime < Now
                 /\ doc.name \in Seq(Tokens) /\ doc.contenttype \in Seq(Tokens)
                 /\ \A pair \in doc.custom : pair[2] \in Seq(Tokens)
  BY <1>4, AttributesAssumption
<1>6. q.value \in Seq(Tokens)
  BY <1>1, QueryParts
<1>7. Accepts(Written(q))
  BY DEF Accepted
<1>8. Selects(g, doc)
  <2>1. CASE q.field \in {"name", "contenttype"} /\ Like(doc[q.field], q.value)
    <3>1. doc[q.field] \in Seq(Tokens)
      BY <1>5, <2>1
    <3>2. TextQuery(doc[q.field], q.value)
      BY <1>6, <2>1, <3>1, LikeIsSelected
    <3> QED BY <1>3, <2>1, <3>2 DEF Selects
  <2>2. CASE q.field = Custom /\ \E pair \in doc.custom :
                pair[1] = q.meta /\ Like(pair[2], q.value)
    <3>1. PICK pair \in doc.custom : pair[1] = q.meta /\ Like(pair[2], q.value)
      BY <2>2
    <3>2. TextQuery(pair[2], q.value)
      BY <1>5, <1>6, <3>1, LikeIsSelected
    <3> QED BY <1>3, <2>2, <3>1, <3>2 DEF Selects
  <2>3. CASE \/ q.field = "etag" /\ doc.etag = q.value
             \/ q.field = "size" /\ Compare(doc.size, q.op, AmountOf[q.value[1]])
    BY <1>3, <2>3 DEF Selects
  <2>4. CASE q.field = "lastmodified" /\ IsOne(Lengths, q.value)
             /\ Compare(Now - doc.mtime, q.op, AmountOf[q.value[1]])
    <3>1. PICK n \in Nat, t \in Nat, now \in Nat :
             n = AmountOf[q.value[1]] /\ t = doc.mtime /\ now = Now /\ t < now
      BY <1>5, <2>4, WordsAssumption DEF IsOne
    <3>2. Compare(now - t, q.op, n)
      BY <2>4, <3>1
    <3>3. TimeQuery(q.op, t, n)
      BY <3>1, <3>2 DEF TimeQuery, Compare
    <3>4. IsDuration(q.value)
      BY <1>1, <1>7, <2>4, NotPadded
    <3> QED BY <1>3, <2>4, <3>1, <3>3, <3>4 DEF Selects
  <2>5. CASE q.field = "lastmodified" /\ ~IsOne(Lengths, q.value)
             /\ Compare(doc.mtime, q.op, AmountOf[q.value[1]])
    <3>1. ~IsDuration(q.value)
      BY <2>5 DEF IsDuration, IsOne, Lengths
    <3> QED BY <1>3, <2>5, <3>1 DEF Selects
  <2> QED BY <1>4, <1>5, <2>1, <2>2, <2>3, <2>4, <2>5 DEF Means
<1> QED BY <1>2, <1>4, <1>5, <1>8 DEF Selected

-----------------------------------------------------------------------------
(* The hits. *)

\* Among keeps what is of the documents, and each as often as it was there when it was
\* there once: the places of these in the ranking are numbered without gaps.
LEMMA AmongIs ==
  ASSUME NEW T, NEW r \in Seq(T), NEW D
  PROVE  LET s == Among(D, r)
         IN  /\ s \in Seq(T)
             /\ Range(s) = Range(r) \intersect D
             /\ IsInjective(r) => IsInjective(s)
<1> DEFINE places == {i \in DOMAIN r : r[i] \in D}
           UpTo(i) == {j \in places : j <= i}
           Nth(n) == CHOOSE i \in places : Cardinality(UpTo(i)) = n
           s == Among(D, r)
<1>1. PICK l \in Nat : DOMAIN r = 1 .. l /\ \A i \in 1 .. l : r[i] \in T
  BY LenProperties, ElementsAre
<1>2. IsFiniteSet(places) /\ places \subseteq 1 .. l
  BY <1>1, FS_Interval, FS_Subset
<1>3. PICK c \in Nat : c = Cardinality(places)
  BY <1>2, FS_CardinalityType
<1>4. s = [n \in 1 .. c |-> r[Nth(n)]]
  BY <1>3 DEF Among
<1> DEFINE rank == [i \in places |-> Cardinality(UpTo(i))]
<1>5. ASSUME NEW i \in places
      PROVE  IsFiniteSet(UpTo(i)) /\ i \in UpTo(i) /\ rank[i] \in 1 .. c
  <2>1. IsFiniteSet(UpTo(i)) /\ Cardinality(UpTo(i)) <= c
    BY <1>2, <1>3, FS_Subset
  <2>2. i \in UpTo(i)
    BY <1>1, <1>2
  <2>3. Cardinality(UpTo(i)) \in Nat /\ Cardinality(UpTo(i)) # 0
    BY <2>1, <2>2, FS_CardinalityType, FS_EmptySet
  <2> QED BY <2>1, <2>2, <2>3
<1>6. ASSUME NEW i \in places, NEW j \in places, i < j PROVE rank[i] # rank[j]
  <2>1. UpTo(i) \subseteq UpTo(j) /\ j \notin UpTo(i)
    BY <1>1, <1>2, <1>6
  <2>2. IsFiniteSet(UpTo(j)) /\ j \in UpTo(j)
    BY <1>5
  <2> QED BY <2>1, <2>2, FS_Subset
<1>7. \A i, j \in places : rank[i] = rank[j] => i = j
  <2>1. \A i \in places : i \in Nat
    BY <1>2
  <2> HIDE DEF rank, places
  <2> QED BY <1>6, <2>1
<1>8. rank \in Injection(places, 1 .. c)
  <2>1. rank \in [places -> 1 .. c] /\ DOMAIN rank = places
    BY <1>5
  <2> HIDE DEF rank
  <2> QED BY <1>7, <2>1 DEF Injection, IsInjective
<1>9. rank \in Surjection(places, 1 .. c)
  <2>1. IsFiniteSet(1 .. c) /\ Cardinality(1 .. c) = c
    BY FS_Interval
  <2> HIDE DEF rank, places
  <2> QED BY <1>3, <1>8, <2>1, FS_Injection
<1>10. \A n \in 1 .. c : \E i \in places : rank[i] = n
  BY <1>9 DEF Surjection
<1>11. \A n \in 1 .. c : Nth(n) \in places /\ rank[Nth(n)] = n
  <2> SUFFICES ASSUME NEW n \in 1 .. c PROVE Nth(n) \in places /\ rank[Nth(n)] = n
    OBVIOUS
  <2>1. \E i \in places : Cardinality(UpTo(i)) = n
    BY <1>10
  <2>2. Nth(n) \in places /\ Cardinality(UpTo(Nth(n))) = n
    BY <2>1
  <2> QED BY <2>2
<1>12. \A i \in places : i \in 1 .. l /\ r[i] \in T /\ r[i] \in D
  BY <1>1, <1>2
<1>13. \A i \in 1 .. l : r[i] \in D => i \in places
  BY <1>1
<1>14. \A i \in places : rank[i] \in 1 .. c
  BY <1>5
<1> HIDE DEF places, Nth, rank, UpTo, s
<1>15. s \in Seq(T) /\ Len(s) = c /\ \A n \in 1 .. c : s[n] = r[Nth(n)]
  BY <1>4, <1>11, <1>12
<1>16. Range(s) = Range(r) \intersect D
  <2>1. ASSUME NEW x \in Range(s) PROVE x \in Range(r) /\ x \in D
    BY <1>1, <1>11, <1>12, <1>15, <2>1, ElementsAre DEF Range
  <2>2. ASSUME NEW x \in Range(r), x \in D PROVE x \in Range(s)
    <3>1. PICK i \in 1 .. l : r[i] = x
      BY <1>1, <2>2 DEF Range
    <3>2. i \in places
      BY <1>13, <2>2, <3>1
    <3>3. s[rank[i]] = x
      BY <1>7, <1>11, <1>14, <1>15, <3>1, <3>2
    <3> QED BY <1>14, <1>15, <3>2, <3>3, ElementsAre
  <2> QED BY <2>1, <2>2
<1>17. IsInjective(r) => IsInjective(s)
  <2> SUFFICES ASSUME IsInjective(r), NEW m \in 1 .. c, NEW n \in 1 .. c, s[m] = s[n]
               PROVE  m = n
    BY <1>15, LenProperties DEF IsInjective
  <2>1. r[Nth(m)] = r[Nth(n)]
    BY <1>15
  <2>2. Nth(m) = Nth(n)
    BY <1>1, <1>11, <1>12, <2>1 DEF IsInjective
  <2> QED BY <1>11, <2>2
<1> QED BY <1>15, <1>16, <1>17 DEF s

-----------------------------------------------------------------------------
(* A search. *)

\* What has been got is what comes first among the hits.
ComesFirst(got, hits) == Len(got) <= Len(hits) /\ got = SubSeq(hits, 1, Len(got))

Searches == [at : {"asking", "denied", "refused", "failed", "answered"}, user : Clients,
             query : Queries, got : Seq(Documents)]

SearchTypes ==
    /\ index \in Seq(Documents) /\ IsInjective(index)
    /\ search \in Searches \union {[at |-> "idle"], [at |-> "absent"]}
    /\ search.at = "refused" => search.query \notin Accepted
    /\ search.at = "answered" => search.query \in Accepted \ Unanswerable
    /\ search.at = "failed" => search.query \in Unanswerable

\* Only what the query selects is got, and only by a user of the bucket.
GotOK ==
    search.at \in {"asking", "answered"} /\ search.got # <<>> =>
        /\ search.query \in Accepted /\ search.user \in Granted
        /\ Range(search.got) \subseteq Selected[search.query]

\* What was meant and there all the time is still there, and unless a hit moved, nothing
\* has been passed over.
PlaceOK ==
    Asking =>
        /\ steady \subseteq Meant[search.query]
        /\ search.query \in Accepted =>
              /\ steady \subseteq Range(index)
              /\ shifted \/ ComesFirst(search.got, Hits(search.query, index))

SearchInv == SearchTypes /\ GotOK /\ PlaceOK

LEMMA HitsAre ==
  ASSUME NEW r \in Seq(Documents), NEW q
  PROVE  /\ Hits(q, r) \in Seq(Documents)
         /\ Range(Hits(q, r)) = Range(r) \intersect Selected[q]
         /\ IsInjective(r) => IsInjective(Hits(q, r))
BY AmongIs DEF Hits

LEMMA IndexStep ==
  ASSUME index \in Seq(Documents), IsInjective(index), NEW d \in Documents, Change(d)
  PROVE  index' \in Seq(Documents) /\ IsInjective(index')
<1> DEFINE w == Without(d)
<1>1. /\ w \in Seq(Documents) /\ IsInjective(w)
      /\ Range(w) = Range(index) \intersect (Documents \ {d})
  BY AmongIs DEF Without
<1>2. index' = w \/ index' = Append(w, d)
  BY DEF Change, Write, ChangeMetadata, RemoveObject, Changed
<1> HIDE DEF w
<1>3. CASE index' = w
  BY <1>1, <1>3
<1>4. CASE index' = Append(w, d)
  <2>1. PICK n \in Nat : n = Len(w)
    BY <1>1, LenProperties
  <2>2. /\ index' \in Seq(Documents) /\ Len(index') = n + 1 /\ index'[n + 1] = d
        /\ \A i \in 1 .. n : index'[i] = w[i]
    BY <1>1, <1>4, <2>1, AppendProperties
  <2>3. \A i \in 1 .. n : w[i] # d
    BY <1>1, <2>1, ElementsAre
  <2>4. \A i, j \in 1 .. n : w[i] = w[j] => i = j
    BY <1>1, <2>1, LenProperties DEF IsInjective
  <2>5. \A i, j \in 1 .. n + 1 : index'[i] = index'[j] => i = j
    BY <2>2, <2>3, <2>4
  <2>6. DOMAIN index' = 1 .. n + 1
    BY <2>2, LenProperties
  <2> QED BY <2>2, <2>5, <2>6 DEF IsInjective
<1> QED BY <1>2, <1>3, <1>4

LEMMA SmallerOf ==
  ASSUME NEW a \in Int, NEW b \in Int
  PROVE  Min({a, b}) = IF a <= b THEN a ELSE b
BY DEF Min

LEMMA FrontIs ==
  ASSUME NEW T, NEW s \in Seq(T), NEW n \in 0 .. Len(s)
  PROVE  LET t == SubSeq(s, 1, n)
         IN  /\ t \in Seq(T) /\ Len(t) = n
             /\ \A i \in 1 .. n : t[i] = s[i]
<1>1. PICK l \in Nat : l = Len(s)
  BY LenProperties
<1>2. \A i \in 1 .. n : s[i] \in T
  BY <1>1, ElementOfSeq
<1>3. /\ SubSeq(s, 1, n) \in Seq(T)
      /\ Len(SubSeq(s, 1, n)) = IF 1 <= n THEN n - 1 + 1 ELSE 0
      /\ \A i \in 1 .. n - 1 + 1 : SubSeq(s, 1, n)[i] = s[1 + i - 1]
  BY <1>1, <1>2, SubSeqProperties
<1> QED BY <1>1, <1>3

\* A page is the next of the hits: what has been got with it comes first again, and with a
\* page that is not full it is all hits.
LEMMA PageIs ==
  ASSUME NEW T, NEW got \in Seq(T), NEW hits \in Seq(T)
  PROVE  LET page == Page(hits, Len(got))
         IN  /\ page \in Seq(T) /\ got \o page \in Seq(T)
             /\ Range(got \o page) \subseteq Range(got) \union Range(hits)
             /\ ComesFirst(got, hits) => ComesFirst(got \o page, hits)
             /\ ComesFirst(got, hits) /\ Len(page) < PageSize => got \o page = hits
<1> DEFINE page == Page(hits, Len(got))
           all == got \o page
<1>1. PICK n \in Nat, l \in Nat, size \in Nat \ {0} :
         n = Len(got) /\ l = Len(hits) /\ size = PageSize
  BY LenProperties, SearchAssumption
<1>2. PICK e \in Int : e = (IF n + size <= l THEN n + size ELSE l) /\ e <= l
  BY <1>1
<1>3. page = SubSeq(hits, n + 1, e)
  <2>1. n + size \in Int /\ l \in Int
    BY <1>1
  <2>2. Min({n + size, l}) = e
    BY <1>2, <2>1, SmallerOf
  <2> QED BY <1>1, <2>2 DEF Page
<1> HIDE DEF page
<1>4. \A i \in n + 1 .. e : hits[i] \in T /\ hits[i] \in Range(hits)
  BY <1>1, <1>2, ElementsAre
<1>5. PICK p \in Nat : p = (IF n <= e THEN e - n ELSE 0)
  <2>1. n \in Nat /\ e \in Int
    BY <1>1, <1>2
  <2>2. (IF n <= e THEN e - n ELSE 0) \in Nat
    BY ONLY <2>1
  <2> QED BY <2>2
<1>6. /\ page \in Seq(T) /\ Len(page) = p
      /\ \A i \in 1 .. p : page[i] = hits[n + i] /\ page[i] \in Range(hits)
  <2>1. n + 1 \in Int /\ e \in Int
    BY <1>1, <1>2
  <2>2. /\ page \in Seq(T)
        /\ Len(page) = IF n + 1 <= e THEN e - (n + 1) + 1 ELSE 0
        /\ \A i \in 1 .. e - (n + 1) + 1 : page[i] = hits[n + 1 + i - 1]
    BY ONLY <1>3, <1>4, <2>1, SubSeqProperties
  <2>3. Len(page) = p
    BY ONLY <1>1, <1>2, <1>5, <2>2
  <2>4. ASSUME NEW i \in 1 .. p PROVE page[i] = hits[n + i] /\ page[i] \in Range(hits)
    <3>1. i \in 1 .. e - (n + 1) + 1 /\ n + 1 + i - 1 = n + i /\ n + i \in n + 1 .. e
      BY ONLY <1>1, <1>2, <1>5, <2>4
    <3> QED BY <1>4, <2>2, <3>1
  <2> QED BY <2>2, <2>3, <2>4
<1>7. /\ all \in Seq(T) /\ Len(all) = n + p
      /\ \A i \in 1 .. n : all[i] = got[i]
      /\ \A i \in 1 .. p : all[n + i] = page[i]
  <2>1. got \in Seq(T) /\ page \in Seq(T) /\ n = Len(got) /\ p = Len(page)
    BY <1>1, <1>6
  <2> QED BY ONLY <2>1, Joined DEF all
<1> HIDE DEF all
<1>8. Range(all) \subseteq Range(got) \union Range(hits)
  <2> SUFFICES ASSUME NEW i \in 1 .. n + p PROVE all[i] \in Range(got) \union Range(hits)
    BY <1>7, ElementsAre
  <2>1. CASE i <= n
    BY <1>1, <1>7, <2>1, ElementsAre
  <2>2. CASE ~(i <= n)
    <3>1. PICK j \in 1 .. p : n + j = i
      BY <1>1, <1>5, <2>2
    <3> QED BY <1>6, <1>7, <3>1
  <2> QED BY <2>1, <2>2
<1>9. ASSUME ComesFirst(got, hits)
      PROVE  ComesFirst(all, hits) /\ (Len(page) < PageSize => all = hits)
  <2>1. n <= l /\ \A i \in 1 .. n : got[i] = hits[i]
    <3>1. n <= l /\ got = SubSeq(hits, 1, n) /\ n \in 0 .. Len(hits)
      BY <1>1, <1>9 DEF ComesFirst
    <3> QED BY <1>1, <3>1, FrontIs
  <2>2. /\ n + p \in 0 .. l
        /\ p < size => n + p = l
    BY <1>1, <1>2, <1>5, <2>1
  <2>3. ASSUME NEW i \in 1 .. n + p PROVE all[i] = hits[i]
    <3>1. CASE i <= n
      BY <1>1, <1>7, <2>1, <3>1
    <3>2. CASE ~(i <= n)
      <4>1. PICK j \in 1 .. p : n + j = i
        BY <1>1, <1>5, <3>2
      <4> QED BY <1>6, <1>7, <4>1
    <3> QED BY <3>1, <3>2
  <2>4. all = SubSeq(hits, 1, n + p)
    <3> DEFINE front == SubSeq(hits, 1, n + p)
    <3>1. /\ front \in Seq(T) /\ Len(front) = n + p
          /\ \A i \in 1 .. n + p : front[i] = hits[i]
      BY <1>1, <2>2, FrontIs
    <3> HIDE DEF front
    <3>2. front = all
      BY <1>7, <2>3, <3>1, SeqEqual
    <3> QED BY <3>2 DEF front
  <2>5. n + p = l => all = hits
    BY <1>1, <1>7, <2>3, SeqEqual
  <2> QED BY <1>1, <1>6, <1>7, <2>2, <2>4, <2>5 DEF ComesFirst
<1> QED BY <1>6, <1>7, <1>8, <1>9 DEF all, page

\* What the client asks for and what is selected for it do not change.
LEMMA QueriesStay ==
  /\ Accepted' = Accepted /\ Selected' = Selected /\ Meant' = Meant
  /\ Unanswerable' = Unanswerable
BY DEF Accepted, Selected, Meant, InBucket, Unanswerable

LEMMA SearchInitOK == ServicesInit => SearchInv
<1> SUFFICES ASSUME ServicesInit PROVE SearchInv
  OBVIOUS
<1>1. index = Initially /\ search \in {[at |-> "idle"], [at |-> "absent"]}
  BY DEF ServicesInit, SearchInit, Init, IndexInit
<1>2. search.at \in {"idle", "absent"}
  BY <1>1
<1> QED BY <1>1, <1>2, ChangesAssumption DEF SearchInv, SearchTypes, GotOK, PlaceOK, Asking

LEMMA AskingIs ==
  ASSUME SearchInv, Asking
  PROVE  /\ search \in Searches /\ search.query \in Queries /\ search.got \in Seq(Documents)
         /\ search.user \in Clients
BY DEF SearchInv, SearchTypes, Searches, Asking

\* The search ends without another page.
LEMMA EndsKeeps ==
  ASSUME SearchInv, Asking, NEW p \in {"denied", "refused", "failed"}, Ends(p), UNCHANGED indexVars,
         p = "refused" => search.query \notin Accepted,
         p = "failed" => search.query \in Unanswerable
  PROVE  SearchInv'
<1>1. search' = [search EXCEPT !.at = p] /\ index' = index
  BY DEF Ends, indexVars
<1>2. search' \in Searches /\ search'.at = p /\ search'.query = search.query
  BY <1>1, AskingIs DEF Searches
<1>3. SearchTypes'
  BY <1>1, <1>2, QueriesStay DEF SearchInv, SearchTypes
<1>4. GotOK' /\ PlaceOK'
  BY <1>2 DEF GotOK, PlaceOK, Asking
<1> QED BY <1>3, <1>4 DEF SearchInv

LEMMA AskKeeps ==
  ASSUME SearchInv, NEW user \in Clients, NEW q \in Queries, Ask(user, q)
  PROVE  SearchInv'
<1>1. /\ search' = [at |-> "asking", user |-> user, query |-> q, got |-> <<>>]
      /\ steady' = Meant[q] \intersect Range(index) /\ index' = index
  BY DEF Ask, indexVars, Indexed
<1>2. /\ search' \in Searches /\ search'.at = "asking" /\ search'.query = q
      /\ search'.got = <<>>
  BY <1>1 DEF Searches
<1>3. SearchTypes'
  BY <1>1, <1>2 DEF SearchInv, SearchTypes
<1>4. GotOK'
  BY <1>2 DEF GotOK
<1>5. ComesFirst(<<>>, Hits(q, index))
  <2>1. Hits(q, index) \in Seq(Documents)
    BY HitsAre DEF SearchInv, SearchTypes
  <2>2. Len(Hits(q, index)) \in Nat /\ SubSeq(Hits(q, index), 1, 0) = <<>>
    BY <2>1, LenProperties, SubSeqEmpty
  <2> QED BY <2>2 DEF ComesFirst
<1>6. PlaceOK'
  <2>1. steady' \subseteq Meant[q] /\ steady' \subseteq Range(index)
    BY <1>1
  <2>2. Hits(search.query, index)' = Hits(q, index)
    BY <1>1, <1>2, QueriesStay DEF Hits
  <2>3. ComesFirst(search.got, Hits(search.query, index))'
    BY <1>2, <1>5, <2>2 DEF ComesFirst
  <2> QED BY <1>1, <1>2, <2>1, <2>3, QueriesStay DEF PlaceOK
<1> QED BY <1>3, <1>4, <1>6 DEF SearchInv

\* The next page is the next of the hits.
LEMMA AnswerDoes ==
  ASSUME SearchInv, Answer
  PROVE  LET hits == Hits(search.query, index)
         IN  /\ Asking /\ search.user \in Granted /\ search.query \in Accepted \ Unanswerable
             /\ search' \in Searches /\ search'.user = search.user
             /\ search'.query = search.query /\ search'.at \in {"asking", "answered"}
             /\ Range(search'.got) \subseteq Selected[search.query]
             /\ search'.at = "asking" => UNCHANGED <<steady, shifted>>
             /\ ~shifted => ComesFirst(search'.got, hits)
             /\ ~shifted /\ search'.at = "answered" => search'.got = hits
<1> DEFINE hits == Hits(search.query, index)
           page == Page(hits, Len(search.got))
           new == search.got \o page
           next == IF Len(page) < PageSize THEN "answered" ELSE "asking"
<1>1. /\ Asking /\ search.user \in Granted /\ search.query \in Accepted \ Unanswerable
      /\ search' = [search EXCEPT !.got = @ \o page, !.at = next]
      /\ ~(Len(page) < PageSize) => UNCHANGED <<steady, shifted>>
  BY DEF Answer
<1>2. /\ search \in Searches /\ search.query \in Queries /\ search.got \in Seq(Documents)
      /\ index \in Seq(Documents) /\ GotOK /\ PlaceOK
  BY <1>1, AskingIs DEF SearchInv, SearchTypes
<1>3. /\ hits \in Seq(Documents)
      /\ Range(hits) \subseteq Selected[search.query]
  BY <1>2, HitsAre
<1> HIDE DEF hits
<1>4. /\ new \in Seq(Documents) /\ Range(new) \subseteq Range(search.got) \union Range(hits)
      /\ ComesFirst(search.got, hits) => ComesFirst(new, hits)
      /\ ComesFirst(search.got, hits) /\ Len(page) < PageSize => new = hits
  BY <1>2, <1>3, PageIs
<1>5. next \in {"answered", "asking"} /\ (next = "answered" <=> Len(page) < PageSize)
  OBVIOUS
<1> HIDE DEF page, next
<1>6. /\ search' \in Searches /\ search'.user = search.user /\ search'.query = search.query
      /\ search'.at = next /\ search'.got = new
  BY <1>1, <1>2, <1>4, <1>5 DEF Searches
<1> HIDE DEF new
<1>7. search.got # <<>> => Range(search.got) \subseteq Selected[search.query]
  BY <1>1, <1>2 DEF GotOK, Asking
<1>8. search.got = <<>> => Range(search.got) = {}
  BY DEF Range
<1>9. ~shifted => ComesFirst(search.got, hits)
  BY <1>1, <1>2 DEF PlaceOK, hits
<1> QED BY <1>1, <1>3, <1>4, <1>5, <1>6, <1>7, <1>8, <1>9 DEF hits

LEMMA AnswerKeeps == SearchInv /\ Answer => SearchInv'
<1> SUFFICES ASSUME SearchInv, Answer PROVE SearchInv'
  OBVIOUS
<1> DEFINE hits == Hits(search.query, index)
<1>1. /\ Asking /\ search.user \in Granted /\ search.query \in Accepted \ Unanswerable
      /\ search' \in Searches /\ search'.user = search.user
      /\ search'.query = search.query /\ search'.at \in {"asking", "answered"}
      /\ Range(search'.got) \subseteq Selected[search.query]
      /\ search'.at = "asking" => UNCHANGED <<steady, shifted>>
      /\ ~shifted => ComesFirst(search'.got, hits)
  BY AnswerDoes
<1>2. index' = index
  BY DEF Answer, indexVars
<1>3. SearchTypes'
  BY <1>1, <1>2, QueriesStay DEF SearchInv, SearchTypes
<1>4. GotOK'
  BY <1>1, QueriesStay DEF GotOK
<1>5. PlaceOK'
  <2>1. Hits(search.query, index)' = hits
    BY <1>1, <1>2, QueriesStay DEF Hits
  <2>2. ~shifted => ComesFirst(search.got, Hits(search.query, index))'
    BY <1>1, <2>1 DEF ComesFirst
  <2> QED BY <1>1, <1>2, <2>2, QueriesStay DEF SearchInv, PlaceOK, Asking
<1> QED BY <1>3, <1>4, <1>5 DEF SearchInv

\* The index changes; unless what has been got moves, it still comes first.
LEMMA WatchKeeps ==
  ASSUME SearchInv, NEW d \in Documents, Change(d), Watch
  PROVE  SearchInv'
<1>1. /\ index \in Seq(Documents) /\ IsInjective(index)
      /\ index' \in Seq(Documents) /\ IsInjective(index')
  BY IndexStep DEF SearchInv, SearchTypes
<1>2. UNCHANGED search
  BY DEF Watch, searchVars
<1>3. SearchTypes' /\ GotOK'
  BY <1>1, <1>2, QueriesStay DEF SearchInv, SearchTypes, GotOK
<1>4. CASE Asking /\ search.query \in Accepted
  <2> DEFINE q == search.query
             before == Hits(q, index)
             after == Hits(q, index')
             n == Len(search.got)
             had(hits) == SubSeq(hits, 1, Min({n, Len(hits)}))
  <2>1. /\ steady' = steady \intersect Range(index')
        /\ shifted' = (shifted \/ had(before) # had(after))
    BY <1>4 DEF Watch
  <2>2. /\ before \in Seq(Documents) /\ after \in Seq(Documents)
        /\ search.got \in Seq(Documents)
    BY <1>1, <1>4, HitsAre, AskingIs
  <2>3. /\ steady \subseteq Meant[q] /\ (shifted \/ ComesFirst(search.got, before))
    BY <1>4 DEF SearchInv, PlaceOK
  <2>4. Hits(search.query, index)' = after
    BY <1>2, QueriesStay DEF Hits
  <2> HIDE DEF q, before, after
  <2>5. PICK k \in Nat, b \in Nat, a \in Nat : k = n /\ b = Len(before) /\ a = Len(after)
    BY <2>2, LenProperties
  <2>6. ASSUME ~shifted' PROVE ComesFirst(search.got, after)
    <3>1. ~shifted /\ had(before) = had(after)
      BY <2>1, <2>6
    <3>2. k <= b /\ search.got = SubSeq(before, 1, k)
      BY <2>3, <2>5, <3>1 DEF ComesFirst
    <3>3. Min({k, b}) = k
      BY <2>5, <3>2, SmallerOf
    <3>4. search.got = had(before)
      BY <2>5, <3>2, <3>3
    <3>5. PICK m \in Nat : m = Min({k, a}) /\ m <= a
      BY <2>5, SmallerOf
    <3>6. search.got = SubSeq(after, 1, m)
      BY <2>5, <3>1, <3>4, <3>5
    <3>7. Len(SubSeq(after, 1, m)) = m
      <4>1. m \in 0 .. Len(after)
        BY <2>5, <3>5
      <4> QED BY <2>2, <4>1, FrontIs
    <3> QED BY <2>5, <3>5, <3>6, <3>7 DEF ComesFirst
  <2>7. ComesFirst(search.got, Hits(search.query, index))' <=> ComesFirst(search.got, after)
    BY <1>2, <2>4 DEF ComesFirst
  <2>8. steady' \subseteq Meant[search.query] /\ steady' \subseteq Range(index')
    BY <2>1, <2>3 DEF q
  <2>9. PlaceOK'
    BY <1>2, <2>6, <2>7, <2>8, QueriesStay DEF PlaceOK
  <2> QED BY <1>3, <2>9 DEF SearchInv
<1>5. CASE ~(Asking /\ search.query \in Accepted)
  <2>1. UNCHANGED <<search, steady, shifted>>
    BY <1>5 DEF Watch, searchVars
  <2>2. PlaceOK'
    BY <1>5, <2>1, QueriesStay DEF SearchInv, PlaceOK, Asking
  <2> QED BY <1>3, <2>2 DEF SearchInv
<1> QED BY <1>4, <1>5

LEMMA SearchStays == SearchInv /\ UNCHANGED <<index, search, steady, shifted>> => SearchInv'
<1> SUFFICES ASSUME SearchInv, UNCHANGED <<index, search, steady, shifted>> PROVE SearchInv'
  OBVIOUS
<1>1. Hits(search.query, index)' = Hits(search.query, index)
  BY QueriesStay DEF Hits
<1>2. SearchTypes' /\ GotOK' /\ PlaceOK'
  BY <1>1, QueriesStay DEF SearchInv, SearchTypes, GotOK, PlaceOK, Asking
<1> QED BY <1>2 DEF SearchInv

LEMMA SearchInvStep == SearchInv /\ [ServicesNext]_allVars => SearchInv'
<1> SUFFICES ASSUME SearchInv, [ServicesNext]_allVars PROVE SearchInv'
  OBVIOUS
<1>1. CASE UNCHANGED allVars
  BY <1>1, SearchStays DEF allVars, notifyVars, searchVars, indexVars
<1>2. ASSUME NEW d \in Documents, ObjectChanges(d), Watch PROVE SearchInv'
  BY <1>2, WatchKeeps DEF ObjectChanges
<1>3. CASE (ProcessStep \/ FaultStep) /\ UNCHANGED searchVars
  <2>1. UNCHANGED index
    BY <1>3 DEF ProcessStep, FaultStep, Start, RegisterFlag, Dial, ReadChange, ReadFails,
       TakeChange, SendFails, Crash, Outage, Returns, indexVars
  <2> QED BY <1>3, <2>1, SearchStays DEF searchVars
<1>4. CASE SearchStep
  <2>1. CASE Deny
    BY <2>1, EndsKeeps DEF Deny
  <2>2. CASE Refuse
    BY <2>2, EndsKeeps DEF Refuse
  <2>3. CASE Panic
    BY <2>3, EndsKeeps DEF Panic
  <2> QED BY <1>4, <2>1, <2>2, <2>3, AskKeeps, AnswerKeeps DEF SearchStep
<1> QED BY <1>1, <1>2, <1>3, <1>4 DEF ServicesNext

LEMMA SearchInvHolds == ServicesSpec => []SearchInv
BY SearchInitOK, SearchInvStep, PTL DEF ServicesSpec

\* Whatever the words and the queries: of the queries that are not ambiguous, those in the
\* documented syntax are answered and the others refused, but for the values that are named
\* in Overlooked and Beyond; and only one beyond the syntax ends in a panic.
THEOREM DocumentedIsAccepted == ServicesSpec => []AcceptsTheDocumented
<1>1. SearchInv => AcceptsTheDocumented
  <2> SUFFICES ASSUME SearchInv, search.at \in {"refused", "answered", "failed"},
                      search.query \in Clear, NEW q, q = search.query
               PROVE  /\ search.at = "answered" => (Documented(q) /\ ~Overlooked(q)) \/ Beyond(q)
                      /\ search.at = "refused" => (Documented(q) => Overlooked(q)) /\ ~Beyond(q)
                      /\ search.at = "failed" => Beyond(q) /\ ~Documented(q)
      BY DEF AcceptsTheDocumented
  <2>1. /\ q \in Queries /\ (search.at = "refused" => q \notin Accepted)
        /\ search.at = "answered" => q \in Accepted
        /\ search.at = "failed" => q \in Unanswerable
    BY DEF SearchInv, SearchTypes, Searches
  <2>2. IsQuery(q) /\ ~Ambiguous(q)
    BY <2>1, QueriesAssumption DEF Clear
  <2>3. q \in Accepted <=> (Documented(q) /\ ~Overlooked(q)) \/ Beyond(q)
    BY <2>1, <2>2, AcceptedIs DEF Accepted
  <2>4. q \in Unanswerable => Beyond(q) /\ ~Documented(q)
    <3>1. SUFFICES ASSUME q \in Unanswerable PROVE Beyond(q) /\ ~Documented(q)
      OBVIOUS
    <3>2. /\ q \in Accepted /\ q.field = "lastmodified"
          /\ IsOne({"barred length"}, Groups(Written(q)).value)
      BY <3>1 DEF Unanswerable
    <3>4. Groups(Written(q)).value = q.value
      BY <2>2, GroupsAreWritten
    <3>5. IsOne({"barred length"}, q.value)
      BY <3>2, <3>4
    <3>3. ~Documented(q)
      BY <3>2, <3>5 DEF Documented, IsOne, TextFields, Custom
    <3> QED BY <2>3, <3>2, <3>3
  <2> QED BY <2>1, <2>3, <2>4
<1> QED BY <1>1, SearchInvHolds, PTL

\* Every document in an answer is in the bucket and is what the client means, whatever
\* becomes of the index, for every query that is not ambiguous.
THEOREM AnswersHold == ServicesSpec => []AnswersAreMeant
<1>1. SearchInv => AnswersAreMeant
  <2> SUFFICES ASSUME SearchInv, search.at \in {"asking", "answered"}, search.query \in Clear,
                      NEW d \in Range(search.got)
               PROVE  d \in Meant[search.query] /\ search.user \in Granted
    BY DEF AnswersAreMeant
  <2>1. search.got # <<>>
    BY DEF Range
  <2>2. /\ search.query \in Accepted /\ search.user \in Granted
        /\ d \in Selected[search.query]
    BY <2>1 DEF SearchInv, GotOK
  <2>3. ~Ambiguous(search.query)
    BY DEF Clear
  <2> QED BY <2>2, <2>3, SelectedIsMeant
<1> QED BY <1>1, SearchInvHolds, PTL

\* A client that has turned all pages has each document it means, once, for pages of any
\* size and any number of changes in between, unless what he had got has moved.
THEOREM PagesHold == ServicesSpec => PagesAreWhole
<1> DEFINE Whole ==
      (Asking /\ search'.at = "answered" /\ search.query \in Clear /\ ~shifted) =>
          /\ {d \in steady : Attributes[d].mtime < Now} \subseteq Range(search'.got)
          /\ IsInjective(search'.got)
<1>1. SearchInv /\ [ServicesNext]_allVars => [Whole]_<<index, search>>
  <2> SUFFICES ASSUME SearchInv, [ServicesNext]_allVars,
                      Asking, search'.at = "answered", search.query \in Clear, ~shifted
               PROVE  /\ {d \in steady : Attributes[d].mtime < Now} \subseteq Range(search'.got)
                      /\ IsInjective(search'.got)
    OBVIOUS
  <2>1. search' # search
    BY DEF Asking
  <2>2. Answer
    <3>1. SearchStep
      BY <2>1 DEF ServicesNext, allVars, searchVars, Watch
    <3>2. ~Deny /\ ~Refuse /\ ~Panic
      <4>1. ASSUME NEW p \in {"denied", "refused", "failed"}, Ends(p) PROVE FALSE
        <5>1. search' = [search EXCEPT !.at = p] /\ search \in Searches
          BY <4>1, AskingIs DEF Ends
        <5>2. search'.at = p
          BY <5>1 DEF Searches
        <5> QED BY <5>2
      <4> QED BY <4>1 DEF Deny, Refuse, Panic
    <3>3. \A user \in Clients, q \in Queries : ~Ask(user, q)
      BY DEF Ask, Asking
    <3> QED BY <3>1, <3>2, <3>3 DEF SearchStep
  <2>3. search.query \in Accepted /\ search'.got = Hits(search.query, index)
    BY <2>2, AnswerDoes
  <2>4. /\ Range(search'.got) = Range(index) \intersect Selected[search.query]
        /\ IsInjective(search'.got)
    BY <2>3, HitsAre DEF SearchInv, SearchTypes
  <2>5. steady \subseteq Meant[search.query] /\ steady \subseteq Range(index)
    BY <2>3 DEF SearchInv, PlaceOK
  <2>6. ASSUME NEW d \in steady, Attributes[d].mtime < Now PROVE d \in Range(search'.got)
    <3>1. ~Ambiguous(search.query)
      BY DEF Clear
    <3>2. d \in Selected[search.query]
      BY <2>3, <2>5, <2>6, <3>1, MeantIsSelected
    <3> QED BY <2>4, <2>5, <3>2
  <2> QED BY <2>4, <2>6
<1> QED BY <1>1, SearchInvHolds, PTL DEF ServicesSpec, PagesAreWhole
=============================================================================
