----------------------------- MODULE OpsLogProofs -----------------------------
(***************************************************************************)
(* The operation log for every set of requests, buckets and runs of the    *)
(* dumper, for any number of hours and faults.                             *)
(***************************************************************************)
EXTENDS OpsLog, SequenceTheorems, WellFoundedInduction, TLAPS

\* A run of the dumper that is on its way, and what it works on.
Steps == {"list", "read", "send", "delete"}
Runs == [at : Steps, now : Int, left : SUBSET Names, seen : SUBSET Names,
         name : Names \union {NoName}, size : Nat, data : Seq(Requests)]
Appending == [at : {"answered"}, name : Names]

TypeOK ==
    /\ hour \in 0 .. MaxHour
    /\ offset \in Offsets
    /\ long \in SUBSET Requests
    /\ log \in [Names -> Seq(Requests)]
    /\ request \in [Requests -> Appending \union {NotYet, Done}]
    /\ dumper \in [Dumpers -> Runs \union {Off}]
    /\ indexed \in [Requests -> Nat]
    /\ appended \in SUBSET Requests /\ atRisk \in SUBSET Requests
    /\ refused \in SUBSET Requests /\ again \in SUBSET Requests
    /\ faults \in 0 .. MaxFaults

-----------------------------------------------------------------------------
(* What the operators of the model return. *)

LEMMA LinesOf ==
  ASSUME NEW S, NEW s \in Seq(S)
  PROVE  /\ \A x : x \in ToSet(s) <=> \E i \in 1 .. Len(s) : s[i] = x
         /\ ToSet(s) \subseteq S
         /\ Len(s) \in Nat
         /\ \A i \in 1 .. Len(s) : s[i] \in S
<1>1. DOMAIN s = 1 .. Len(s) /\ Len(s) \in Nat
  BY LenProperties
<1>2. \A i \in 1 .. Len(s) : s[i] \in S
  BY ElementOfSeq
<1> QED BY <1>1, <1>2 DEF ToSet

LEMMA MinIn ==
  ASSUME NEW ids \in SUBSET Nat, ids # {}
  PROVE  Min(ids) \in ids
<1> DEFINE R == OpToRel(<, Nat)
<1>1. IsWellFoundedOn(R, Nat)
  BY NatLessThanWellFounded
<1>2. \A i, j \in Nat : <<i, j>> \in R <=> i < j
  BY DEF OpToRel
<1> HIDE DEF R
<1>3. PICK i \in ids : \A j \in ids : ~ (<<j, i>> \in R)
  BY <1>1, WFMin
<1>4. i \in Nat /\ \A j \in ids : j \in Nat
  OBVIOUS
<1>5. \A j \in ids : ~ (j < i)
  BY <1>2, <1>3, <1>4, Zenon
<1>6. \A j \in ids : i <= j
  BY <1>4, <1>5
<1> QED BY <1>6 DEF Min

\* The Scanner gives lines of the object, and misses only those that are at or behind a
\* line that is too long.
LEMMA ScannedLines ==
  ASSUME NEW d \in Dumpers, dumper[d].data \in Seq(Requests)
  PROVE  /\ Scanned(d) \subseteq ToSet(dumper[d].data)
         /\ \A k \in 1 .. Len(dumper[d].data) :
               \/ dumper[d].data[k] \in Scanned(d)
               \/ \E i \in 1 .. Len(dumper[d].data) : i <= k /\ dumper[d].data[i] \in long
<1> DEFINE s == dumper[d].data
           I == {i \in 1 .. Len(s) : s[i] \in long}
           first == IF I # {} THEN Min(I) ELSE 0
           last == IF first = 0 THEN Len(s) ELSE first - 1
<1>1. Scanned(d) = {s[k] : k \in 1 .. last}
  BY DEF Scanned, SelectInSeq
<1>2. Len(s) \in Nat /\ \A x : x \in ToSet(s) <=> \E i \in 1 .. Len(s) : s[i] = x
  BY LinesOf
<1>3. I # {} => Min(I) \in I
  <2>1. SUFFICES ASSUME I # {} PROVE Min(I) \in I
    OBVIOUS
  <2>2. I \in SUBSET Nat
    BY <1>2
  <2> HIDE DEF I
  <2> QED BY <2>1, <2>2, MinIn
<1>4. first = 0 \/ first \in I
  BY <1>3
<1>5. first = 0 => I = {}
  BY <1>3
<1> HIDE DEF s, first
<1>6. last \in Nat /\ last <= Len(s)
  BY <1>2, <1>4
<1>7. ASSUME NEW k \in 1 .. Len(s), \A i \in 1 .. Len(s) : i <= k => s[i] \notin long
      PROVE  k <= last
  <2>1. CASE first = 0
    BY <2>1, <1>2
  <2>2. CASE first # 0
    <3>1. first \in 1 .. Len(s) /\ s[first] \in long
      BY <1>4, <2>2
    <3>2. ~(first <= k)
      BY <1>7, <3>1
    <3> QED BY <1>2, <2>2, <3>1, <3>2
  <2> QED BY <2>1, <2>2
<1> HIDE DEF last
<1>8. Scanned(d) \subseteq ToSet(s)
  BY <1>1, <1>2, <1>6
<1>9. ASSUME NEW k \in 1 .. Len(s), \A i \in 1 .. Len(s) : i <= k => s[i] \notin long
      PROVE  s[k] \in Scanned(d)
  BY <1>1, <1>2, <1>6, <1>7, <1>9
<1> QED BY <1>8, <1>9 DEF s

-----------------------------------------------------------------------------
(* Types. *)

LEMMA InitTypes == Init => TypeOK
  BY SubsetAssumption, BoundAssumption DEF Init, TypeOK

LEMMA RunIs ==
  ASSUME TypeOK, NEW d \in Dumpers, dumper[d].at # "off"
  PROVE  dumper[d] \in Runs
  BY DEF TypeOK, Off

LEMMA RunFields ==
  ASSUME NEW s \in Runs
  PROVE  /\ s.at \in Steps /\ s.now \in Int /\ s.left \in SUBSET Names
         /\ s.seen \in SUBSET Names /\ s.name \in Names \union {NoName}
         /\ s.size \in Nat /\ s.data \in Seq(Requests)
         /\ s # Off
  BY DEF Runs, Off, Steps

LEMMA PassedIs ==
  ASSUME TypeOK, NEW d \in Dumpers, dumper[d] \in Runs
  PROVE  /\ Passed(d) \in Runs
         /\ Passed(d).at = "list" /\ Passed(d).data = <<>>
<1>1. PICK s \in Runs : s = dumper[d]
  OBVIOUS
<1> DEFINE p == [s EXCEPT !.at = "list", !.name = NoName, !.size = 0, !.data = <<>>]
<1>2. <<>> \in Seq(Requests)
  OBVIOUS
<1>3. p \in Runs
  BY <1>2 DEF Runs, Steps
<1>4. p.at = "list"
  BY DEF Runs
<1>5. p.data = <<>>
  BY DEF Runs
<1> QED BY <1>1, <1>3, <1>4, <1>5 DEF Passed

LEMMA HourIs == TypeOK => hour \in Int /\ LocalHour \in Int
  BY OffsetAssumption, BoundAssumption DEF TypeOK, LocalHour

\* The calls of the dumper that change nothing of the store or the dumper, but for what
\* this run is doing and the counters.
LEMMA RunTypes ==
  ASSUME TypeOK, NEW d \in Dumpers, NEW s \in Runs \union {Off}, Becomes(d, s),
         UNCHANGED <<hour, setting, request, appended, atRisk>>,
         log' \in [Names -> Seq(Requests)],
         indexed' \in [Requests -> Nat],
         refused' \in SUBSET Requests, again' \in SUBSET Requests,
         Fault \/ NoFault
  PROVE  TypeOK'
<1>1. dumper' \in [Dumpers -> Runs \union {Off}]
  BY DEF TypeOK, Becomes
<1>2. faults' \in 0 .. MaxFaults
  BY BoundAssumption DEF TypeOK, Fault, NoFault
<1> QED BY <1>1, <1>2 DEF TypeOK, setting

LEMMA IndexTypes ==
  ASSUME TypeOK, NEW taken, Index(taken)
  PROVE  /\ indexed' \in [Requests -> Nat]
         /\ \A r \in Requests :
               indexed'[r] = IF r \in taken THEN indexed[r] + 1 ELSE indexed[r]
  BY DEF TypeOK, Index

\* What a run that sends has of its object.
LEMMA SentLines ==
  ASSUME TypeOK, NEW d \in Dumpers, dumper[d] \in Runs
  PROVE  /\ dumper[d].data \in Seq(Requests)
         /\ Scanned(d) \subseteq ToSet(dumper[d].data)
         /\ Scanned(d) \subseteq Requests
<1>1. dumper[d].data \in Seq(Requests)
  BY RunFields
<1> QED BY <1>1, ScannedLines, LinesOf

LEMMA StartTypes ==
  ASSUME TypeOK, NEW d \in Dumpers, Start(d)
  PROVE  TypeOK'
<1> DEFINE s == [at |-> "list", now |-> LocalHour, left |-> Existing, seen |-> {},
                 name |-> NoName, size |-> 0, data |-> <<>>]
<1>1. s \in Runs
  BY HourIs DEF Runs, Steps, Existing
<1>2. Becomes(d, s) /\ (Fault \/ NoFault)
  BY DEF Start
<1> HIDE DEF s
<1> QED BY <1>1, <1>2, RunTypes DEF Start, TypeOK, lines, results

LEMMA StatTypes ==
  ASSUME TypeOK, NEW d \in Dumpers, NEW n \in Names, Stat(d, n)
  PROVE  TypeOK'
<1> DEFINE listed == [dumper[d] EXCEPT !.left = @ \ {n}, !.seen = @ \union {n}]
           takes == log[n] # <<>> /\ ~Spares(n, dumper[d].now)
           s == IF takes
                THEN [listed EXCEPT !.at = "read", !.name = n, !.size = Len(log[n])]
                ELSE listed
<1>1. dumper[d] \in Runs
  BY RunIs DEF Stat, At
<1>2. Len(log[n]) \in Nat
  BY LenProperties DEF TypeOK
<1>3. listed \in Runs
  BY <1>1 DEF Runs
<1> HIDE DEF listed
<1>4. s \in Runs
  BY <1>2, <1>3 DEF Runs, Steps
<1>5. Becomes(d, s)
  BY DEF Stat, listed
<1> HIDE DEF s
<1> QED BY <1>4, <1>5, RunTypes DEF Stat, TypeOK, lines, results

\* As many lines as Stat has told, if they are still there.
LEMMA ReadLines ==
  ASSUME TypeOK, NEW d \in Dumpers, dumper[d] \in Runs, dumper[d].name \in Names
  PROVE  LET n == dumper[d].name
             m == Least(dumper[d].size, Len(log[n]))
             data == SubSeq(log[n], 1, m)
         IN  /\ data \in Seq(Requests) /\ Len(data) = m
             /\ m \in Nat /\ m <= Len(log[n]) /\ (m = dumper[d].size \/ m = Len(log[n]))
             /\ \A i \in 1 .. m : data[i] = log[n][i]
<1> DEFINE n == dumper[d].name
           m == Least(dumper[d].size, Len(log[n]))
<1>1. log[n] \in Seq(Requests) /\ Len(log[n]) \in Nat
  BY LenProperties DEF TypeOK
<1>2. dumper[d].size \in Nat
  BY RunFields
<1>3. m \in Nat /\ m <= Len(log[n]) /\ (m = dumper[d].size \/ m = Len(log[n]))
  BY <1>1, <1>2 DEF Least
<1> HIDE DEF m, n
<1>4. \A i \in 1 .. m : log[n][i] \in Requests
  BY <1>1, <1>3, ElementOfSeq
<1>5. /\ SubSeq(log[n], 1, m) \in Seq(Requests)
      /\ Len(SubSeq(log[n], 1, m)) = IF 1 <= m THEN m - 1 + 1 ELSE 0
      /\ \A i \in 1 .. m - 1 + 1 : SubSeq(log[n], 1, m)[i] = log[n][1 + i - 1]
  BY <1>1, <1>3, <1>4, SubSeqProperties
<1>6. /\ SubSeq(log[n], 1, m) \in Seq(Requests)
      /\ Len(SubSeq(log[n], 1, m)) = m
      /\ \A i \in 1 .. m : SubSeq(log[n], 1, m)[i] = log[n][i]
  BY <1>3, <1>5
<1> QED BY <1>3, <1>6 DEF m, n

LEMMA DumpTypes ==
  ASSUME TypeOK, NEW d \in Dumpers, Dump(d) \/ DumpFails(d),
         dumper[d].at \in {"read", "send", "delete"} => dumper[d].name \in Names
  PROVE  TypeOK'
<1>0. /\ log \in [Names -> Seq(Requests)] /\ indexed \in [Requests -> Nat]
      /\ refused \in SUBSET Requests /\ again \in SUBSET Requests
  BY DEF TypeOK
<1>1. CASE Start(d)
  BY <1>1, StartTypes
<1>2. CASE \E n \in Names : Stat(d, n)
  BY <1>2, StatTypes
<1>3. CASE Ends(d) \/ Crash(d)
  <2>1. again' \in SUBSET Requests
    BY <1>0, <1>3, RunIs, SentLines DEF Crash, Ends, At, results
  <2>2. Becomes(d, Off) /\ (Fault \/ NoFault)
    BY <1>3 DEF Crash, Ends
  <2> QED BY <1>0, <1>3, <2>1, <2>2, RunTypes DEF Crash, Ends, lines, results
<1>4. SUFFICES ASSUME Read(d) \/ ReadFails(d) \/ Send(d) \/ SendRefused(d)
                         \/ SendFails(d) \/ Delete(d) \/ DeleteFails(d)
               PROVE  TypeOK'
  BY <1>1, <1>2, <1>3, <1>4 DEF Dump, DumpFails
<1>5. dumper[d].at \in {"read", "send", "delete"}
  BY <1>4 DEF Read, ReadFails, Send, SendRefused, SendFails, Delete, DeleteFails, At
<1>6. dumper[d] \in Runs /\ Passed(d) \in Runs /\ dumper[d].name \in Names
  BY <1>5, RunIs, PassedIs
<1>7. Scanned(d) \subseteq Requests
  BY <1>6, SentLines
<1>8. \A at \in Steps : [dumper[d] EXCEPT !.at = at] \in Runs
  BY <1>6 DEF Runs, Steps
<1>9. CASE Read(d)
  <2> DEFINE data == SubSeq(log[dumper[d].name], 1,
                            Least(dumper[d].size, Len(log[dumper[d].name])))
             s == [dumper[d] EXCEPT !.at = "send", !.data = data]
  <2>1. data \in Seq(Requests)
    BY <1>6, ReadLines
  <2>2. Becomes(d, s) /\ again' \in {again, again \union ToSet(data)}
    BY <1>9 DEF Read
  <2> HIDE DEF data
  <2>3. s \in Runs
    BY <1>6, <2>1 DEF Runs, Steps
  <2>4. again' \in SUBSET Requests
    BY <1>0, <2>1, <2>2, LinesOf
  <2> HIDE DEF s
  <2> QED BY <1>0, <1>9, <2>2, <2>3, <2>4, RunTypes DEF Read, lines
<1>10. CASE ReadFails(d)
  BY <1>0, <1>8, <1>10, RunTypes DEF ReadFails, lines, results, Steps
<1>11. CASE Send(d)
  BY <1>0, <1>6, <1>8, <1>11, IndexTypes, RunTypes DEF Send, lines, results, Steps
<1>12. CASE SendRefused(d)
  <2>1. PICK some \in (SUBSET Scanned(d)) \ {{}} :
           Index(Scanned(d) \ some) /\ refused' = refused \union some
    BY <1>12 DEF SendRefused
  <2>2. refused' \in SUBSET Requests /\ indexed' \in [Requests -> Nat]
    BY <1>0, <1>7, <2>1, IndexTypes
  <2>3. PICK s \in Runs : s = [dumper[d] EXCEPT !.at = "delete"]
    BY <1>8 DEF Steps
  <2>4. /\ Becomes(d, s)
        /\ UNCHANGED <<hour, setting, request, appended, atRisk>>
        /\ log' \in [Names -> Seq(Requests)]
        /\ again' \in SUBSET Requests
        /\ Fault \/ NoFault
    BY <1>0, <1>12, <2>3 DEF SendRefused, lines
  <2> QED BY <2>2, <2>4, RunTypes
<1>13. CASE SendFails(d)
  BY <1>0, <1>6, <1>7, <1>13, IndexTypes, RunTypes DEF SendFails, lines
<1>14. CASE Delete(d)
  <2>1. log' \in [Names -> Seq(Requests)]
    <3>1. <<>> \in Seq(Requests)
      OBVIOUS
    <3> QED BY <1>0, <1>14, <3>1 DEF Delete
  <2> QED BY <1>0, <1>6, <1>14, <2>1, RunTypes DEF Delete, results
<1>15. CASE DeleteFails(d)
  BY <1>0, <1>6, <1>7, <1>15, RunTypes DEF DeleteFails, lines
<1> QED BY <1>4, <1>9, <1>10, <1>11, <1>12, <1>13, <1>14, <1>15

LEMMA LoggingTypes ==
  ASSUME TypeOK, Tick \/ LoggingOps
  PROVE  TypeOK'
<1>1. CASE Tick
  BY <1>1, BoundAssumption DEF TypeOK, Tick, setting, lines, results
<1>2. ASSUME NEW r \in Requests, NEW b \in Buckets, NEW h \in Hours, Answered(r, b, h)
      PROVE  TypeOK'
  <2>1. [at |-> "answered", name |-> [bucket |-> b, hour |-> h]] \in Appending
    BY DEF Appending, Names
  <2> QED BY <1>2, <2>1 DEF TypeOK, Answered, setting, results
<1>3. ASSUME NEW r \in Requests, AppendLine(r)
      PROVE  TypeOK'
  <2>1. request[r] \in Appending
    BY <1>3 DEF TypeOK, AppendLine, NotYet, Done
  <2>2. request[r].name \in Names
    BY <2>1 DEF Appending
  <2>3. Append(log[request[r].name], r) \in Seq(Requests)
    BY <2>2, AppendProperties DEF TypeOK
  <2>4. log' \in [Names -> Seq(Requests)]
    BY <1>3, <2>2, <2>3 DEF TypeOK, AppendLine
  <2>5. atRisk' \in SUBSET Requests
    BY <1>3 DEF TypeOK, AppendLine
  <2> QED BY <1>3, <2>4, <2>5 DEF TypeOK, AppendLine, setting, results
<1>4. ASSUME NEW r \in Requests, NoLine(r)
      PROVE  TypeOK'
  BY <1>4 DEF TypeOK, NoLine, setting, results
<1> QED BY <1>1, <1>2, <1>3, <1>4 DEF LoggingOps

-----------------------------------------------------------------------------
(* Nothing is lost.  Behind a line that is too long every line is at risk; *)
(* and what a run is going to delete is at risk, too, or was refused, or   *)
(* it is in Elasticsearch, or is among the lines about to be sent.         *)

Follows(s) == \A i, k \in 1 .. Len(s) : i <= k /\ s[i] \in long => s[k] \in atRisk

RunOK(s) ==
    /\ s.at # "list" => s.name \in Names /\ ~Spares(s.name, s.now)
    /\ s.at \in {"list", "read"} => s.data = <<>>
    /\ Follows(s.data)
    /\ s.at = "read" =>
          \A k \in 1 .. Len(log[s.name]) : k > s.size => log[s.name][k] \in atRisk
    /\ s.at = "send" /\ s.data # <<>> =>
          \A k \in 1 .. Len(log[s.name]) : log[s.name][k] \in atRisk \union ToSet(s.data)
    /\ s.at = "delete" =>
          \A k \in 1 .. Len(log[s.name]) :
              \/ log[s.name][k] \in atRisk \union refused
              \/ indexed[log[s.name][k]] > 0

Found(r) == indexed[r] > 0 \/ \E n \in Names : r \in ToSet(log[n])

LossInv ==
    /\ TypeOK
    /\ \A n \in Names : Follows(log[n])
    /\ \A d \in Dumpers : dumper[d] # Off => RunOK(dumper[d])
    /\ \A r \in appended \ (atRisk \union refused) : Found(r)

LEMMA InitLoss == Init => LossInv
<1> SUFFICES ASSUME Init PROVE LossInv
    OBVIOUS
<1>1. TypeOK
  BY InitTypes
<1>2. \A n \in Names : log[n] = <<>> /\ Len(log[n]) = 0
  BY DEF Init
<1>3. \A n \in Names : Follows(log[n])
  BY <1>2 DEF Follows
<1> QED BY <1>1, <1>3 DEF LossInv, Init

\* A run is not touched by a step in which the lines of every object stay, or go.
LEMMA RunKept ==
  ASSUME TypeOK, NEW s \in Runs, RunOK(s), UNCHANGED long,
         atRisk \subseteq atRisk', refused \subseteq refused',
         \A r \in Requests : indexed[r] > 0 => indexed'[r] > 0,
         \A n \in Names : log'[n] \in {log[n], <<>>}
  PROVE  RunOK(s)'
<1>1. Follows(s.data)'
  BY DEF RunOK, Follows
<1>2. CASE s.at = "list"
  BY <1>1, <1>2 DEF RunOK, Spares
<1>3. CASE s.at # "list"
  <2>1. s.name \in Names /\ log[s.name] \in Seq(Requests)
    BY <1>3 DEF RunOK, TypeOK
  <2>2. \A k \in 1 .. Len(log[s.name]) : log[s.name][k] \in Requests
    BY <2>1, LinesOf
  <2>3. CASE log'[s.name] = <<>>
    <3>1. Len(log'[s.name]) = 0
      BY <2>3
    <3> QED BY <1>1, <2>3, <3>1 DEF RunOK, Spares
  <2>4. CASE log'[s.name] = log[s.name]
    BY <1>1, <2>1, <2>2, <2>4 DEF RunOK, Spares
  <2> QED BY <2>1, <2>3, <2>4
<1> QED BY <1>2, <1>3

\* A step of one run, and what has to be shown for it.
LEMMA RunLoss ==
  ASSUME LossInv, TypeOK', NEW d \in Dumpers, NEW s \in Runs \union {Off}, Becomes(d, s),
         UNCHANGED <<long, appended, atRisk>>, refused \subseteq refused',
         \A r \in Requests : indexed[r] > 0 => indexed'[r] > 0,
         \A n \in Names : log'[n] \in {log[n], <<>>},
         s # Off => RunOK(s)',
         \A r \in appended \ (atRisk \union refused) : Found(r) => Found(r)'
  PROVE  LossInv'
<1>1. \A n \in Names : Follows(log[n])'
  <2>1. SUFFICES ASSUME NEW n \in Names PROVE Follows(log[n])'
    OBVIOUS
  <2>2. CASE log'[n] = <<>>
    <3>1. Len(log'[n]) = 0
      BY <2>2
    <3> QED BY <3>1 DEF Follows
  <2>3. CASE log'[n] = log[n]
    BY <2>3 DEF LossInv, Follows
  <2> QED BY <2>2, <2>3
<1>2. ASSUME NEW e \in Dumpers, dumper'[e] # Off
      PROVE  RunOK(dumper[e])'
  <2>1. CASE e = d
    <3>1. dumper'[e] = s
      BY <2>1 DEF LossInv, TypeOK, Becomes
    <3> QED BY <1>2, <3>1 DEF RunOK
  <2>2. CASE e # d
    <3>1. dumper'[e] = dumper[e]
      BY <2>2 DEF LossInv, TypeOK, Becomes
    <3>2. dumper[e] \in Runs /\ RunOK(dumper[e])
      BY <1>2, <3>1 DEF LossInv, TypeOK
    <3>3. PICK t \in Runs : t = dumper[e]
      BY <3>2
    <3>4. RunOK(t)'
      BY <3>2, <3>3, RunKept DEF LossInv
    <3> QED BY <3>1, <3>3, <3>4 DEF RunOK
  <2> QED BY <2>1, <2>2
<1>3. \A r \in appended' \ (atRisk' \union refused') : Found(r)'
  BY DEF LossInv
<1> QED BY <1>1, <1>2, <1>3 DEF LossInv

LEMMA ListOK ==
  ASSUME NEW s, s.at = "list", s.data = <<>>
  PROVE  RunOK(s)'
<1>1. Len(s.data) = 0
  OBVIOUS
<1> QED BY <1>1 DEF RunOK, Follows

\* Steps that leave the lines and the results alone.
LEMMA QuietLoss ==
  ASSUME LossInv, TypeOK', NEW d \in Dumpers, NEW s \in Runs \union {Off}, Becomes(d, s),
         UNCHANGED <<long, log, appended, atRisk, indexed, refused>>,
         s # Off => RunOK(s)'
  PROVE  LossInv'
<1>1. \A r \in appended \ (atRisk \union refused) : Found(r) => Found(r)'
  BY DEF Found
<1>2. \A n \in Names : log'[n] \in {log[n], <<>>}
  OBVIOUS
<1>3. \A r \in Requests : indexed[r] > 0 => indexed'[r] > 0
  OBVIOUS
<1>4. UNCHANGED <<long, appended, atRisk>> /\ refused \subseteq refused'
  OBVIOUS
<1> QED BY <1>1, <1>2, <1>3, <1>4, RunLoss

LEMMA RunningOK ==
  ASSUME LossInv, NEW d \in Dumpers, dumper[d].at \in Steps
  PROVE  /\ dumper[d] \in Runs /\ RunOK(dumper[d])
         /\ dumper[d].at # "list" => dumper[d].name \in Names
<1>1. dumper[d] \in Runs /\ dumper[d] # Off
  BY RunIs, RunFields DEF LossInv, Steps
<1> QED BY <1>1 DEF LossInv, RunOK

LEMMA ListingLoss ==
  ASSUME LossInv, TypeOK', NEW d \in Dumpers,
         Start(d) \/ (\E n \in Names : Stat(d, n)) \/ Ends(d) \/ Crash(d)
  PROVE  LossInv'
<1>1. CASE Start(d)
  <2> DEFINE s == [at |-> "list", now |-> LocalHour, left |-> Existing, seen |-> {},
                   name |-> NoName, size |-> 0, data |-> <<>>]
  <2>1. s \in Runs
    BY HourIs DEF Runs, Steps, Existing, LossInv
  <2>2. s.at = "list" /\ s.data = <<>>
    OBVIOUS
  <2>3. Becomes(d, s)
    BY <1>1 DEF Start
  <2>4. PICK t \in Runs : t = s
    BY <2>1
  <2> HIDE DEF s
  <2>5. RunOK(t)'
    BY <2>2, <2>4, ListOK
  <2> QED BY <1>1, <2>3, <2>4, <2>5, QuietLoss DEF Start, setting, lines, results
<1>2. ASSUME NEW n \in Names, Stat(d, n) PROVE LossInv'
  <2> DEFINE listed == [dumper[d] EXCEPT !.left = @ \ {n}, !.seen = @ \union {n}]
             takes == log[n] # <<>> /\ ~Spares(n, dumper[d].now)
             s == IF takes
                  THEN [listed EXCEPT !.at = "read", !.name = n, !.size = Len(log[n])]
                  ELSE listed
  <2>1. dumper[d] \in Runs /\ RunOK(dumper[d]) /\ dumper[d].at = "list"
    BY <1>2, RunningOK DEF Stat, At, Steps
  <2>2. dumper[d].data = <<>>
    BY <2>1 DEF RunOK
  <2>3. Len(log[n]) \in Nat
    BY LenProperties DEF TypeOK, LossInv
  <2>4. /\ listed \in Runs /\ listed.at = "list" /\ listed.data = <<>>
        /\ listed.now = dumper[d].now
    BY <2>1, <2>2 DEF Runs
  <2> HIDE DEF listed
  <2>5. CASE ~takes
    <3>1. PICK t \in Runs : t = listed
      BY <2>4
    <3>2. RunOK(t)'
      BY <2>4, <3>1, ListOK
    <3>3. Becomes(d, t)
      BY <1>2, <2>5, <3>1 DEF Stat, listed
    <3> QED BY <1>2, <3>2, <3>3, QuietLoss DEF Stat, setting, lines, results
  <2>6. CASE takes
    <3> DEFINE u == [listed EXCEPT !.at = "read", !.name = n, !.size = Len(log[n])]
    <3>1. u \in Runs
      BY <2>3, <2>4 DEF Runs, Steps
    <3>2. /\ u.at = "read" /\ u.name = n /\ u.size = Len(log[n])
          /\ u.data = <<>> /\ u.now = dumper[d].now
      BY <2>4 DEF Runs
    <3>3. Becomes(d, u)
      BY <1>2, <2>6 DEF Stat, listed
    <3> HIDE DEF u
    <3>4. PICK t \in Runs : t = u
      BY <3>1
    <3>5. UNCHANGED log
      BY <1>2 DEF Stat, lines
    <3>6. Len(t.data) = 0
      BY <3>2, <3>4
    <3>7. RunOK(t)'
      BY <2>3, <2>6, <3>2, <3>4, <3>5, <3>6 DEF RunOK, Follows, Spares
    <3> QED BY <1>2, <3>3, <3>4, <3>7, QuietLoss DEF Stat, setting, lines, results
  <2> QED BY <2>5, <2>6
<1>3. CASE Ends(d) \/ Crash(d)
  <2>1. PICK s \in Runs \union {Off} : s = Off
    OBVIOUS
  <2>2. Becomes(d, s)
    BY <1>3, <2>1 DEF Ends, Crash
  <2> QED BY <1>3, <2>1, <2>2, QuietLoss DEF Ends, Crash, setting, lines, results
<1> QED BY <1>1, <1>2, <1>3

\* With lines to send, those of the object are sent or at risk.
LEMMA SendCovers ==
  ASSUME LossInv, NEW d \in Dumpers, dumper[d].at = "send", Scanned(d) # {}
  PROVE  /\ dumper[d].name \in Names
         /\ \A k \in 1 .. Len(log[dumper[d].name]) :
               log[dumper[d].name][k] \in atRisk \union Scanned(d)
<1> DEFINE s == dumper[d].data
           n == dumper[d].name
<1>1. dumper[d] \in Runs /\ RunOK(dumper[d]) /\ n \in Names
  BY RunningOK DEF Steps
<1>2. s \in Seq(Requests) /\ Scanned(d) \subseteq ToSet(s)
  BY <1>1, SentLines DEF LossInv
<1>3. s # <<>>
  <2>1. Len(s) # 0
    BY <1>2, LinesOf
  <2> QED BY <2>1
<1>4. \A k \in 1 .. Len(log[n]) : log[n][k] \in atRisk \union ToSet(s)
  BY <1>1, <1>3 DEF RunOK
<1>5. ASSUME NEW k \in 1 .. Len(s) PROVE s[k] \in atRisk \union Scanned(d)
  BY <1>1, <1>2, ScannedLines DEF RunOK, Follows
<1>6. \A r \in ToSet(s) : r \in atRisk \union Scanned(d)
  BY <1>2, <1>5, LinesOf
<1> QED BY <1>1, <1>4, <1>6

\* What is left in the object when its lines are in Elasticsearch or refused.
LEMMA SentOK ==
  ASSUME LossInv, NEW d \in Dumpers, dumper[d].at = "send", Scanned(d) # {},
         UNCHANGED <<long, log, atRisk>>, refused \subseteq refused',
         \A r \in Scanned(d) : r \in refused' \/ indexed'[r] > 0,
         NEW s, s = [dumper[d] EXCEPT !.at = "delete"]
  PROVE  s \in Runs /\ RunOK(s)'
<1>1. dumper[d] \in Runs /\ RunOK(dumper[d]) /\ dumper[d].name \in Names
  BY RunningOK DEF Steps
<1>2. /\ s \in Runs /\ s.at = "delete" /\ s.name = dumper[d].name
      /\ s.now = dumper[d].now /\ s.data = dumper[d].data
  BY <1>1 DEF Runs, Steps
<1>3. s.name \in Names /\ ~Spares(s.name, s.now) /\ Follows(s.data)
  BY <1>1, <1>2 DEF RunOK
<1>4. \A k \in 1 .. Len(log[s.name]) : log[s.name][k] \in atRisk \union Scanned(d)
  BY <1>2, SendCovers
<1>5. \A k \in 1 .. Len(log[s.name]) :
         \/ log[s.name][k] \in atRisk \union refused'
         \/ indexed'[log[s.name][k]] > 0
  BY <1>4
<1> HIDE DEF Runs
<1> QED BY <1>2, <1>3, <1>5 DEF RunOK, Follows, Spares

LEMMA IndexGrows ==
  ASSUME TypeOK, NEW taken, Index(taken)
  PROVE  /\ \A r \in Requests : indexed[r] > 0 => indexed'[r] > 0
         /\ \A r \in Requests \intersect taken : indexed'[r] > 0
<1>1. \A r \in Requests : indexed[r] \in Nat
  BY DEF TypeOK
<1>2. \A r \in Requests : indexed'[r] = IF r \in taken THEN indexed[r] + 1 ELSE indexed[r]
  BY IndexTypes
<1> QED BY <1>1, <1>2

LEMMA SendingLoss ==
  ASSUME LossInv, TypeOK', NEW d \in Dumpers, Send(d) \/ SendRefused(d) \/ SendFails(d)
  PROVE  LossInv'
<1>1. TypeOK /\ dumper[d].at = "send" /\ dumper[d] \in Runs /\ RunOK(dumper[d])
  BY RunningOK DEF LossInv, Send, SendRefused, SendFails, At, Steps
<1>2. Scanned(d) \subseteq Requests
  BY <1>1, SentLines
<1>3. UNCHANGED <<long, log, appended, atRisk>> /\ refused \subseteq refused'
  BY DEF Send, SendRefused, SendFails, setting, lines
<1>4. /\ \A r \in Requests : indexed[r] > 0 => indexed'[r] > 0
      /\ \A n \in Names : log'[n] \in {log[n], <<>>}
      /\ \A r \in appended \ (atRisk \union refused) : Found(r) => Found(r)'
  <2>1. \A r \in Requests : indexed[r] > 0 => indexed'[r] > 0
    BY <1>1, IndexGrows DEF Send, SendRefused, SendFails
  <2> QED BY <1>1, <1>3, <2>1 DEF Found, TypeOK
<1>5. PICK p \in Runs : p = Passed(d) /\ p.at = "list" /\ p.data = <<>>
  BY <1>1, PassedIs
<1>6. RunOK(p)'
  BY <1>5, ListOK
<1>7. CASE Becomes(d, p)
  BY <1>3, <1>4, <1>6, <1>7, RunLoss
<1>8. CASE Send(d) /\ Scanned(d) # {}
  <2>1. PICK s : s = [dumper[d] EXCEPT !.at = "delete"]
    OBVIOUS
  <2>2. Becomes(d, s)
    BY <1>8, <2>1 DEF Send
  <2>3. \A r \in Scanned(d) : r \in refused' \/ indexed'[r] > 0
    BY <1>1, <1>2, <1>8, IndexGrows DEF Send
  <2>4. s \in Runs /\ RunOK(s)'
    BY <1>1, <1>3, <1>8, <2>1, <2>3, SentOK
  <2> QED BY <1>3, <1>4, <2>2, <2>4, RunLoss
<1>9. CASE SendRefused(d)
  <2>1. PICK some \in (SUBSET Scanned(d)) \ {{}} :
           Index(Scanned(d) \ some) /\ refused' = refused \union some
    BY <1>9 DEF SendRefused
  <2>2. PICK s : s = [dumper[d] EXCEPT !.at = "delete"]
    OBVIOUS
  <2>3. Becomes(d, s)
    BY <1>9, <2>2 DEF SendRefused
  <2>4. \A r \in Scanned(d) : r \in refused' \/ indexed'[r] > 0
    BY <1>1, <1>2, <2>1, IndexGrows
  <2>5. Scanned(d) # {}
    BY <2>1
  <2>6. s \in Runs /\ RunOK(s)'
    BY <1>1, <1>3, <2>2, <2>4, <2>5, SentOK
  <2> QED BY <1>3, <1>4, <2>3, <2>6, RunLoss
<1> QED BY <1>5, <1>7, <1>8, <1>9 DEF Send, SendFails

LEMMA ReadingLoss ==
  ASSUME LossInv, TypeOK', NEW d \in Dumpers, Read(d) \/ ReadFails(d)
  PROVE  LossInv'
<1> DEFINE n == dumper[d].name
           m == Least(dumper[d].size, Len(log[n]))
           data == SubSeq(log[n], 1, m)
<1>1. dumper[d].at = "read"
  BY DEF Read, ReadFails, At
<1>2. TypeOK /\ dumper[d] \in Runs /\ RunOK(dumper[d]) /\ n \in Names
  BY <1>1, RunningOK DEF LossInv, Steps
<1>3. /\ ~Spares(n, dumper[d].now) /\ dumper[d].data = <<>> /\ dumper[d].size \in Nat
      /\ \A k \in 1 .. Len(log[n]) : k > dumper[d].size => log[n][k] \in atRisk
  BY <1>1, <1>2, RunFields DEF RunOK
<1>4. UNCHANGED <<long, log, appended, atRisk, indexed, refused>>
  BY DEF Read, ReadFails, setting, lines, results
<1>5. CASE ReadFails(d)
  <2>1. PICK s : s = [dumper[d] EXCEPT !.at = "send"]
    OBVIOUS
  <2>2. /\ s \in Runs /\ s.at = "send" /\ s.name = n /\ s.now = dumper[d].now
        /\ s.data = <<>>
    BY <1>2, <1>3, <2>1 DEF Runs, Steps
  <2>3. Len(s.data) = 0
    BY <2>2
  <2>4. RunOK(s)'
    BY <1>2, <1>3, <2>2, <2>3 DEF RunOK, Follows, Spares
  <2> QED BY <1>4, <1>5, <2>1, <2>2, <2>4, QuietLoss DEF ReadFails
<1>6. CASE Read(d)
  <2>1. PICK s : s = [dumper[d] EXCEPT !.at = "send", !.data = data]
    OBVIOUS
  <2>2. /\ data \in Seq(Requests) /\ Len(data) = m
        /\ m \in Nat /\ m <= Len(log[n]) /\ (m = dumper[d].size \/ m = Len(log[n]))
        /\ \A i \in 1 .. m : data[i] = log[n][i]
    BY <1>2, ReadLines
  <2>3. Becomes(d, s)
    BY <1>6, <2>1 DEF Read
  <2>4. log[n] \in Seq(Requests) /\ Len(log[n]) \in Nat /\ Follows(log[n])
    BY <1>2, LenProperties DEF LossInv, TypeOK
  <2> HIDE DEF data, m, n
  <2>5. /\ s \in Runs /\ s.at = "send" /\ s.name = n /\ s.now = dumper[d].now
        /\ s.data = data
    BY <1>2, <2>1, <2>2 DEF Runs, Steps, n
  <2>6. \A k \in 1 .. Len(log[n]) : log[n][k] \in atRisk \union ToSet(data)
    <3>1. SUFFICES ASSUME NEW k \in 1 .. Len(log[n]), log[n][k] \notin atRisk
                   PROVE  log[n][k] \in ToSet(data)
      OBVIOUS
    <3>2. k <= dumper[d].size
      BY <1>3, <2>4, <3>1
    <3>3. k \in 1 .. m
      BY <2>2, <2>4, <3>2
    <3>4. data[k] = log[n][k] /\ k \in 1 .. Len(data)
      BY <2>2, <3>3
    <3> QED BY <2>2, <3>4, LinesOf
  <2>7. Follows(s.data)
    <3>1. SUFFICES ASSUME NEW i \in 1 .. m, NEW k \in 1 .. m, i <= k, data[i] \in long
                   PROVE  data[k] \in atRisk
      BY <2>2, <2>5 DEF Follows
    <3>2. i \in 1 .. Len(log[n]) /\ k \in 1 .. Len(log[n])
      BY <2>2, <2>4
    <3> QED BY <2>2, <2>4, <3>1, <3>2 DEF Follows
  <2>8. RunOK(s)'
    BY <1>2, <1>3, <1>4, <2>5, <2>6, <2>7 DEF RunOK, Follows, Spares
  <2> QED BY <1>4, <2>3, <2>5, <2>8, QuietLoss
<1> QED BY <1>5, <1>6

\* The object goes when its lines are safe.
LEMMA DeletingLoss ==
  ASSUME LossInv, TypeOK', NEW d \in Dumpers, Delete(d) \/ DeleteFails(d)
  PROVE  LossInv'
<1> DEFINE n == dumper[d].name
<1>1. dumper[d].at = "delete"
  BY DEF Delete, DeleteFails, At
<1>2. TypeOK /\ dumper[d] \in Runs /\ RunOK(dumper[d]) /\ n \in Names
  BY <1>1, RunningOK DEF LossInv, Steps
<1>3. \A k \in 1 .. Len(log[n]) :
         log[n][k] \in atRisk \union refused \/ indexed[log[n][k]] > 0
  BY <1>1, <1>2 DEF RunOK
<1>4. PICK p \in Runs : p = Passed(d) /\ p.at = "list" /\ p.data = <<>>
  BY <1>2, PassedIs
<1>5. RunOK(p)' /\ Becomes(d, p)
  BY <1>4, ListOK DEF Delete, DeleteFails
<1>6. CASE DeleteFails(d)
  BY <1>5, <1>6, QuietLoss DEF DeleteFails, setting, lines
<1>7. CASE Delete(d)
  <2>1. log' = [log EXCEPT ![n] = <<>>]
    BY <1>7 DEF Delete
  <2> HIDE DEF n
  <2>2. log'[n] = <<>> /\ \A o \in Names : o # n => log'[o] = log[o]
    BY <1>2, <2>1 DEF TypeOK
  <2>3. UNCHANGED <<long, appended, atRisk, indexed, refused>>
    BY <1>7 DEF Delete, setting, results
  <2>4. ASSUME NEW r \in appended \ (atRisk \union refused), Found(r)
        PROVE  Found(r)'
    <3>1. CASE \E o \in Names : o # n /\ r \in ToSet(log[o])
      BY <2>2, <3>1 DEF Found
    <3>2. CASE r \in ToSet(log[n])
      <4>1. PICK k \in 1 .. Len(log[n]) : log[n][k] = r
        BY <1>2, <3>2, LinesOf DEF TypeOK
      <4>2. indexed[r] > 0
        BY <1>3, <2>4, <4>1
      <4> QED BY <2>3, <4>2 DEF Found
    <3>3. CASE indexed[r] > 0
      BY <2>3, <3>3 DEF Found
    <3> QED BY <2>4, <3>1, <3>2, <3>3 DEF Found
  <2>5. \A o \in Names : log'[o] \in {log[o], <<>>}
    BY <2>2
  <2> QED BY <1>5, <2>3, <2>4, <2>5, RunLoss
<1> QED BY <1>6, <1>7

\* The object to which r is appended, before and after.
LEMMA Appended ==
  ASSUME TypeOK, NEW r \in Requests, AppendLine(r)
  PROVE  LET n == request[r].name
         IN  /\ n \in Names /\ n.bucket \in Buckets
             /\ Len(log[n]) \in Nat /\ Len(log'[n]) = Len(log[n]) + 1
             /\ \A k \in 1 .. Len(log[n]) : log'[n][k] = log[n][k]
             /\ log'[n][Len(log[n]) + 1] = r
             /\ \A o \in Names : o # n => log'[o] = log[o]
             /\ atRisk' = atRisk \union (IF AtRisk(r, n) THEN {r} ELSE {})
<1> DEFINE n == request[r].name
<1>1. request[r] \in Appending
  BY DEF TypeOK, AppendLine, NotYet, Done
<1>2. n \in Names /\ n.bucket \in Buckets
  BY <1>1 DEF Appending, Names
<1>3. log' = [log EXCEPT ![n] = Append(@, r)]
  BY DEF AppendLine
<1>4. atRisk' = atRisk \union (IF AtRisk(r, n) THEN {r} ELSE {})
  BY DEF AppendLine
<1> HIDE DEF n
<1>5. log'[n] = Append(log[n], r) /\ \A o \in Names : o # n => log'[o] = log[o]
  BY <1>2, <1>3 DEF TypeOK
<1>6. log[n] \in Seq(Requests) /\ Len(log[n]) \in Nat
  BY <1>2, LenProperties DEF TypeOK
<1> QED BY <1>2, <1>4, <1>5, <1>6, AppendProperties DEF n

LEMMA AppendLoss ==
  ASSUME LossInv, TypeOK', NEW r \in Requests, AppendLine(r)
  PROVE  LossInv'
<1> DEFINE n == request[r].name
           l == Len(log[n])
<1>0. TypeOK
  BY DEF LossInv
<1>1. /\ n \in Names /\ l \in Nat /\ Len(log'[n]) = l + 1
      /\ \A k \in 1 .. l : log'[n][k] = log[n][k]
      /\ log'[n][l + 1] = r
      /\ \A o \in Names : o # n => log'[o] = log[o]
      /\ atRisk' = atRisk \union (IF AtRisk(r, n) THEN {r} ELSE {})
  BY <1>0, Appended
<1>2. UNCHANGED <<long, dumper, refused, indexed>> /\ appended' = appended \union {r}
  BY DEF AppendLine, setting, results
<1>3. atRisk \subseteq atRisk' /\ (AtRisk(r, n) => r \in atRisk')
  BY <1>1
<1>4. \A x : x \in ToSet(log[n]) <=> \E i \in 1 .. l : log[n][i] = x
  BY <1>0, <1>1, LinesOf DEF TypeOK
<1>5. \A x : x \in ToSet(log'[n]) <=> \E i \in 1 .. l + 1 : log'[n][i] = x
  <2>1. log'[n] \in Seq(Requests)
    BY <1>1 DEF TypeOK
  <2> QED BY <1>1, <2>1, LinesOf
<1> HIDE DEF n, l
<1>6. ASSUME NEW o \in Names PROVE Follows(log[o])'
  <2>1. CASE o # n
    BY <1>1, <1>2, <1>3, <2>1 DEF LossInv, Follows
  <2>2. CASE o = n
    <3>1. SUFFICES ASSUME NEW i \in 1 .. l + 1, NEW k \in 1 .. l + 1, i <= k,
                          log'[n][i] \in long
                   PROVE  log'[n][k] \in atRisk'
      BY <1>1, <1>2, <2>2 DEF Follows
    <3>2. CASE k \in 1 .. l
      <4>1. i \in 1 .. l
        BY <1>1, <3>1, <3>2
      <4>2. log[n][i] \in long /\ Len(log[n]) = l
        BY <1>1, <3>1, <4>1 DEF l
      <4>3. log[n][k] \in atRisk
        BY <1>1, <3>1, <3>2, <4>1, <4>2 DEF LossInv, Follows
      <4> QED BY <1>1, <1>3, <3>2, <4>3
    <3>3. CASE k = l + 1
      <4>1. log'[n][i] \in ToSet(log[n]) \union {r}
        <5>1. CASE i \in 1 .. l
          BY <1>1, <1>4, <5>1
        <5>2. CASE i = l + 1
          BY <1>1, <5>2
        <5> QED BY <1>1, <5>1, <5>2
      <4>2. AtRisk(r, n)
        BY <3>1, <4>1 DEF AtRisk
      <4> QED BY <1>1, <1>3, <3>3, <4>2
    <3> QED BY <1>1, <3>2, <3>3
  <2> QED BY <2>1, <2>2
<1>7. ASSUME NEW e \in Dumpers, dumper'[e] # Off PROVE RunOK(dumper[e])'
  <2>1. PICK t \in Runs : t = dumper[e]
    BY <1>0, <1>2, <1>7 DEF TypeOK
  <2>2. RunOK(t) /\ t = dumper'[e]
    BY <1>2, <1>7, <2>1 DEF LossInv
  <2>3. Follows(t.data)'
    BY <1>2, <1>3, <2>2 DEF RunOK, Follows
  <2>4. t.at # "list" => t.name \in Names /\ ~Spares(t.name, t.now)
    BY <2>2 DEF RunOK
  <2>5. CASE t.name # n
    BY <1>1, <1>2, <1>3, <2>2, <2>3, <2>4, <2>5 DEF RunOK, Spares
  <2>6. CASE t.name = n /\ t.at # "list"
    <3>1. n.bucket \in Dotted \/ n.hour # t.now
      BY <2>4, <2>6 DEF Spares
    <3>2. AtRisk(r, n)
      BY <1>2, <1>7, <2>1, <3>1 DEF AtRisk
    <3>3. log'[n][l + 1] \in atRisk'
      BY <1>1, <1>3, <3>2
    <3>4. \A k \in 1 .. l + 1 : k \in 1 .. l \/ k = l + 1
      BY <1>1
    <3>5. t.at = "read" =>
             \A k \in 1 .. l + 1 : k > t.size => log'[n][k] \in atRisk'
      BY <1>1, <1>3, <2>2, <2>6, <3>3, <3>4 DEF RunOK, l
    <3>6. t.at = "send" /\ t.data # <<>> =>
             \A k \in 1 .. l + 1 : log'[n][k] \in atRisk' \union ToSet(t.data)
      BY <1>1, <1>3, <2>2, <2>6, <3>3, <3>4 DEF RunOK, l
    <3>7. t.at = "delete" =>
             \A k \in 1 .. l + 1 : \/ log'[n][k] \in atRisk' \union refused'
                                   \/ indexed'[log'[n][k]] > 0
      BY <1>1, <1>2, <1>3, <2>2, <2>6, <3>3, <3>4 DEF RunOK, l
    <3>8. t.at \in {"list", "read"} => t.data = <<>>
      BY <2>2 DEF RunOK
    <3> QED BY <1>1, <2>2, <2>3, <2>4, <2>6, <3>5, <3>6, <3>7, <3>8 DEF RunOK, Spares
  <2>7. CASE t.at = "list"
    BY <1>2, <2>2, <2>3, <2>7 DEF RunOK, Spares
  <2> QED BY <2>5, <2>6, <2>7
<1>8. ASSUME NEW x \in appended' \ (atRisk' \union refused') PROVE Found(x)'
  <2>1. CASE x = r
    <3>1. l + 1 \in 1 .. l + 1
      BY <1>1
    <3>2. r \in ToSet(log'[n])
      BY <1>1, <1>5, <3>1
    <3> QED BY <1>1, <2>1, <3>2 DEF Found
  <2>2. CASE x # r
    <3>1. x \in appended \ (atRisk \union refused)
      BY <1>2, <1>3, <1>8, <2>2
    <3>2. indexed[x] > 0 \/ \E o \in Names : x \in ToSet(log[o])
      BY <3>1 DEF LossInv, Found
    <3>3. \A o \in Names : x \in ToSet(log[o]) => x \in ToSet(log'[o])
      <4>1. \A o \in Names : o # n => ToSet(log'[o]) = ToSet(log[o])
        BY <1>1
      <4>2. x \in ToSet(log[n]) => x \in ToSet(log'[n])
        BY <1>1, <1>4, <1>5
      <4> QED BY <1>1, <4>1, <4>2
    <3>4. indexed'[x] = indexed[x]
      BY <1>2
    <3> QED BY <3>2, <3>3, <3>4 DEF Found
  <2> QED BY <2>1, <2>2
<1> QED BY <1>6, <1>7, <1>8 DEF LossInv

\* Steps that leave the objects, the runs and what is known of the lines alone.
LEMMA StillLoss ==
  ASSUME LossInv, TypeOK',
         UNCHANGED <<long, log, dumper, indexed, appended, atRisk, refused>>
  PROVE  LossInv'
<1>1. \A n \in Names : Follows(log[n])'
  BY DEF LossInv, Follows
<1>2. ASSUME NEW d \in Dumpers, dumper'[d] # Off PROVE RunOK(dumper[d])'
  BY <1>2 DEF LossInv, RunOK, Follows, Spares
<1>3. \A r \in appended' \ (atRisk' \union refused') : Found(r)'
  BY DEF LossInv, Found
<1> QED BY <1>1, <1>2, <1>3 DEF LossInv

\* What a run that is not listing works on is there.
LEMMA WorksOnNames ==
  ASSUME LossInv, NEW d \in Dumpers, dumper[d].at \in {"read", "send", "delete"}
  PROVE  dumper[d].name \in Names
  BY RunningOK DEF Steps

LEMMA NextLoss == LossInv /\ [Next]_vars => LossInv'
<1>1. SUFFICES ASSUME LossInv, [Next]_vars PROVE LossInv'
  OBVIOUS
<1>2. TypeOK
  BY <1>1 DEF LossInv
<1>3. CASE UNCHANGED vars
  <2>1. TypeOK'
    BY <1>2, <1>3 DEF vars, setting, lines, results, TypeOK
  <2> QED BY <1>1, <1>3, <2>1, StillLoss DEF vars, setting, lines, results
<1>4. CASE Tick
  <2>1. TypeOK'
    BY <1>2, <1>4, LoggingTypes
  <2> QED BY <1>1, <1>4, <2>1, StillLoss DEF Tick, setting, lines, results
<1>5. CASE LoggingOps
  <2>1. TypeOK'
    BY <1>2, <1>5, LoggingTypes
  <2>2. ASSUME NEW r \in Requests, AppendLine(r) PROVE LossInv'
    BY <1>1, <2>1, <2>2, AppendLoss
  <2>3. ASSUME NEW r \in Requests, NEW b \in Buckets, NEW h \in Hours,
               Answered(r, b, h) \/ NoLine(r)
        PROVE  LossInv'
    BY <1>1, <2>1, <2>3, StillLoss DEF Answered, NoLine, setting, results
  <2>4. ASSUME NEW r \in Requests, NoLine(r) PROVE LossInv'
    BY <1>1, <2>1, <2>4, StillLoss DEF NoLine, setting, results
  <2> QED BY <1>5, <2>2, <2>3, <2>4 DEF LoggingOps
<1>6. ASSUME NEW d \in Dumpers, Dump(d) \/ DumpFails(d) PROVE LossInv'
  <2>1. TypeOK'
    BY <1>1, <1>2, <1>6, DumpTypes, WorksOnNames
  <2>2. CASE Start(d) \/ (\E n \in Names : Stat(d, n)) \/ Ends(d) \/ Crash(d)
    BY <1>1, <2>1, <2>2, ListingLoss
  <2>3. CASE Read(d) \/ ReadFails(d)
    BY <1>1, <2>1, <2>3, ReadingLoss
  <2>4. CASE Send(d) \/ SendRefused(d) \/ SendFails(d)
    BY <1>1, <2>1, <2>4, SendingLoss
  <2>5. CASE Delete(d) \/ DeleteFails(d)
    BY <1>1, <2>1, <2>5, DeletingLoss
  <2> QED BY <1>6, <2>2, <2>3, <2>4, <2>5 DEF Dump, DumpFails
<1> QED BY <1>1, <1>3, <1>4, <1>5, <1>6 DEF Next

LEMMA LossInvHolds == Spec => []LossInv
  BY InitLoss, NextLoss, PTL DEF Spec

\* For any number of requests, of runs of the dumper at once and of failing calls: a line
\* that was appended is in its object or in Elasticsearch, or it was at risk, or refused
\* there.
THEOREM LinesAreKept == Spec => [](TypeOK /\ NothingLost)
<1>1. LossInv => TypeOK /\ NothingLost
  BY DEF LossInv, NothingLost, Found
<1> QED BY <1>1, LossInvHolds, PTL

-----------------------------------------------------------------------------
(* Nothing is indexed twice.  A line is in one object, and every run that  *)
(* holds it works on that object; unless it is marked, one run holds it at *)
(* most, and when it is indexed and still in its object, the run that sent *)
(* it is about to delete the object.                                       *)

InLog(n, r) == r \in ToSet(log[n])
Holds(d, r) == dumper[d].at \in {"send", "delete"} /\ r \in ToSet(dumper[d].data)
HasSent(d, r) == dumper[d].at = "delete" /\ r \in Scanned(d)

NewOK(r) ==
    request[r] # Done =>
        /\ indexed[r] = 0
        /\ \A n \in Names : ~InLog(n, r)
        /\ \A d \in Dumpers : ~Holds(d, r)

PlaceOK(r) ==
    /\ \A n, m \in Names : InLog(n, r) /\ InLog(m, r) => n = m
    /\ \A d \in Dumpers, n \in Names : Holds(d, r) /\ InLog(n, r) => dumper[d].name = n
    /\ \A d, e \in Dumpers : Holds(d, r) /\ Holds(e, r) => dumper[d].name = dumper[e].name

SentOnce(r) ==
    /\ indexed[r] <= 1
    /\ \A d, e \in Dumpers : Holds(d, r) /\ Holds(e, r) => d = e
    /\ \A d \in Dumpers : Holds(d, r) /\ dumper[d].at = "send" => indexed[r] = 0
    /\ \A n \in Names : indexed[r] > 0 /\ InLog(n, r) => \E d \in Dumpers : HasSent(d, r)

OnceOK(r) == NewOK(r) /\ PlaceOK(r) /\ (r \notin again => SentOnce(r))
OnceInv == LossInv /\ \A r \in Requests : OnceOK(r)

LEMMA InitOnce == Init => OnceInv
<1> SUFFICES ASSUME Init PROVE OnceInv
    OBVIOUS
<1>1. LossInv
  BY InitLoss
<1>2. \A n \in Names, r \in Requests : ~InLog(n, r)
  <2>1. ToSet(<<>>) = {}
    BY DEF ToSet
  <2> QED BY <2>1 DEF Init, InLog
<1>3. \A d \in Dumpers, r \in Requests : ~Holds(d, r)
  BY DEF Init, Off, Holds
<1>4. \A r \in Requests : indexed[r] = 0
  BY DEF Init
<1>5. ASSUME NEW r \in Requests PROVE OnceOK(r)
  <2>1. NewOK(r) /\ PlaceOK(r)
    BY <1>2, <1>3, <1>4 DEF NewOK, PlaceOK
  <2>2. SentOnce(r)
    BY <1>2, <1>3, <1>4 DEF SentOnce
  <2> QED BY <2>1, <2>2 DEF OnceOK
<1> QED BY <1>1, <1>5 DEF OnceInv

LEMMA ScannedKept ==
  ASSUME NEW d \in Dumpers, UNCHANGED <<dumper[d].data, long>>
  PROVE  Scanned(d)' = Scanned(d)
  BY DEF Scanned, SelectInSeq

LEMMA HasSentHolds ==
  ASSUME LossInv, NEW d \in Dumpers, NEW r, HasSent(d, r)
  PROVE  Holds(d, r)
<1>1. dumper[d] \in Runs
  BY RunningOK DEF HasSent, Steps
<1> QED BY <1>1, SentLines DEF LossInv, HasSent, Holds

\* A step in which a line comes into no object and no run begins to hold it.
LEMMA LessHeld ==
  ASSUME NEW r \in Requests, OnceOK(r),
         request[r] = Done => request'[r] = Done,
         request[r] # Done => indexed'[r] = 0,
         r \in again => r \in again',
         r \notin again' => indexed'[r] = indexed[r],
         \A n \in Names : InLog(n, r)' => InLog(n, r),
         \A d \in Dumpers : Holds(d, r)' =>
            Holds(d, r) /\ dumper'[d].name = dumper[d].name /\ dumper'[d].at = dumper[d].at,
         \A d \in Dumpers, n \in Names : 
            r \notin again' /\ HasSent(d, r) /\ InLog(n, r)' => HasSent(d, r)'
  PROVE  OnceOK(r)'
<1>1. NewOK(r)'
  BY DEF OnceOK, NewOK
<1>2. PlaceOK(r)'
  BY DEF OnceOK, PlaceOK
<1>3. ASSUME r \notin again' PROVE SentOnce(r)'
  <2>1. SentOnce(r) /\ indexed'[r] = indexed[r]
    BY <1>3 DEF OnceOK
  <2>2. /\ (indexed[r] <= 1)'
        /\ \A d, e \in Dumpers : (Holds(d, r) /\ Holds(e, r) => d = e)'
        /\ \A d \in Dumpers : (Holds(d, r) /\ dumper[d].at = "send" => indexed[r] = 0)'
    BY <2>1 DEF SentOnce
  <2>3. ASSUME NEW n \in Names, indexed'[r] > 0, InLog(n, r)'
        PROVE  \E d \in Dumpers : HasSent(d, r)'
    <3>1. PICK d \in Dumpers : HasSent(d, r)
      BY <2>1, <2>3 DEF SentOnce
    <3> QED BY <1>3, <2>3, <3>1
  <2> QED BY <2>2, <2>3 DEF SentOnce
<1> QED BY <1>1, <1>2, <1>3 DEF OnceOK

\* The other runs are as they were.
LEMMA OthersHold ==
  ASSUME LossInv, NEW d \in Dumpers, NEW s, Becomes(d, s), UNCHANGED long,
         NEW e \in Dumpers \ {d}, NEW r
  PROVE  /\ dumper'[e] = dumper[e] /\ Scanned(e)' = Scanned(e)
         /\ Holds(e, r)' <=> Holds(e, r)
         /\ HasSent(e, r)' <=> HasSent(e, r)
<1>1. dumper'[e] = dumper[e]
  BY DEF LossInv, TypeOK, Becomes
<1>2. Scanned(e)' = Scanned(e)
  BY <1>1, ScannedKept
<1> QED BY <1>1, <1>2 DEF Holds, HasSent

\* A step of run d after which it holds nothing that it had not yet deleted.
LEMMA LetsGo ==
  ASSUME LossInv, NEW r \in Requests, OnceOK(r),
         NEW d \in Dumpers, NEW s, Becomes(d, s), UNCHANGED <<long, request>>,
         request[r] # Done => indexed'[r] = 0,
         r \in again => r \in again',
         r \notin again' => indexed'[r] = indexed[r],
         \A n \in Names : InLog(n, r)' => InLog(n, r),
         ~Holds(d, r)',
         r \notin again' /\ HasSent(d, r) => \A n \in Names : ~InLog(n, r)'
  PROVE  OnceOK(r)'
<1>1. \A e \in Dumpers \ {d} :
         /\ dumper'[e] = dumper[e]
         /\ Holds(e, r)' <=> Holds(e, r)
         /\ HasSent(e, r)' <=> HasSent(e, r)
  BY OthersHold
<1>2. \A e \in Dumpers : Holds(e, r)' =>
         Holds(e, r) /\ dumper'[e].name = dumper[e].name /\ dumper'[e].at = dumper[e].at
  BY <1>1
<1>3. \A e \in Dumpers, n \in Names :
         r \notin again' /\ HasSent(e, r) /\ InLog(n, r)' => HasSent(e, r)'
  BY <1>1
<1>4. request[r] = Done => request'[r] = Done
  OBVIOUS
<1> QED BY <1>2, <1>3, <1>4, LessHeld

LEMMA ListingOnce ==
  ASSUME OnceInv, NEW r \in Requests, NEW d \in Dumpers,
         Start(d) \/ (\E n \in Names : Stat(d, n)) \/ Ends(d) \/ Crash(d) \/ ReadFails(d)
  PROVE  OnceOK(r)'
<1>1. LossInv /\ TypeOK /\ OnceOK(r)
  BY DEF OnceInv, LossInv
<1>2. UNCHANGED <<long, request, log, indexed>> /\ (r \in again => r \in again')
  BY DEF Start, Stat, Ends, Crash, ReadFails, setting, lines, results
<1>3. HasSent(d, r) => r \in again'
  BY DEF HasSent, Start, Stat, Ends, Crash, ReadFails, At
<1>4. PICK s : Becomes(d, s)
  BY DEF Start, Stat, Ends, Crash, ReadFails
<1>5. ~Holds(d, r)'
  <2>1. CASE Start(d) \/ Ends(d) \/ Crash(d)
    BY <1>1, <2>1 DEF Start, Ends, Crash, Becomes, TypeOK, Holds, Off
  <2>2. CASE \E n \in Names : Stat(d, n)
    <3>1. PICK n \in Names : Stat(d, n)
      BY <2>2
    <3>2. dumper[d] \in Runs /\ dumper[d].at = "list"
      BY <1>1, <3>1, RunningOK DEF Stat, At, Steps
    <3>3. dumper'[d].at \in {"list", "read"}
      BY <1>1, <3>1, <3>2 DEF Stat, Becomes, TypeOK, Runs
    <3> QED BY <3>3 DEF Holds
  <2>3. CASE ReadFails(d)
    <3>1. dumper[d] \in Runs /\ dumper[d].data = <<>>
      BY <1>1, <2>3, RunningOK DEF ReadFails, At, RunOK, Steps
    <3>2. dumper'[d].data = <<>>
      BY <1>1, <2>3, <3>1 DEF ReadFails, Becomes, TypeOK, Runs
    <3>3. ToSet(<<>>) = {}
      BY DEF ToSet
    <3> QED BY <3>2, <3>3 DEF Holds
  <2> QED BY <2>1, <2>2, <2>3
<1>6. \A n \in Names : InLog(n, r)' => InLog(n, r)
  BY <1>2 DEF InLog
<1>7. request[r] # Done => indexed'[r] = 0
  BY <1>1, <1>2 DEF OnceOK, NewOK
<1>8. indexed'[r] = indexed[r] /\ UNCHANGED <<long, request>>
  BY <1>2
<1> QED BY <1>1, <1>2, <1>3, <1>4, <1>5, <1>6, <1>7, <1>8, LetsGo

\* The run goes on to the next object.
LEMMA PassingOnce ==
  ASSUME OnceInv, NEW r \in Requests, NEW d \in Dumpers,
         Becomes(d, Passed(d)),
         SendFails(d) \/ (Send(d) /\ Scanned(d) = {}) \/ Delete(d) \/ DeleteFails(d)
  PROVE  OnceOK(r)'
<1>1. LossInv /\ TypeOK /\ OnceOK(r)
  BY DEF OnceInv, LossInv
<1>2. dumper[d].at \in {"send", "delete"} /\ dumper[d] \in Runs /\ dumper[d].name \in Names
  BY <1>1, RunningOK DEF SendFails, Send, Delete, DeleteFails, At, Steps
<1>3. UNCHANGED <<long, request>> /\ (r \in again => r \in again')
  BY DEF SendFails, Send, Delete, DeleteFails, setting, lines, results
<1>4. PICK s \in Runs : s = Passed(d) /\ s.at = "list"
  BY <1>1, <1>2, PassedIs
<1>5. ~Holds(d, r)'
  BY <1>1, <1>4 DEF Becomes, TypeOK, Holds
<1>6. \A n \in Names : InLog(n, r)' => InLog(n, r)
  <2>1. ToSet(<<>>) = {}
    BY DEF ToSet
  <2>2. \A n \in Names : log'[n] \in {log[n], <<>>}
    BY <1>1 DEF SendFails, Send, Delete, DeleteFails, lines, TypeOK
  <2> QED BY <2>1, <2>2 DEF InLog
<1>7. /\ r \notin again' => indexed'[r] = indexed[r]
      /\ request[r] # Done => indexed'[r] = 0
  <2>1. CASE Delete(d) \/ DeleteFails(d)
    BY <1>1, <2>1 DEF Delete, DeleteFails, results, OnceOK, NewOK
  <2>2. CASE SendFails(d) \/ (Send(d) /\ Scanned(d) = {})
    <3>1. PICK taken \in {{}, Scanned(d)} : Index(taken) /\ (r \in taken => r \in again')
      BY <2>2 DEF SendFails, Send
    <3>2. indexed'[r] = IF r \in taken THEN indexed[r] + 1 ELSE indexed[r]
      BY <1>1, <3>1, IndexTypes
    <3>3. r \in Scanned(d) => Holds(d, r)
      BY <1>1, <1>2, SentLines DEF Holds
    <3>4. request[r] # Done => r \notin taken /\ indexed[r] = 0
      BY <1>1, <3>1, <3>3 DEF OnceOK, NewOK
    <3> QED BY <3>1, <3>2, <3>4
  <2> QED BY <2>1, <2>2
<1>8. ASSUME r \notin again', HasSent(d, r), NEW n \in Names
      PROVE  ~InLog(n, r)'
  <2>1. CASE Delete(d)
    <3>1. Holds(d, r)
      BY <1>1, <1>8, HasSentHolds
    <3>2. InLog(n, r) => n = dumper[d].name
      BY <1>1, <3>1 DEF OnceOK, PlaceOK
    <3>3. log'[dumper[d].name] = <<>>
      BY <1>1, <1>2, <2>1 DEF Delete, TypeOK
    <3>4. ToSet(<<>>) = {}
      BY DEF ToSet
    <3> QED BY <1>6, <3>2, <3>3, <3>4 DEF InLog
  <2>2. CASE ~Delete(d)
    BY <1>8, <2>2 DEF HasSent, SendFails, Send, DeleteFails, At
  <2> QED BY <2>1, <2>2
<1>9. Becomes(d, s)
  BY <1>4
<1> QED BY <1>1, <1>3, <1>5, <1>6, <1>7, <1>8, <1>9, LetsGo

LEMMA SendingOnce ==
  ASSUME OnceInv, NEW r \in Requests, NEW d \in Dumpers,
         dumper[d].at = "send", Becomes(d, [dumper[d] EXCEPT !.at = "delete"]),
         UNCHANGED <<long, request, log, again>>,
         NEW taken \in SUBSET Scanned(d), Index(taken)
  PROVE  OnceOK(r)'
<1>1. LossInv /\ TypeOK /\ OnceOK(r) /\ dumper[d] \in Runs
  BY RunningOK DEF OnceInv, LossInv, Steps
<1>2. PICK s : s = [dumper[d] EXCEPT !.at = "delete"]
  OBVIOUS
<1>3. s.at = "delete" /\ s.data = dumper[d].data /\ s.name = dumper[d].name
  BY <1>1, <1>2 DEF Runs
<1>4. dumper'[d] = s /\ Becomes(d, s)
  BY <1>1, <1>2 DEF Becomes, TypeOK
<1>5. \A e \in Dumpers \ {d} :
         /\ dumper'[e] = dumper[e]
         /\ Holds(e, r)' <=> Holds(e, r)
         /\ HasSent(e, r)' <=> HasSent(e, r)
  BY <1>1, <1>4, OthersHold
<1>6. Scanned(d)' = Scanned(d)
  BY <1>3, <1>4, ScannedKept
<1>7. /\ Holds(d, r)' <=> Holds(d, r)
      /\ HasSent(d, r)' <=> r \in Scanned(d)
      /\ ~HasSent(d, r)
      /\ r \in Scanned(d) => Holds(d, r)
  BY <1>1, <1>3, <1>4, <1>6, SentLines DEF Holds, HasSent
<1>8. /\ \A e \in Dumpers : Holds(e, r)' <=> Holds(e, r)
      /\ \A e \in Dumpers : dumper'[e].name = dumper[e].name
      /\ \A n \in Names : InLog(n, r)' <=> InLog(n, r)
  BY <1>3, <1>4, <1>5, <1>7 DEF InLog
<1>9. indexed'[r] = IF r \in taken THEN indexed[r] + 1 ELSE indexed[r]
  BY <1>1, IndexTypes
<1>10. NewOK(r)'
  BY <1>1, <1>7, <1>8, <1>9 DEF OnceOK, NewOK
<1>11. PlaceOK(r)'
  BY <1>1, <1>8 DEF OnceOK, PlaceOK
<1>12. ASSUME r \notin again PROVE SentOnce(r)'
  <2>1. SentOnce(r)
    BY <1>1, <1>12 DEF OnceOK
  <2>2. \A e, f \in Dumpers : (Holds(e, r) /\ Holds(f, r) => e = f)'
    BY <1>8, <2>1 DEF SentOnce
  <2>3. CASE r \in taken
    <3>1. Holds(d, r) /\ HasSent(d, r)' /\ Holds(d, r)'
      BY <1>7, <2>3
    <3>2. indexed[r] = 0 /\ indexed'[r] = 1
      BY <1>9, <2>1, <2>3, <3>1 DEF SentOnce
    <3>3. \A e \in Dumpers : ~(Holds(e, r)' /\ dumper'[e].at = "send")
      BY <1>3, <1>4, <2>2, <3>1
    <3> QED BY <2>2, <3>1, <3>2, <3>3 DEF SentOnce
  <2>4. CASE r \notin taken
    <3>1. indexed'[r] = indexed[r]
      BY <1>9, <2>4
    <3>2. \A e \in Dumpers : (Holds(e, r) /\ dumper[e].at = "send" => indexed[r] = 0)'
      BY <1>3, <1>4, <1>5, <2>1, <3>1 DEF SentOnce
    <3>3. ASSUME NEW n \in Names, indexed'[r] > 0, InLog(n, r)'
          PROVE  \E e \in Dumpers : HasSent(e, r)'
      <4>1. PICK e \in Dumpers : HasSent(e, r)
        BY <1>8, <2>1, <3>1, <3>3 DEF SentOnce
      <4> QED BY <1>5, <1>7, <4>1
    <3> QED BY <2>1, <2>2, <3>1, <3>2, <3>3 DEF SentOnce
  <2> QED BY <2>3, <2>4
<1> QED BY <1>10, <1>11, <1>12 DEF OnceOK

LEMMA ReadingOnce ==
  ASSUME OnceInv, NEW r \in Requests, NEW d \in Dumpers, Read(d)
  PROVE  OnceOK(r)'
<1> DEFINE n == dumper[d].name
           m == Least(dumper[d].size, Len(log[n]))
           data == SubSeq(log[n], 1, m)
<1>1. dumper[d].at = "read"
  BY DEF Read, At
<1>2. /\ LossInv /\ TypeOK /\ OnceOK(r) /\ dumper[d] \in Runs /\ n \in Names
  BY <1>1, RunningOK DEF OnceInv, LossInv, Steps
<1>3. /\ data \in Seq(Requests) /\ Len(data) = m
      /\ m \in Nat /\ m <= Len(log[n])
      /\ \A i \in 1 .. m : data[i] = log[n][i]
  BY <1>2, ReadLines
<1>4. log[n] \in Seq(Requests) /\ Len(log[n]) \in Nat
  BY <1>2, LenProperties DEF TypeOK
<1>5. PICK s : s = [dumper[d] EXCEPT !.at = "send", !.data = data]
  OBVIOUS
<1>6. /\ Becomes(d, s)
      /\ again' = IF ReadByOther(d, n) THEN again \union ToSet(data) ELSE again
      /\ UNCHANGED <<long, request, log, indexed>>
  BY <1>5 DEF Read, setting, lines
<1> HIDE DEF data, m, n
<1>7. s.at = "send" /\ s.data = data /\ s.name = n
  BY <1>2, <1>5 DEF Runs, n
<1>8. dumper'[d] = s
  BY <1>2, <1>6 DEF Becomes, TypeOK
<1>9. \A e \in Dumpers \ {d} :
         /\ dumper'[e] = dumper[e]
         /\ Holds(e, r)' <=> Holds(e, r)
         /\ HasSent(e, r)' <=> HasSent(e, r)
  BY <1>2, <1>6, OthersHold
<1>10. /\ Holds(d, r)' => InLog(n, r)
       /\ Holds(d, r)' => r \in ToSet(data)
       /\ ~Holds(d, r) /\ ~HasSent(d, r)
  <2>1. Holds(d, r)' => r \in ToSet(data)
    BY <1>7, <1>8 DEF Holds
  <2>2. r \in ToSet(data) => InLog(n, r)
    <3>1. ASSUME r \in ToSet(data) PROVE \E i \in 1 .. Len(log[n]) : log[n][i] = r
      <4>1. PICK i \in 1 .. m : data[i] = r
        BY <1>3, <3>1, LinesOf
      <4> QED BY <1>3, <1>4, <4>1
    <3> QED BY <1>4, <3>1, LinesOf DEF InLog
  <2> QED BY <1>1, <2>1, <2>2 DEF Holds, HasSent
<1>11. \A o \in Names : InLog(o, r)' <=> InLog(o, r)
  BY <1>6 DEF InLog
<1>12. dumper'[d].name = n /\ dumper'[d].at = "send"
  BY <1>7, <1>8
<1>13. NewOK(r)'
  BY <1>2, <1>6, <1>9, <1>10, <1>11 DEF OnceOK, NewOK
<1>14. PlaceOK(r)'
  <2>1. PlaceOK(r)
    BY <1>2 DEF OnceOK
  <2>2. \A e \in Dumpers : Holds(e, r)' => 
           \A o \in Names : InLog(o, r) => dumper'[e].name = o
    BY <1>2, <1>9, <1>10, <1>12, <2>1 DEF PlaceOK
  <2>3. ASSUME NEW e \in Dumpers, NEW f \in Dumpers, Holds(e, r)', Holds(f, r)'
        PROVE  dumper'[e].name = dumper'[f].name
    <3>1. CASE e = d \/ f = d
      BY <1>2, <1>10, <2>2, <2>3, <3>1
    <3>2. CASE e # d /\ f # d
      BY <1>9, <2>1, <2>3, <3>2 DEF PlaceOK
    <3> QED BY <3>1, <3>2
  <2> QED BY <1>11, <2>1, <2>2, <2>3 DEF PlaceOK
<1>15. ASSUME r \notin again' PROVE SentOnce(r)'
  <2>1. SentOnce(r)
    BY <1>2, <1>6, <1>15 DEF OnceOK
  <2>2. ASSUME Holds(d, r)', NEW e \in Dumpers, Holds(e, r) PROVE FALSE
    <3>1. dumper[e].name = n
      BY <1>2, <1>10, <2>2 DEF OnceOK, PlaceOK
    <3>2. ReadByOther(d, n)
      BY <1>10, <2>2, <3>1 DEF ReadByOther, Holds
    <3> QED BY <1>6, <1>10, <1>15, <2>2, <3>2
  <2>3. \A e, f \in Dumpers : (Holds(e, r) /\ Holds(f, r) => e = f)'
    BY <1>9, <2>1, <2>2 DEF SentOnce
  <2>4. ASSUME Holds(d, r)' PROVE indexed[r] = 0
    <3>1. ~(indexed[r] > 0)
      <4>1. SUFFICES ASSUME indexed[r] > 0 PROVE FALSE
        OBVIOUS
      <4>2. PICK e \in Dumpers : HasSent(e, r)
        BY <1>2, <1>10, <2>1, <2>4, <4>1 DEF SentOnce
      <4>3. Holds(e, r)
        BY <1>2, <4>2, HasSentHolds
      <4> QED BY <2>2, <2>4, <4>3
    <3>2. indexed[r] \in Nat
      BY <1>2 DEF TypeOK
    <3> QED BY <3>1, <3>2
  <2>5. \A e \in Dumpers : (Holds(e, r) /\ dumper[e].at = "send" => indexed[r] = 0)'
    BY <1>6, <1>9, <2>1, <2>4 DEF SentOnce
  <2>6. ASSUME NEW o \in Names, indexed'[r] > 0, InLog(o, r)'
        PROVE  \E e \in Dumpers : HasSent(e, r)'
    <3>1. PICK e \in Dumpers : HasSent(e, r)
      BY <1>6, <1>11, <2>1, <2>6 DEF SentOnce
    <3> QED BY <1>9, <1>10, <3>1
  <2>7. (indexed[r] <= 1)'
    BY <1>6, <2>1 DEF SentOnce
  <2> QED BY <2>3, <2>5, <2>6, <2>7 DEF SentOnce
<1> QED BY <1>13, <1>14, <1>15 DEF OnceOK

\* A step that is not of the dumper, and brings r into no object.
LEMMA StillOnce ==
  ASSUME OnceInv, NEW r \in Requests,
         UNCHANGED <<long, dumper, indexed, again>>,
         request[r] = Done => request'[r] = Done,
         \A n \in Names : InLog(n, r)' => InLog(n, r)
  PROVE  OnceOK(r)'
<1>1. OnceOK(r) /\ (request[r] # Done => indexed'[r] = 0)
  BY DEF OnceInv, OnceOK, NewOK
<1>2. ASSUME NEW d \in Dumpers
      PROVE  /\ Holds(d, r)' <=> Holds(d, r)
             /\ HasSent(d, r)' <=> HasSent(d, r)
             /\ dumper'[d].name = dumper[d].name /\ dumper'[d].at = dumper[d].at
  BY ScannedKept DEF Holds, HasSent
<1>3. /\ r \in again => r \in again'
      /\ r \notin again' => indexed'[r] = indexed[r]
  OBVIOUS
<1>4. \A d \in Dumpers : Holds(d, r)' =>
         Holds(d, r) /\ dumper'[d].name = dumper[d].name /\ dumper'[d].at = dumper[d].at
  BY <1>2
<1>5. \A d \in Dumpers, n \in Names :
         r \notin again' /\ HasSent(d, r) /\ InLog(n, r)' => HasSent(d, r)'
  BY <1>2
<1> QED BY <1>1, <1>3, <1>4, <1>5, LessHeld

LEMMA AppendOnce ==
  ASSUME OnceInv, NEW r \in Requests, NEW new \in Requests, AppendLine(new)
  PROVE  OnceOK(r)'
<1>0. PICK n : n = request[new].name
  OBVIOUS
<1> DEFINE l == Len(log[n])
<1>1. TypeOK /\ OnceOK(r)
  BY DEF OnceInv, LossInv
<1>2. /\ n \in Names /\ l \in Nat /\ Len(log'[n]) = l + 1
      /\ \A k \in 1 .. l : log'[n][k] = log[n][k]
      /\ log'[n][l + 1] = new
      /\ \A o \in Names : o # n => log'[o] = log[o]
  BY <1>0, <1>1, Appended
<1>3. /\ UNCHANGED <<long, dumper, indexed, again>>
      /\ request' = [request EXCEPT ![new] = Done]
      /\ request[new].at = "answered" /\ log' = [log EXCEPT ![n] = Append(@, new)]
  BY <1>0 DEF AppendLine, setting, results
<1>4. \A x : x \in ToSet(log[n]) <=> \E i \in 1 .. l : log[n][i] = x
  BY <1>1, <1>2, LinesOf DEF TypeOK
<1> HIDE DEF l
<1>5. \A x : x \in ToSet(log'[n]) <=> \E i \in 1 .. l + 1 : log'[n][i] = x
  <2>1. Append(log[n], new) \in Seq(Requests) /\ log'[n] = Append(log[n], new)
    BY <1>1, <1>2, <1>3, AppendProperties DEF TypeOK
  <2>2. log'[n] \in Seq(Requests)
    BY <2>1
  <2> QED BY <1>2, <2>2, LinesOf
<1>6. \A o \in Names : o # n => (InLog(o, r)' <=> InLog(o, r))
  BY <1>2 DEF InLog
<1>7. r # new => (InLog(n, r)' => InLog(n, r))
  <2>1. SUFFICES ASSUME r # new, r \in ToSet(log'[n]) PROVE r \in ToSet(log[n])
    BY DEF InLog
  <2>2. PICK i \in 1 .. l + 1 : log'[n][i] = r
    BY <1>5, <2>1
  <2>3. i \in 1 .. l
    BY <1>2, <2>1, <2>2
  <2> QED BY <1>2, <1>4, <2>2, <2>3
<1>8. CASE r # new
  <2>1. \A o \in Names : InLog(o, r)' => InLog(o, r)
    BY <1>6, <1>7, <1>8
  <2>2. request'[r] = request[r]
    BY <1>1, <1>3, <1>8 DEF TypeOK
  <2> QED BY <1>3, <2>1, <2>2, StillOnce
<1>9. CASE r = new
  <2>1. request[r] # Done /\ request'[r] = Done
    BY <1>1, <1>3, <1>9 DEF TypeOK, Done
  <2>2. /\ indexed'[r] = 0
        /\ \A o \in Names : ~InLog(o, r)
        /\ \A d \in Dumpers : ~Holds(d, r)
    BY <1>1, <1>3, <2>1 DEF OnceOK, NewOK
  <2>3. \A o \in Names : InLog(o, r)' => o = n
    BY <1>6, <2>2
  <2>4. \A d \in Dumpers : ~Holds(d, r)'
    BY <1>3, <2>2 DEF Holds
  <2>5. NewOK(r)'
    BY <2>1 DEF NewOK
  <2>6. PlaceOK(r)'
    BY <2>3, <2>4 DEF PlaceOK
  <2>7. SentOnce(r)'
    BY <2>2, <2>4 DEF SentOnce
  <2> QED BY <2>5, <2>6, <2>7 DEF OnceOK
<1> QED BY <1>8, <1>9

LEMMA NextOnce == OnceInv /\ [Next]_vars => OnceInv'
<1>1. SUFFICES ASSUME OnceInv, [Next]_vars PROVE OnceInv'
  OBVIOUS
<1>2. LossInv /\ TypeOK
  BY <1>1 DEF OnceInv, LossInv
<1>3. LossInv'
  BY <1>1, <1>2, NextLoss
<1>4. SUFFICES ASSUME NEW r \in Requests PROVE OnceOK(r)'
  BY <1>3 DEF OnceInv
<1>5. CASE UNCHANGED vars
  BY <1>1, <1>5, StillOnce DEF vars, setting, lines, results, InLog
<1>6. CASE Tick
  BY <1>1, <1>6, StillOnce DEF Tick, setting, lines, results, InLog
<1>7. ASSUME NEW new \in Requests, NoLine(new) PROVE OnceOK(r)'
  BY <1>1, <1>2, <1>7, StillOnce DEF NoLine, setting, results, InLog, TypeOK
<1>8. ASSUME NEW new \in Requests, NEW b \in Buckets, NEW h \in Hours,
             Answered(new, b, h)
      PROVE  OnceOK(r)'
  <2>1. request[r] = Done => request'[r] = Done
    BY <1>2, <1>8 DEF Answered, TypeOK, NotYet, Done
  <2> QED BY <1>1, <1>8, <2>1, StillOnce DEF Answered, setting, results, InLog
<1>9. ASSUME NEW new \in Requests, AppendLine(new) PROVE OnceOK(r)'
  BY <1>1, <1>9, AppendOnce
<1>10. ASSUME NEW d \in Dumpers, Dump(d) \/ DumpFails(d) PROVE OnceOK(r)'
  <2>1. CASE Start(d) \/ (\E n \in Names : Stat(d, n)) \/ Ends(d) \/ Crash(d)
             \/ ReadFails(d)
    BY <1>1, <2>1, ListingOnce
  <2>2. CASE Read(d)
    BY <1>1, <2>2, ReadingOnce
  <2>3. CASE SendFails(d) \/ (Send(d) /\ Scanned(d) = {}) \/ Delete(d) \/ DeleteFails(d)
    BY <1>1, <2>3, PassingOnce DEF SendFails, Send, Delete, DeleteFails
  <2>4. CASE Send(d) /\ Scanned(d) # {}
    BY <1>1, <2>4, SendingOnce DEF Send, At, setting, lines
  <2>5. CASE SendRefused(d)
    <3>1. PICK taken \in SUBSET Scanned(d) : Index(taken)
      BY <2>5 DEF SendRefused
    <3> QED BY <1>1, <2>5, <3>1, SendingOnce DEF SendRefused, At, setting, lines
  <2> QED BY <1>10, <2>1, <2>2, <2>3, <2>4, <2>5 DEF Dump, DumpFails
<1> QED BY <1>1, <1>5, <1>6, <1>7, <1>8, <1>9, <1>10 DEF Next, LoggingOps

LEMMA OnceInvHolds == Spec => []OnceInv
  BY InitOnce, NextOnce, PTL DEF Spec

\* For any number of runs of the dumper at once and of failing calls: a line is twice in
\* Elasticsearch only when a run did not delete what it had sent, or two runs had read
\* the object.
THEOREM LinesAreIndexedOnce == Spec => []IndexedOnce
<1>1. OnceInv => IndexedOnce
  BY DEF OnceInv, OnceOK, SentOnce, IndexedOnce
<1> QED BY <1>1, OnceInvHolds, PTL
=============================================================================
