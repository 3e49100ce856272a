------------------------- MODULE MessageQueueProofs -------------------------
(***************************************************************************)
(* What QueueService and MessageQueue do for every set of clients and     *)
(* requests, every cap and every number of events and faults, and          *)
(* QueueLifetime for every number of queues that come and go.              *)
(***************************************************************************)
EXTENDS QueueLifetime, SequenceTheorems, TLAPS

\* The batch size is between 1 and the cap whatever the client asks for.
LEMMA BatchSizeRange == \A raw : BatchSize(raw) \in 1 .. MaxBatch
  BY BatchAssumption DEF BatchSize, Smaller

\* LTRIM s n -1 keeps what follows the first n elements.
LEMMA DropProperties ==
  ASSUME NEW s \in Seq(Nat), NEW n \in Nat
  PROVE  /\ SubSeq(s, n + 1, Len(s)) \in Seq(Nat)
         /\ Len(SubSeq(s, n + 1, Len(s))) =
              IF n < Len(s) THEN Len(s) - n ELSE 0
         /\ \A i \in 1 .. Len(s) - n : SubSeq(s, n + 1, Len(s))[i] = s[n + i]
<1>1. \A i \in n + 1 .. Len(s) : s[i] \in Nat
  OBVIOUS
<1>2. n + 1 \in Int /\ Len(s) \in Int
  OBVIOUS
<1>3. /\ SubSeq(s, n + 1, Len(s)) \in Seq(Nat)
      /\ Len(SubSeq(s, n + 1, Len(s))) =
           IF n + 1 <= Len(s) THEN Len(s) - (n + 1) + 1 ELSE 0
      /\ \A i \in 1 .. Len(s) - (n + 1) + 1 :
            SubSeq(s, n + 1, Len(s))[i] = s[(n + 1) + i - 1]
  BY <1>1, <1>2, SubSeqProperties
<1> QED BY <1>3

\* LRANGE s 0 n-1 returns the first n elements, or all when there are fewer.
LEMMA TakeProperties ==
  ASSUME NEW s \in Seq(Nat), NEW n \in Nat
  PROVE  /\ SubSeq(s, 1, Smaller(n, Len(s))) \in Seq(Nat)
         /\ Len(SubSeq(s, 1, Smaller(n, Len(s)))) = Smaller(n, Len(s))
         /\ \A i \in 1 .. Smaller(n, Len(s)) :
               SubSeq(s, 1, Smaller(n, Len(s)))[i] = s[i]
<1> DEFINE k == Smaller(n, Len(s))
<1>1. k \in Nat /\ k <= Len(s)
  BY DEF Smaller
<1>2. \A i \in 1 .. k : s[i] \in Nat
  BY <1>1
<1> HIDE DEF k
<1>3. /\ SubSeq(s, 1, k) \in Seq(Nat)
      /\ Len(SubSeq(s, 1, k)) = IF 1 <= k THEN k - 1 + 1 ELSE 0
      /\ \A i \in 1 .. k - 1 + 1 : SubSeq(s, 1, k)[i] = s[1 + i - 1]
  BY <1>1, <1>2, SubSeqProperties
<1>4. \A i \in 1 .. k : SubSeq(s, 1, k)[i] = s[i]
  BY <1>1, <1>3
<1>5. Len(SubSeq(s, 1, k)) = k
  BY <1>1, <1>3
<1> QED BY <1>3, <1>4, <1>5 DEF k

\* Sequences that agree on the first n elements have the same head of length n.
LEMMA PrefixKept ==
  ASSUME NEW s \in Seq(Nat), NEW t \in Seq(Nat), NEW n \in Nat,
         n <= Len(s), n <= Len(t), \A i \in 1 .. Len(s) : t[i] = s[i]
  PROVE  SubSeq(s, 1, n) = SubSeq(t, 1, n)
<1>1. \A i \in 1 .. n : s[i] \in Nat /\ t[i] \in Nat /\ t[i] = s[i]
  OBVIOUS
<1>2. \A u \in Seq(Nat) : (\A i \in 1 .. n : u[i] \in Nat) =>
        /\ SubSeq(u, 1, n) \in Seq(Nat)
        /\ Len(SubSeq(u, 1, n)) = n
        /\ \A i \in 1 .. n : SubSeq(u, 1, n)[i] = u[i]
  <2> SUFFICES ASSUME NEW u \in Seq(Nat), \A i \in 1 .. n : u[i] \in Nat
               PROVE  /\ SubSeq(u, 1, n) \in Seq(Nat)
                      /\ Len(SubSeq(u, 1, n)) = n
                      /\ \A i \in 1 .. n : SubSeq(u, 1, n)[i] = u[i]
      OBVIOUS
  <2>1. /\ SubSeq(u, 1, n) \in Seq(Nat)
        /\ Len(SubSeq(u, 1, n)) = IF 1 <= n THEN n - 1 + 1 ELSE 0
        /\ \A i \in 1 .. n - 1 + 1 : SubSeq(u, 1, n)[i] = u[1 + i - 1]
    BY SubSeqProperties
  <2> QED BY <2>1
<1> DEFINE a == SubSeq(s, 1, n)
           b == SubSeq(t, 1, n)
<1>3. /\ a \in Seq(Nat) /\ b \in Seq(Nat) /\ Len(a) = n /\ Len(b) = n
      /\ \A i \in 1 .. n : a[i] = b[i]
  BY <1>1, <1>2
<1> HIDE DEF a, b
<1>4. a = b
  BY <1>3, SeqEqual
<1> QED BY <1>4 DEF a, b

-----------------------------------------------------------------------------
(* Type correctness and the shape of the list, proved together: trimmed     *)
(* stays within its bound only because it never passes sent.                *)

ListInv == TypeOK /\ ListIsUntrimmed

LEMMA FaultType == TypeOK /\ Fault => clean' \in BOOLEAN /\ faults' \in 0 .. MaxFaults
<1> SUFFICES ASSUME TypeOK, Fault
             PROVE  clean' \in BOOLEAN /\ faults' \in 0 .. MaxFaults
    OBVIOUS
<1>1. clean' \in BOOLEAN
  BY DEF Fault
<1>2. faults < MaxFaults /\ faults' = faults + 1 /\ faults \in 0 .. MaxFaults
  BY DEF Fault, TypeOK
<1>3. faults' \in 0 .. MaxFaults
  BY <1>2, BoundAssumption
<1> QED BY <1>1, <1>3

LEMMA ListInit == Init => ListInv
  BY BatchAssumption, BoundAssumption
  DEF Init, ListInv, TypeOK, ListIsUntrimmed

LEMMA ListNext == ListInv /\ [Next]_vars => ListInv'
<1> SUFFICES ASSUME TypeOK, ListIsUntrimmed, [Next]_vars
             PROVE  ListInv'
    BY DEF ListInv
<1> USE BatchAssumption, BoundAssumption DEF ListInv
<1>1. CASE Push
  <2>1. TypeOK'
    BY <1>1 DEF Push, TypeOK, Enqueue
  <2>2. list' = Append(list, sent + 1) /\ sent' = sent + 1
    BY <1>1 DEF Push, Enqueue
  <2>3. /\ Len(list') = Len(list) + 1
        /\ list'[Len(list) + 1] = sent + 1
        /\ \A i \in 1 .. Len(list) : list'[i] = list[i]
    BY <2>2 DEF TypeOK
  <2>4. trimmed' = trimmed
    BY <1>1 DEF Push, Enqueue
  <2>5. sent \in Nat /\ trimmed \in Nat /\ Len(list) = sent - trimmed
    BY DEF TypeOK, ListIsUntrimmed
  <2>6. ASSUME NEW i \in 1 .. Len(list')
        PROVE  list'[i] = trimmed' + i
    <3>1. CASE i = Len(list) + 1
      BY <3>1, <2>3, <2>4, <2>5
    <3>2. CASE i \in 1 .. Len(list)
      BY <3>2, <2>3, <2>4 DEF ListIsUntrimmed
    <3> QED BY <2>3, <2>5, <3>1, <3>2
  <2>7. ListIsUntrimmed'
    BY <2>2, <2>3, <2>4, <2>5, <2>6 DEF ListIsUntrimmed
  <2> QED BY <2>1, <2>7
<1>2. CASE Restart
  <2>1. TypeOK'
    BY <1>2, FaultType DEF Restart, TypeOK
  <2>2. ListIsUntrimmed'
    BY <1>2 DEF Restart, ListIsUntrimmed
  <2> QED BY <2>1, <2>2
<1>3. ASSUME NEW r \in Receivers, NEW raw \in Requests, Read(r, raw)
      PROVE  ListInv'
  <2>1. BatchSize(raw) \in 1 .. MaxBatch
    BY BatchSizeRange
  <2>2. SubSeq(list, 1, Smaller(BatchSize(raw), Len(list))) \in Seq(Nat)
    <3>1. BatchSize(raw) \in Nat
      BY <2>1
    <3>2. list \in Seq(Nat)
      BY DEF TypeOK
    <3> QED BY <3>1, <3>2, TakeProperties
  <2>3. TypeOK'
    BY <1>3, <2>1, <2>2 DEF Read, TypeOK, HaveRead, FirstOf
  <2>4. ListIsUntrimmed'
    BY <1>3 DEF Read, ListIsUntrimmed, HaveRead, FirstOf
  <2> QED BY <2>3, <2>4
<1>4. ASSUME NEW r \in Receivers, NEW raw \in Requests, ReadFails(r, raw)
      PROVE  ListInv'
  <2>1. TypeOK'
    BY <1>4, BatchSizeRange, FaultType DEF ReadFails, TypeOK, HaveRead
  <2>2. ListIsUntrimmed'
    BY <1>4 DEF ReadFails, ListIsUntrimmed, HaveRead
  <2> QED BY <2>1, <2>2
<1>5. ASSUME NEW r \in Receivers, Trim(r)
      PROVE  ListInv'
  <2> DEFINE n == max[r]
  <2>1. n \in Nat \ {0} /\ list \in Seq(Nat) /\ Len(list) \in Nat
    BY DEF TypeOK
  <2>2. list' = SubSeq(list, n + 1, Len(list))
    BY <1>5 DEF Trim, TrimBy
  <2>3. trimmed' = trimmed + Smaller(n, Len(list)) /\ sent' = sent
    BY <1>5 DEF Trim, TrimBy
  <2>4. /\ sent \in 0 .. MaxSent /\ trimmed \in Nat
        /\ Len(list) = sent - trimmed
        /\ \A i \in 1 .. Len(list) : list[i] = trimmed + i
    BY DEF TypeOK, ListIsUntrimmed
  <2> HIDE DEF n
  <2>5. /\ list' \in Seq(Nat)
        /\ Len(list') = IF n < Len(list) THEN Len(list) - n ELSE 0
        /\ \A i \in 1 .. Len(list) - n : list'[i] = list[n + i]
    BY <2>1, <2>2, DropProperties
  <2>6. trimmed' \in 0 .. MaxSent
    BY <2>1, <2>3, <2>4 DEF Smaller
  <2>7. clean' \in BOOLEAN
    BY <1>5 DEF Trim, TypeOK, TrimBy
  <2>8. TypeOK'
    BY <1>5, <2>5, <2>6, <2>7 DEF Trim, TypeOK, TrimBy
  <2>9. Len(list') = sent' - trimmed'
    BY <2>1, <2>3, <2>4, <2>5 DEF Smaller
  <2>10. \A i \in 1 .. Len(list') : list'[i] = trimmed' + i
    BY <2>1, <2>3, <2>4, <2>5 DEF Smaller
  <2> QED BY <2>8, <2>9, <2>10 DEF ListIsUntrimmed
<1>6. ASSUME NEW r \in Receivers, TrimFails(r)
      PROVE  ListInv'
  <2>1. TypeOK'
    BY <1>6, FaultType DEF TrimFails, TypeOK
  <2>2. ListIsUntrimmed'
    BY <1>6 DEF TrimFails, ListIsUntrimmed
  <2> QED BY <2>1, <2>2
<1>7. ASSUME NEW r \in Receivers, Reply(r)
      PROVE  ListInv'
  <2>1. got[r] \o batch[r] \in Seq(Nat)
    BY DEF TypeOK
  <2> QED BY <1>7, <2>1 DEF Reply, TypeOK, ListIsUntrimmed, Finish
<1>8. ASSUME NEW r \in Receivers, ReplyLost(r)
      PROVE  ListInv'
  <2>1. TypeOK'
    BY <1>8, FaultType DEF ReplyLost, TypeOK, Finish
  <2>2. ListIsUntrimmed'
    BY <1>8 DEF ReplyLost, ListIsUntrimmed, Finish
  <2> QED BY <2>1, <2>2
<1>9. CASE UNCHANGED vars
  BY <1>9 DEF vars, TypeOK, ListIsUntrimmed
<1> QED BY <1>1, <1>2, <1>3, <1>4, <1>5, <1>6, <1>7, <1>8, <1>9 DEF Next

LEMMA ListInvHolds == Spec => []ListInv
BY ListInit, ListNext, PTL DEF Spec

\* Every variable has its type, whatever races, fails or is restarted.
THEOREM TypeCorrect == Spec => []TypeOK
<1>1. ListInv => TypeOK
  BY DEF ListInv
<1> QED BY <1>1, ListInvHolds, PTL

\* The list holds exactly the events no trim has removed, in order: trims remove from the
\* head and never past the end.
THEOREM ListCorrect == Spec => []ListIsUntrimmed
<1>1. ListInv => ListIsUntrimmed
  BY DEF ListInv
<1> QED BY <1>1, ListInvHolds, PTL

-----------------------------------------------------------------------------
(* The order in which one client gets its events. *)

AtMost(s, n) == \A i \in 1 .. Len(s) : s[i] <= n
Ascending(s) == \A i, j \in 1 .. Len(s) : i < j => s[i] < s[j]
Before(s, t) == \A i \in 1 .. Len(s), j \in 1 .. Len(t) : s[i] < t[j]

\* What a handler has read is ascending, has been pushed, and is no further
\* from the head than its trim reaches.
WindowOK(r) ==
    /\ Ascending(batch[r])
    /\ AtMost(batch[r], sent)
    /\ pc[r] = "idle" => batch[r] = <<>>
    /\ pc[r] = "trim" => AtMost(batch[r], trimmed + max[r])

\* Unless a trim of r failed, what r has and what it is about to get is
\* already trimmed, and the first comes before the second.
HistoryOK(r) ==
    /\ pc[r] = "reply" => AtMost(batch[r], trimmed)
    /\ AtMost(got[r], trimmed)
    /\ Before(got[r], batch[r])
    /\ Ascending(got[r])

OrderInv == \A r \in Receivers : WindowOK(r) /\ (r \notin missed => HistoryOK(r))

\* The steps of r's handler touch the order of r alone; every step leaves the
\* histories where they are or moves sent and trimmed up.
LEMMA OrderKept ==
  ASSUME ListInv, ListInv', sent <= sent', trimmed <= trimmed',
         NEW r \in Receivers, WindowOK(r), r \notin missed => HistoryOK(r),
         pc'[r] = pc[r], batch'[r] = batch[r], max'[r] = max[r],
         got'[r] = got[r], r \in missed => r \in missed'
  PROVE  WindowOK(r)' /\ (r \notin missed' => HistoryOK(r)')
<1>1. /\ sent \in Nat /\ sent' \in Nat /\ trimmed \in Nat /\ trimmed' \in Nat
      /\ max[r] \in Nat /\ batch[r] \in Seq(Nat) /\ got[r] \in Seq(Nat)
  BY BatchAssumption DEF ListInv, TypeOK
<1>2. \A s \in Seq(Nat), m, n \in Nat : AtMost(s, m) /\ m <= n => AtMost(s, n)
  BY DEF AtMost
<1>3. trimmed + max[r] <= trimmed' + max'[r]
  BY <1>1
<1>4. WindowOK(r)'
  BY <1>1, <1>2, <1>3 DEF WindowOK
<1>5. r \notin missed => HistoryOK(r)'
  BY <1>1, <1>2 DEF HistoryOK
<1> QED BY <1>4, <1>5

LEMMA OrderInit == Init => OrderInv
<1> SUFFICES ASSUME Init, NEW r \in Receivers
             PROVE  WindowOK(r) /\ HistoryOK(r)
    BY DEF OrderInv
<1>1. batch[r] = <<>> /\ got[r] = <<>> /\ pc[r] = "idle"
  BY DEF Init
<1>2. Len(<<>>) = 0
  OBVIOUS
<1> QED BY <1>1, <1>2 DEF WindowOK, HistoryOK, AtMost, Ascending, Before

\* The types that the arithmetic needs.
LEMMA ListTypes ==
  ASSUME ListInv, NEW c \in Receivers
  PROVE  /\ sent \in Nat /\ trimmed \in Nat /\ max[c] \in Nat
         /\ batch[c] \in Seq(Nat) /\ got[c] \in Seq(Nat)
         /\ list \in Seq(Nat) /\ Len(list) = sent - trimmed
<1>1. max[c] \in 1 .. MaxBatch /\ MaxBatch \in Nat
  BY BatchAssumption DEF ListInv, TypeOK
<1>2. sent \in 0 .. MaxSent /\ trimmed \in 0 .. MaxSent /\ MaxSent \in Nat
  BY BoundAssumption DEF ListInv, TypeOK
<1>3. batch[c] \in Seq(Nat) /\ got[c] \in Seq(Nat) /\ list \in Seq(Nat)
  BY DEF ListInv, TypeOK
<1>4. Len(list) = sent - trimmed
  BY DEF ListInv, ListIsUntrimmed
<1> QED BY <1>1, <1>2, <1>3, <1>4

LEMMA OrderNext ==
  ASSUME ListInv, ListInv', OrderInv, [Next]_vars
  PROVE  OrderInv'
<1> SUFFICES ASSUME NEW c \in Receivers
             PROVE  WindowOK(c)' /\ (c \notin missed' => HistoryOK(c)')
    BY DEF OrderInv
<1>a. WindowOK(c) /\ (c \notin missed => HistoryOK(c))
  BY DEF OrderInv
<1>b. /\ sent \in Nat /\ trimmed \in Nat /\ max[c] \in Nat
      /\ batch[c] \in Seq(Nat) /\ got[c] \in Seq(Nat)
      /\ list \in Seq(Nat) /\ Len(list) = sent - trimmed
  BY ListTypes
<1>c. Len(<<>>) = 0
  OBVIOUS
<1>0. ASSUME batch'[c] = <<>>, got'[c] = got[c], pc'[c] # "reply",
             sent' = sent, trimmed' = trimmed, missed' = missed
      PROVE  WindowOK(c)' /\ (c \notin missed' => HistoryOK(c)')
  BY <1>0, <1>a, <1>c
  DEF WindowOK, HistoryOK, AtMost, Ascending, Before
<1>1. CASE Push
  BY <1>1, <1>a, <1>b, OrderKept DEF Push, Enqueue
<1>2. CASE Restart
  BY <1>2, <1>0 DEF Restart
<1>3. ASSUME NEW r \in Receivers, NEW raw \in Requests, Read(r, raw)
      PROVE  WindowOK(c)' /\ (c \notin missed' => HistoryOK(c)')
  <2>1. CASE c # r
    BY <2>1, <1>3, <1>a, <1>b, OrderKept DEF Read, ListInv, TypeOK, HaveRead, FirstOf
  <2>2. CASE c = r
    <3> DEFINE n == BatchSize(raw)
               t == SubSeq(list, 1, Smaller(n, Len(list)))
    <3>1. n \in Nat
      BY BatchSizeRange
    <3>2. /\ batch'[c] = t /\ max'[c] = n /\ pc'[c] = "trim"
          /\ got'[c] = got[c] /\ sent' = sent /\ trimmed' = trimmed
          /\ missed' = missed
      BY <2>2, <1>3 DEF Read, ListInv, TypeOK, HaveRead, FirstOf
    <3>3. \A i \in 1 .. Len(list) : list[i] = trimmed + i
      BY DEF ListInv, ListIsUntrimmed
    <3> HIDE DEF n
    <3>4. /\ t \in Seq(Nat) /\ Len(t) <= n /\ Len(t) <= Len(list)
          /\ \A i \in 1 .. Len(t) : t[i] = trimmed + i
      BY <3>1, <3>3, <1>b, TakeProperties DEF Smaller
    <3> HIDE DEF t
    <3>5. WindowOK(c)'
      <4>1. /\ sent \in Nat /\ trimmed \in Nat /\ n \in Nat
            /\ Len(t) \in Nat /\ Len(t) <= n /\ Len(t) <= sent - trimmed
            /\ \A i \in 1 .. Len(t) : t[i] = trimmed + i
        BY <3>1, <3>4, <1>b, LenProperties
      <4>2. Ascending(t) /\ AtMost(t, sent) /\ AtMost(t, trimmed + n)
        BY <4>1 DEF Ascending, AtMost
      <4> QED BY <3>2, <4>2 DEF WindowOK, AtMost, Ascending
    <3>6. ASSUME c \notin missed
          PROVE  HistoryOK(c)'
      <4>1. \A i \in 1 .. Len(got[c]) : got[c][i] \in Nat /\ got[c][i] <= trimmed
        BY <3>6, <1>a, <1>b DEF HistoryOK, AtMost
      <4>2. ASSUME NEW i \in 1 .. Len(got[c]), NEW j \in 1 .. Len(t)
            PROVE  got[c][i] < t[j]
        <5>1. got[c][i] \in Nat /\ got[c][i] <= trimmed
          BY <4>1
        <5>2. t[j] = trimmed + j /\ j \in Nat \ {0}
          BY <3>4
        <5>3. trimmed \in Nat
          BY <1>b
        <5> QED BY <5>1, <5>2, <5>3
      <4>3. Before(got[c], t)
        BY <4>2 DEF Before
      <4> QED BY <3>2, <3>6, <4>3, <1>a DEF HistoryOK, AtMost, Before, Ascending
    <3> QED BY <3>2, <3>5, <3>6
  <2> QED BY <2>1, <2>2
<1>4. ASSUME NEW r \in Receivers, NEW raw \in Requests, ReadFails(r, raw)
      PROVE  WindowOK(c)' /\ (c \notin missed' => HistoryOK(c)')
  <2>1. CASE c # r
    BY <2>1, <1>4, <1>a, <1>b, OrderKept DEF ReadFails, ListInv, TypeOK, HaveRead
  <2>2. CASE c = r
    BY <2>2, <1>4, <1>0 DEF ReadFails, ListInv, TypeOK, HaveRead
  <2> QED BY <2>1, <2>2
<1>5. ASSUME NEW r \in Receivers, Trim(r)
      PROVE  WindowOK(c)' /\ (c \notin missed' => HistoryOK(c)')
  <2>1. trimmed' = trimmed + Smaller(max[r], Len(list)) /\ sent' = sent
    BY <1>5 DEF Trim, TrimBy
  <2>2. trimmed <= trimmed'
    <3>0. max \in [Receivers -> 1 .. MaxBatch]
      BY DEF ListInv, TypeOK
    <3>1. max[r] \in Nat
      BY <3>0, BatchAssumption
    <3> QED BY <2>1, <3>1, <1>b DEF Smaller
  <2>3. CASE c # r
    <3>1. /\ pc'[c] = pc[c] /\ batch'[c] = batch[c] /\ max'[c] = max[c]
          /\ got'[c] = got[c] /\ missed' = missed
      BY <2>3, <1>5 DEF Trim, ListInv, TypeOK, TrimBy
    <3>2. sent <= sent'
      BY <2>1, <1>b
    <3> QED BY <3>1, <3>2, <2>2, <1>a, OrderKept
  <2>4. CASE c = r
    <3>1. /\ batch'[c] = batch[c] /\ got'[c] = got[c] /\ missed' = missed
          /\ pc[c] = "trim" /\ pc'[c] = "reply"
      BY <2>4, <1>5 DEF Trim, ListInv, TypeOK, TrimBy
    <3>2. \A i \in 1 .. Len(batch[c]) :
            batch[c][i] \in Nat /\ batch[c][i] <= sent
                               /\ batch[c][i] <= trimmed + max[c]
      BY <3>1, <1>a, <1>b DEF WindowOK, AtMost
    <3>3. \A i \in 1 .. Len(batch[c]) : batch[c][i] <= trimmed'
      BY <3>2, <2>1, <2>4, <1>b DEF Smaller
    <3>4. \A i \in 1 .. Len(got[c]) : got[c][i] \in Nat
      BY <1>b
    <3>5. trimmed' \in Nat
      BY <2>1, <2>4, <1>b DEF Smaller
    <3>6. WindowOK(c)'
      BY <3>1, <2>1, <1>a DEF WindowOK, AtMost, Ascending
    <3>7. c \notin missed => HistoryOK(c)'
      BY <3>1, <3>3, <3>4, <3>5, <2>2, <1>a, <1>b
      DEF HistoryOK, AtMost, Before, Ascending
    <3> QED BY <3>1, <3>6, <3>7
  <2> QED BY <2>3, <2>4
<1>6. ASSUME NEW r \in Receivers, TrimFails(r)
      PROVE  WindowOK(c)' /\ (c \notin missed' => HistoryOK(c)')
  <2>1. CASE c # r
    BY <2>1, <1>6, <1>a, <1>b, OrderKept DEF TrimFails, ListInv, TypeOK
  <2>2. CASE c = r
    BY <2>2, <1>6, <1>a
    DEF TrimFails, WindowOK, AtMost, Ascending, ListInv, TypeOK
  <2> QED BY <2>1, <2>2
<1>7. ASSUME NEW r \in Receivers, Reply(r)
      PROVE  WindowOK(c)' /\ (c \notin missed' => HistoryOK(c)')
  <2>1. CASE c # r
    BY <2>1, <1>7, <1>a, <1>b, OrderKept DEF Reply, ListInv, TypeOK, Finish
  <2>2. CASE c = r
    <3>1. /\ batch'[c] = <<>> /\ got'[c] = got[c] \o batch[c]
          /\ missed' = missed /\ sent' = sent /\ trimmed' = trimmed
          /\ pc[c] = "reply" /\ pc'[c] = "idle"
      BY <2>2, <1>7 DEF Reply, ListInv, TypeOK, Finish
    <3>2. WindowOK(c)'
      BY <3>1, <1>c DEF WindowOK, AtMost, Ascending
    <3>3. ASSUME c \notin missed
          PROVE  HistoryOK(c)'
      <4> DEFINE g == got[c]
                 b == batch[c]
      <4>1. /\ AtMost(g, trimmed) /\ AtMost(b, trimmed)
            /\ Before(g, b) /\ Ascending(g) /\ Ascending(b)
        BY <3>1, <3>3, <1>a DEF WindowOK, HistoryOK
      <4>2. g \in Seq(Nat) /\ b \in Seq(Nat)
        BY <1>b
      <4>3. /\ Len(g \o b) = Len(g) + Len(b)
            /\ \A i \in 1 .. Len(g) + Len(b) :
                 (g \o b)[i] = IF i <= Len(g) THEN g[i] ELSE b[i - Len(g)]
        BY <4>2, ConcatProperties
      <4> HIDE DEF g, b
      <4>4. AtMost(g \o b, trimmed)
        BY <4>1, <4>2, <4>3 DEF AtMost
      <4>5. ASSUME NEW i \in 1 .. Len(g \o b), NEW j \in 1 .. Len(g \o b),
                   i < j
            PROVE  (g \o b)[i] < (g \o b)[j]
        <5>1. CASE j <= Len(g)
          BY <5>1, <4>1, <4>2, <4>3, <4>5 DEF Ascending
        <5>2. CASE i <= Len(g) /\ j > Len(g)
          <6>1. i \in 1 .. Len(g) /\ j - Len(g) \in 1 .. Len(b)
            BY <5>2, <4>2, <4>3
          <6> QED BY <6>1, <5>2, <4>1, <4>3 DEF Before
        <5>3. CASE i > Len(g)
          <6>1. /\ i - Len(g) \in 1 .. Len(b) /\ j - Len(g) \in 1 .. Len(b)
                /\ i - Len(g) < j - Len(g)
            BY <5>3, <4>2, <4>3, <4>5
          <6>2. b[i - Len(g)] < b[j - Len(g)]
            BY <6>1, <4>1 DEF Ascending
          <6>3. (g \o b)[i] = b[i - Len(g)] /\ (g \o b)[j] = b[j - Len(g)]
            BY <5>3, <4>2, <4>3, <4>5
          <6> QED BY <6>2, <6>3
        <5> QED BY <5>1, <5>2, <5>3, <4>2, <4>3
      <4>6. Ascending(g \o b)
        BY <4>5 DEF Ascending
      <4> QED BY <3>1, <4>4, <4>6, <1>c DEF HistoryOK, Before, g, b
    <3> QED BY <3>1, <3>2, <3>3
  <2> QED BY <2>1, <2>2
<1>8. ASSUME NEW r \in Receivers, ReplyLost(r)
      PROVE  WindowOK(c)' /\ (c \notin missed' => HistoryOK(c)')
  <2>1. CASE c # r
    BY <2>1, <1>8, <1>a, <1>b, OrderKept DEF ReplyLost, ListInv, TypeOK, Finish
  <2>2. CASE c = r
    BY <2>2, <1>8, <1>0 DEF ReplyLost, ListInv, TypeOK, Finish
  <2> QED BY <2>1, <2>2
<1>9. CASE UNCHANGED vars
  BY <1>9, <1>a, <1>b, OrderKept DEF vars
<1> QED BY <1>1, <1>2, <1>3, <1>4, <1>5, <1>6, <1>7, <1>8, <1>9 DEF Next

\* A client none of whose trims failed gets the events in the order they were
\* pushed and none twice, whatever the other clients, the producers, failures
\* and restarts do between its LRANGE and its LTRIM.
THEOREM ClientOrderHolds == Spec => [](ClientOrder /\ TrimCoversRead)
<1>1. Init => ListInv /\ OrderInv
  BY ListInit, OrderInit
<1>2. ListInv /\ OrderInv /\ [Next]_vars => ListInv' /\ OrderInv'
  BY ListNext, OrderNext
<1>3. OrderInv => ClientOrder /\ TrimCoversRead
  BY DEF OrderInv, WindowOK, HistoryOK, AtMost, Ascending, ClientOrder,
         TrimCoversRead
<1> QED BY <1>1, <1>2, <1>3, PTL DEF Spec
-----------------------------------------------------------------------------
(* The queue of QueueService keeps what it promises. *)

\* Events leave the queue in the order of their numbers: the first `Taken' of
\* them are in the inboxes and the others wait.
Taken == sent - Len(list)

ServiceTypes ==
    /\ sent \in Nat
    /\ list \in Seq(Nat)
    /\ Inbox \in [Receivers -> Seq(Nat)]
    /\ Taken \in Nat

QueueInv == \A i \in 1 .. Len(list) : list[i] = Taken + i

InboxInv ==
    /\ \A r \in Receivers : \A i \in 1 .. Len(Inbox[r]) : Inbox[r][i] \in 1 .. Taken
    /\ \A m \in 1 .. Taken : \E r \in Receivers : Q!InInbox(r, m)
    /\ \A r, s \in Receivers : r # s =>
          \A i \in 1 .. Len(Inbox[r]), j \in 1 .. Len(Inbox[s]) :
              Inbox[r][i] # Inbox[s][j]

ServiceInv == ServiceTypes /\ QueueInv /\ InboxInv /\ Q!InOrder

LEMMA ServiceInit == Q!Init => ServiceInv
<1> SUFFICES ASSUME Q!Init PROVE ServiceInv
    OBVIOUS
<1>1. list = <<>> /\ Len(list) = 0 /\ sent = 0 /\ Taken = 0
  <2>1. list = <<>> /\ sent = 0 /\ Len(<<>>) = 0
    BY DEF Q!Init
  <2>2. Len(list) = 0
    BY <2>1
  <2>3. Taken = 0 - 0
    BY <2>1, <2>2 DEF Taken
  <2> QED BY <2>1, <2>2, <2>3
<1>2. \A r \in Receivers : Inbox[r] = <<>> /\ Len(Inbox[r]) = 0
  BY DEF Q!Init
<1>3. ServiceTypes
  BY <1>1 DEF Q!Init, ServiceTypes
<1>4. QueueInv /\ InboxInv /\ Q!InOrder
  BY <1>1, <1>2 DEF QueueInv, InboxInv, Q!InOrder
<1> QED BY <1>3, <1>4 DEF ServiceInv

LEMMA SendKeeps ==
  ASSUME ServiceInv, Q!Send
  PROVE  ServiceInv'
<1>1. /\ list' = Append(list, sent + 1) /\ sent' = sent + 1
      /\ Inbox' = Inbox
  BY DEF Q!Send
<1>2. /\ sent \in Nat /\ list \in Seq(Nat) /\ Taken \in Nat
      /\ Inbox \in [Receivers -> Seq(Nat)]
  BY DEF ServiceInv, ServiceTypes
<1>3. /\ list' \in Seq(Nat) /\ Len(list') = Len(list) + 1
      /\ \A i \in 1 .. Len(list) : list'[i] = list[i]
      /\ list'[Len(list) + 1] = sent + 1
  BY <1>1, <1>2
<1>4. Taken' = Taken
  BY <1>1, <1>2, <1>3 DEF Taken
<1>5. ServiceTypes'
  BY <1>1, <1>2, <1>3, <1>4 DEF ServiceTypes
<1>6. ASSUME NEW i \in 1 .. Len(list')
      PROVE  list'[i] = Taken' + i
  <2>1. CASE i = Len(list) + 1
    BY <2>1, <1>2, <1>3, <1>4 DEF Taken
  <2>2. CASE i \in 1 .. Len(list)
    BY <2>2, <1>3, <1>4 DEF ServiceInv, QueueInv
  <2> QED BY <1>2, <1>3, <2>1, <2>2
<1>7. InboxInv' /\ Q!InOrder'
  BY <1>1, <1>4 DEF ServiceInv, InboxInv, Q!InOrder, Q!InInbox
<1> QED BY <1>5, <1>6, <1>7 DEF ServiceInv, QueueInv

LEMMA TakeKeeps ==
  ASSUME ServiceInv, NEW r \in Receivers, NEW k \in Nat, Q!Take(r, k)
  PROVE  ServiceInv'
<1> DEFINE b == SubSeq(list, 1, k)
           g == Inbox[r]
<1>1. /\ list' = SubSeq(list, k + 1, Len(list)) /\ sent' = sent
      /\ Inbox' = [Inbox EXCEPT ![r] = g \o b] /\ k <= Len(list)
  BY DEF Q!Take
<1>2. /\ sent \in Nat /\ list \in Seq(Nat) /\ Taken \in Nat
      /\ Inbox \in [Receivers -> Seq(Nat)] /\ g \in Seq(Nat)
  BY DEF ServiceInv, ServiceTypes
<1>3. \A i \in 1 .. Len(list) : list[i] = Taken + i /\ list[i] \in Nat
  BY <1>2 DEF ServiceInv, QueueInv
<1>4. /\ list' \in Seq(Nat) /\ Len(list') = Len(list) - k
      /\ \A i \in 1 .. Len(list) - k : list'[i] = list[k + i]
  <2>1. \A i \in k + 1 .. Len(list) : list[i] \in Nat
    BY <1>3
  <2>2. /\ SubSeq(list, k + 1, Len(list)) \in Seq(Nat)
        /\ Len(SubSeq(list, k + 1, Len(list))) =
             IF k + 1 <= Len(list) THEN Len(list) - (k + 1) + 1 ELSE 0
        /\ \A i \in 1 .. Len(list) - (k + 1) + 1 :
             SubSeq(list, k + 1, Len(list))[i] = list[(k + 1) + i - 1]
    BY <1>2, <2>1, SubSeqProperties
  <2> QED BY <1>1, <1>2, <2>2
<1>5. /\ b \in Seq(Nat) /\ Len(b) = k
      /\ \A i \in 1 .. k : b[i] = Taken + i
  <2>1. \A i \in 1 .. k : list[i] \in Nat
    BY <1>1, <1>2, <1>3
  <2>2. /\ b \in Seq(Nat)
        /\ Len(b) = IF 1 <= k THEN k - 1 + 1 ELSE 0
        /\ \A i \in 1 .. k - 1 + 1 : b[i] = list[1 + i - 1]
    BY <1>2, <2>1, SubSeqProperties
  <2>3. \A i \in 1 .. k : b[i] = list[i] /\ i \in 1 .. Len(list)
    BY <1>1, <1>2, <2>2
  <2> QED BY <2>2, <2>3, <1>3
<1> HIDE DEF b, g
<1>6. Taken' = Taken + k
  <2>1. sent \in Nat /\ Len(list) \in Nat /\ sent' = sent
    BY <1>1, <1>2
  <2>2. Len(list') = Len(list) - k
    BY <1>4
  <2> QED BY <2>1, <2>2 DEF Taken
<1>7. /\ g \o b \in Seq(Nat) /\ Len(g \o b) = Len(g) + k
      /\ \A i \in 1 .. Len(g) + k :
           (g \o b)[i] = IF i <= Len(g) THEN g[i] ELSE Taken + (i - Len(g))
  <2>1. /\ g \o b \in Seq(Nat) /\ Len(g \o b) = Len(g) + Len(b)
        /\ \A i \in 1 .. Len(g) + Len(b) :
             (g \o b)[i] = IF i <= Len(g) THEN g[i] ELSE b[i - Len(g)]
    BY <1>2, <1>5, ConcatProperties
  <2>2. \A i \in 1 .. Len(g) + k : i > Len(g) => i - Len(g) \in 1 .. k
    BY <1>2
  <2> QED BY <1>2, <1>5, <2>1, <2>2
<1>8. /\ Inbox'[r] = g \o b
      /\ \A s \in Receivers \ {r} : Inbox'[s] = Inbox[s]
  BY <1>1, <1>2
<1>9. ServiceTypes'
  <2>1. sent' \in Nat /\ list' \in Seq(Nat)
    BY <1>1, <1>2, <1>4
  <2>2. Taken' \in Nat
    BY <1>2, <1>6
  <2>3. g \o b \in Seq(Nat)
    BY <1>7
  <2>4. Inbox' \in [Receivers -> Seq(Nat)]
    BY <1>1, <1>2, <2>3
  <2> QED BY <2>1, <2>2, <2>4 DEF ServiceTypes
<1>10. QueueInv'
  BY <1>2, <1>3, <1>4, <1>6 DEF QueueInv
<1>11. /\ \A s \in Receivers : \A i \in 1 .. Len(Inbox[s]) :
            Inbox[s][i] \in 1 .. Taken
       /\ \A i \in 1 .. Len(g) : g[i] \in 1 .. Taken
  BY DEF ServiceInv, InboxInv, g
<1>12. ASSUME NEW s \in Receivers, NEW i \in 1 .. Len(Inbox'[s])
       PROVE  Inbox'[s][i] \in 1 .. Taken'
  <2>1. CASE s = r
    BY <2>1, <1>2, <1>6, <1>7, <1>8, <1>11
  <2>2. CASE s # r
    BY <2>2, <1>2, <1>6, <1>8, <1>11
  <2> QED BY <2>1, <2>2
<1>13. ASSUME NEW m \in 1 .. Taken'
       PROVE  \E s \in Receivers : Q!InInbox(s, m)'
  <2>1. CASE m \in 1 .. Taken
    <3>1. PICK s \in Receivers : Q!InInbox(s, m)
      BY <2>1 DEF ServiceInv, InboxInv
    <3>2. CASE s = r
      <4>1. PICK i \in 1 .. Len(g) : g[i] = m
        BY <3>1, <3>2 DEF Q!InInbox, g
      <4>2. i \in 1 .. Len(Inbox'[r]) /\ Inbox'[r][i] = m
        BY <4>1, <1>2, <1>7, <1>8
      <4> QED BY <4>2, <3>2 DEF Q!InInbox
    <3>3. CASE s # r
      BY <3>1, <3>3, <1>8 DEF Q!InInbox
    <3> QED BY <3>2, <3>3
  <2>2. CASE m > Taken
    <3>0. m - Taken \in 1 .. k /\ Len(g) \in Nat
      BY <2>2, <1>2, <1>6
    <3>1. Len(g) + (m - Taken) \in 1 .. Len(Inbox'[r])
      BY <3>0, <1>7, <1>8
    <3>2. Inbox'[r][Len(g) + (m - Taken)] = m
      <4> DEFINE x == m - Taken
      <4>1. x \in 1 .. k /\ Taken + x = m
        BY <3>0, <1>2
      <4> HIDE DEF x
      <4>2. Len(g) + x \in 1 .. Len(g) + k /\ ~(Len(g) + x <= Len(g))
            /\ (Len(g) + x) - Len(g) = x
        BY <4>1, <3>0
      <4>3. (g \o b)[Len(g) + x] = Taken + ((Len(g) + x) - Len(g))
        BY <4>2, <1>7
      <4> QED BY <4>1, <4>2, <4>3, <1>8 DEF x
    <3> QED BY <3>1, <3>2 DEF Q!InInbox
  <2> QED BY <2>1, <2>2, <1>2, <1>6
<1>14. ASSUME NEW s \in Receivers, NEW t \in Receivers, s # t,
              NEW i \in 1 .. Len(Inbox'[s]), NEW j \in 1 .. Len(Inbox'[t])
       PROVE  Inbox'[s][i] # Inbox'[t][j]
  <2>0. \A x, y \in Receivers : x # y =>
           \A e \in 1 .. Len(Inbox[x]), f \in 1 .. Len(Inbox[y]) :
               Inbox[x][e] # Inbox[y][f]
    BY DEF ServiceInv, InboxInv
  <2>1. CASE s # r /\ t # r
    BY <2>0, <2>1, <1>8, <1>14
  <2>2. CASE s = r
    <3>1. t # r /\ Inbox'[t] = Inbox[t] /\ Inbox[t][j] \in 1 .. Taken
      BY <2>2, <1>8, <1>11, <1>14
    <3>2. CASE i \in 1 .. Len(g)
      BY <3>1, <3>2, <2>0, <2>2, <1>2, <1>7, <1>8 DEF g
    <3>3. CASE i > Len(g)
      BY <3>1, <3>3, <2>2, <1>2, <1>7, <1>8
    <3> QED BY <2>2, <3>2, <3>3, <1>2, <1>7, <1>8
  <2>3. CASE t = r
    <3>1. s # r /\ Inbox'[s] = Inbox[s] /\ Inbox[s][i] \in 1 .. Taken
      BY <2>3, <1>8, <1>11, <1>14
    <3>2. CASE j \in 1 .. Len(g)
      BY <3>1, <3>2, <2>0, <2>3, <1>2, <1>7, <1>8 DEF g
    <3>3. CASE j > Len(g)
      BY <3>1, <3>3, <2>3, <1>2, <1>7, <1>8
    <3> QED BY <2>3, <3>2, <3>3, <1>2, <1>7, <1>8
  <2> QED BY <2>1, <2>2, <2>3
<1>15. InboxInv'
  BY <1>12, <1>13, <1>14 DEF InboxInv
<1>16. ASSUME NEW s \in Receivers, NEW i \in 1 .. Len(Inbox'[s]),
              NEW j \in 1 .. Len(Inbox'[s]), i < j
       PROVE  Inbox'[s][i] < Inbox'[s][j]
  <2>1. CASE s # r
    BY <2>1, <1>8, <1>16 DEF ServiceInv, Q!InOrder
  <2>2. CASE s = r /\ j <= Len(g)
    <3>1. i \in 1 .. Len(g) /\ j \in 1 .. Len(g)
      BY <2>2, <1>2, <1>16
    <3>2. g[i] < g[j]
      BY <3>1, <1>16 DEF ServiceInv, Q!InOrder, g
    <3> QED BY <2>2, <3>1, <3>2, <1>2, <1>7, <1>8
  <2>3. CASE s = r /\ i <= Len(g) /\ j > Len(g)
    <3>1. i \in 1 .. Len(g) /\ j \in 1 .. Len(g) + k
      BY <2>3, <1>2, <1>7, <1>8
    <3>2. Inbox'[s][i] = g[i] /\ Inbox'[s][j] = Taken + (j - Len(g))
      BY <2>3, <3>1, <1>2, <1>7, <1>8
    <3>3. g[i] \in 1 .. Taken
      BY <3>1, <1>11
    <3> QED BY <2>3, <3>1, <3>2, <3>3, <1>2
  <2>4. CASE s = r /\ i > Len(g)
    BY <2>4, <1>2, <1>7, <1>8, <1>16
  <2> QED BY <2>1, <2>2, <2>3, <2>4, <1>2, <1>7, <1>8
<1> QED BY <1>9, <1>10, <1>15, <1>16 DEF ServiceInv, Q!InOrder

LEMMA ServiceNext ==
  ASSUME MaxBatch \in Nat, ServiceInv, [Q!Next]_(Q!abstractVars)
  PROVE  ServiceInv'
<1>1. CASE Q!Send
  BY <1>1, SendKeeps
<1>2. ASSUME NEW r \in Receivers, NEW k \in 1 .. MaxBatch, Q!Take(r, k)
      PROVE  ServiceInv'
  BY <1>2, TakeKeeps
<1>3. CASE UNCHANGED Q!abstractVars
  BY <1>3 DEF Q!abstractVars, ServiceInv, ServiceTypes, QueueInv, InboxInv, Q!InOrder,
              Q!InInbox, Taken
<1> QED BY <1>1, <1>2, <1>3 DEF Q!Next

LEMMA ServicePromises ==
  ASSUME ServiceInv
  PROVE  Q!NothingLost /\ Q!NothingTwice
<1>1. /\ sent \in Nat /\ Taken \in Nat /\ list \in Seq(Nat)
      /\ Len(list) = sent - Taken
  BY DEF ServiceInv, ServiceTypes, Taken
<1>2. \A i \in 1 .. Len(list) : list[i] = Taken + i
  BY DEF ServiceInv, QueueInv
<1>3. ASSUME NEW m \in 1 .. sent
      PROVE  Q!InQueue(m) <=> m > Taken
  <2>1. ASSUME m > Taken PROVE Q!InQueue(m)
    <3>1. m - Taken \in 1 .. Len(list)
      BY <2>1, <1>1
    <3>2. list[m - Taken] = m
      BY <3>1, <1>1, <1>2
    <3> QED BY <3>1, <3>2 DEF Q!InQueue
  <2>2. ASSUME Q!InQueue(m) PROVE m > Taken
    BY <2>2, <1>1, <1>2 DEF Q!InQueue
  <2> QED BY <2>1, <2>2
<1>4. \A r \in Receivers, m \in 1 .. sent : Q!InInbox(r, m) => m <= Taken
  BY <1>1 DEF ServiceInv, InboxInv, Q!InInbox
<1>5. \A r, s \in Receivers, m \in 1 .. sent :
          r # s /\ Q!InInbox(r, m) => ~Q!InInbox(s, m)
  BY DEF ServiceInv, InboxInv, Q!InInbox
<1>6. Q!NothingLost
  <2> SUFFICES ASSUME NEW m \in 1 .. sent, ~Q!InQueue(m)
               PROVE  \E r \in Receivers : Q!InInbox(r, m)
      BY DEF Q!NothingLost
  <2>1. m \in 1 .. Taken
    BY <1>1, <1>3
  <2> QED BY <2>1 DEF ServiceInv, InboxInv
<1>7. Q!NothingTwice
  BY <1>1, <1>3, <1>4, <1>5 DEF Q!NothingTwice
<1> QED BY <1>6, <1>7

\* A queue whose receive is one step loses no event, gives none twice and
\* keeps the order of each client.
THEOREM ServiceCorrect == QueueSpec => [](Q!NothingLost /\ Q!NothingTwice /\ Q!InOrder)
<1>1. ServiceInv /\ [Q!Next]_(Q!abstractVars) => ServiceInv'
  BY ServiceNext, BatchAssumption
<1>2. ServiceInv => Q!NothingLost /\ Q!NothingTwice /\ Q!InOrder
  BY ServicePromises DEF ServiceInv
<1> QED BY <1>1, <1>2, ServiceInit, PTL DEF QueueSpec, Q!Spec
-----------------------------------------------------------------------------
(* Behaviours without a race or a fault: the two calls act as one. *)

\* A handler in its window still sees what it read at the head of the list,
\* and its trim will remove exactly that.
HeadRead ==
    clean => \A r \in Receivers : pc[r] = "trim" =>
                 batch[r] = SubSeq(list, 1, Smaller(max[r], Len(list)))

LEMMA HeadReadNext ==
  ASSUME ListInv, HeadRead, [Next]_vars, clean'
  PROVE  clean /\ HeadRead'
<1>a. /\ list \in Seq(Nat) /\ max \in [Receivers -> 1 .. MaxBatch]
      /\ pc \in [Receivers -> {"idle", "trim", "reply"}]
      /\ batch \in [Receivers -> Seq(Nat)]
  BY DEF ListInv, TypeOK
<1>b. \A r \in Receivers : max[r] \in Nat
  BY <1>a, BatchAssumption
<1>1. CASE Push
  <2>1. clean /\ \A r \in Receivers : ~ShortRead(r)
    BY <1>1 DEF Push, Enqueue
  <2>2. list' = Append(list, sent + 1) /\ pc' = pc /\ max' = max /\ batch' = batch
    BY <1>1 DEF Push, Enqueue
  <2>3. sent + 1 \in Nat
    BY BoundAssumption DEF ListInv, TypeOK
  <2>4. ASSUME NEW r \in Receivers, pc[r] = "trim"
        PROVE  batch[r] = SubSeq(list', 1, Smaller(max[r], Len(list')))
    <3>1. batch[r] = SubSeq(list, 1, Smaller(max[r], Len(list)))
      BY <2>1, <2>4 DEF HeadRead
    <3>2. max[r] <= Len(list)
      <4>1. Len(batch[r]) = Smaller(max[r], Len(list))
        BY <3>1, <1>a, <1>b, TakeProperties
      <4>2. ~(Len(batch[r]) < max[r])
        BY <2>1, <2>4 DEF ShortRead
      <4> QED BY <4>1, <4>2, <1>a, <1>b DEF Smaller
    <3>3. /\ Len(list') = Len(list) + 1 /\ list' \in Seq(Nat)
          /\ \A i \in 1 .. Len(list) : list'[i] = list[i]
      BY <2>2, <2>3, <1>a
    <3>4. Smaller(max[r], Len(list')) = max[r] /\ Smaller(max[r], Len(list)) = max[r]
      BY <3>2, <3>3, <1>a, <1>b DEF Smaller
    <3>5. SubSeq(list, 1, max[r]) = SubSeq(list', 1, max[r])
      BY <3>2, <3>3, <1>a, <1>b, PrefixKept
    <3> QED BY <3>1, <3>4, <3>5
  <2> QED BY <2>1, <2>2, <2>4 DEF HeadRead
<1>2. ASSUME NEW r \in Receivers, NEW raw \in Requests, Read(r, raw)
      PROVE  clean /\ HeadRead'
  <2>0. clean' = clean /\ list' = list
    BY <1>2 DEF Read, HaveRead
  <2>1. clean
    BY <2>0
  <2>2. ASSUME NEW s \in Receivers, pc'[s] = "trim"
        PROVE  batch'[s] = SubSeq(list, 1, Smaller(max'[s], Len(list)))
    <3>1. CASE s = r
      <4>1. /\ batch'[r] = SubSeq(list, 1, Smaller(BatchSize(raw), Len(list)))
            /\ max'[r] = BatchSize(raw)
        BY <1>2, <1>a DEF Read, HaveRead, FirstOf
      <4> QED BY <3>1, <4>1
    <3>2. CASE s # r
      <4>1. pc[s] = "trim" /\ batch'[s] = batch[s] /\ max'[s] = max[s]
        BY <1>2, <1>a, <2>2, <3>2 DEF Read, HaveRead, FirstOf
      <4> QED BY <2>1, <4>1 DEF HeadRead
    <3> QED BY <3>1, <3>2
  <2> QED BY <2>0, <2>1, <2>2 DEF HeadRead
<1>3. ASSUME NEW r \in Receivers, Trim(r)
      PROVE  clean /\ HeadRead'
  <2>1. clean /\ (list = <<>> \/ ~OtherOpen(r))
    BY <1>3 DEF Trim, TrimBy
  <2>2. /\ list' = SubSeq(list, max[r] + 1, Len(list))
        /\ pc' = [pc EXCEPT ![r] = "reply"] /\ max' = max /\ batch' = batch
    BY <1>3 DEF Trim, TrimBy
  <2>3. ASSUME NEW s \in Receivers, pc'[s] = "trim"
        PROVE  batch'[s] = SubSeq(list', 1, Smaller(max'[s], Len(list')))
    <3>1. s # r /\ pc[s] = "trim"
      BY <2>2, <2>3, <1>a
    <3>2. list = <<>> /\ Len(list) = 0
      BY <2>1, <3>1 DEF OtherOpen
    <3>3. list' = <<>>
      BY <2>2, <3>2, <1>b, SubSeqEmpty
    <3> QED BY <2>1, <2>2, <3>1, <3>2, <3>3 DEF HeadRead
  <2> QED BY <2>1, <2>3 DEF HeadRead
<1>4. ASSUME NEW r \in Receivers, Reply(r)
      PROVE  clean /\ HeadRead'
  <2>1. /\ clean' = clean /\ list' = list /\ max' = max
        /\ pc' = [pc EXCEPT ![r] = "idle"]
        /\ batch' = [batch EXCEPT ![r] = <<>>]
    BY <1>4 DEF Reply, Finish
  <2>2. ASSUME NEW s \in Receivers, pc'[s] = "trim"
        PROVE  pc[s] = "trim" /\ batch'[s] = batch[s]
    BY <2>1, <2>2, <1>a
  <2> QED BY <2>1, <2>2 DEF HeadRead
<1>5. CASE Fault
  BY <1>5 DEF Fault
<1>6. CASE UNCHANGED vars
  BY <1>6 DEF vars, HeadRead
<1> QED
  BY <1>1, <1>2, <1>3, <1>4, <1>5, <1>6
  DEF Next, Restart, ReadFails, TrimFails, ReplyLost, HaveRead, Finish

\* A step without a race or a fault is a step of QueueService: the push is a
\* Send, the trim of a batch is its Take, the other steps change nothing there.
LEMMA CleanStep ==
  ASSUME ListInv, HeadRead, [Next]_vars, clean'
  PROVE  [Q!Next]_(Q!abstractVars)
<1>a. /\ list \in Seq(Nat) /\ max \in [Receivers -> 1 .. MaxBatch]
      /\ pc \in [Receivers -> {"idle", "trim", "reply"}]
      /\ batch \in [Receivers -> Seq(Nat)] /\ got \in [Receivers -> Seq(Nat)]
  BY DEF ListInv, TypeOK
<1>b. clean
  BY HeadReadNext
<1>c. \A s \in Seq(Nat) : s \o <<>> = s
  BY ConcatEmptySeq
<1>1. CASE Push
  <2>1. Inbox' = Inbox
    BY <1>1 DEF Push, Inbox, Enqueue
  <2>2. Q!Send
    BY <1>1, <2>1 DEF Push, Q!Send, Enqueue
  <2> QED BY <2>2 DEF Q!Next
<1>2. ASSUME NEW r \in Receivers, NEW raw \in Requests, Read(r, raw)
      PROVE  UNCHANGED Q!abstractVars
  <2>1. Inbox' = Inbox
    BY <1>2, <1>a DEF Read, Inbox, HaveRead, FirstOf
  <2> QED BY <1>2, <2>1 DEF Read, Q!abstractVars, HaveRead, FirstOf
<1>3. ASSUME NEW r \in Receivers, Trim(r)
      PROVE  [Q!Next]_(Q!abstractVars)
  <2> DEFINE k == Smaller(max[r], Len(list))
  <2>1. /\ pc[r] = "trim" /\ pc' = [pc EXCEPT ![r] = "reply"]
        /\ list' = SubSeq(list, max[r] + 1, Len(list))
        /\ batch' = batch /\ got' = got /\ sent' = sent
    BY <1>3 DEF Trim, TrimBy
  <2>2. batch[r] = SubSeq(list, 1, k)
    BY <2>1, <1>b DEF HeadRead
  <2>3. max[r] \in Nat \ {0} /\ max[r] \in 1 .. MaxBatch
    BY <1>a, BatchAssumption
  <2>4. k \in 0 .. MaxBatch /\ k <= Len(list)
    BY <2>3, <1>a, BatchAssumption DEF Smaller
  <2>5. list' = SubSeq(list, k + 1, Len(list))
    <3>1. CASE max[r] <= Len(list)
      <4>1. k = max[r]
        <5>1. CASE max[r] < Len(list)
          BY <5>1 DEF Smaller
        <5>2. CASE ~(max[r] < Len(list))
          BY <5>2, <3>1, <2>3, <1>a DEF Smaller
        <5> QED BY <5>1, <5>2
      <4> QED BY <2>1, <4>1
    <3>2. CASE Len(list) < max[r]
      <4>1. k = Len(list)
        BY <3>2, <2>3, <1>a DEF Smaller
      <4>2. SubSeq(list, max[r] + 1, Len(list)) = <<>>
        BY <3>2, <2>3, <1>a, SubSeqEmpty
      <4>3. SubSeq(list, k + 1, Len(list)) = <<>>
        BY <4>1, <1>a, SubSeqEmpty
      <4> QED BY <2>1, <4>2, <4>3
    <3> QED BY <3>1, <3>2, <2>3, <1>a
  <2>6. Inbox' = [Inbox EXCEPT ![r] = Inbox[r] \o SubSeq(list, 1, k)]
    <3>1. Inbox[r] = got[r]
      BY <2>1, <1>a, <1>c DEF Inbox
    <3>2. Inbox'[r] = got[r] \o batch[r]
      BY <2>1, <1>a DEF Inbox
    <3>3. \A s \in Receivers \ {r} : Inbox'[s] = Inbox[s]
      BY <2>1, <1>a DEF Inbox
    <3> QED BY <3>1, <3>2, <3>3, <2>2 DEF Inbox
  <2> HIDE DEF k
  <2>7. CASE k = 0
    <3>1. SubSeq(list, 1, k) = <<>> /\ SubSeq(list, k + 1, Len(list)) = list
      BY <2>7, <1>a, SubSeqEmpty, SubSeqFull
    <3>2. Inbox[r] = got[r] /\ got[r] \in Seq(Nat)
      BY <2>1, <1>a, <1>c DEF Inbox
    <3>3. Inbox' = Inbox
      BY <2>6, <3>1, <3>2, <1>c DEF Inbox
    <3> QED BY <2>1, <2>5, <3>1, <3>3 DEF Q!abstractVars
  <2>8. CASE k # 0
    <3>1. k \in 1 .. MaxBatch
      BY <2>4, <2>8
    <3>2. Q!Take(r, k)
      BY <2>1, <2>4, <2>5, <2>6 DEF Q!Take
    <3> QED BY <3>1, <3>2 DEF Q!Next
  <2> QED BY <2>7, <2>8
<1>4. ASSUME NEW r \in Receivers, Reply(r)
      PROVE  UNCHANGED Q!abstractVars
  <2>1. /\ pc[r] = "reply" /\ pc' = [pc EXCEPT ![r] = "idle"]
        /\ got' = [got EXCEPT ![r] = got[r] \o batch[r]]
        /\ batch' = [batch EXCEPT ![r] = <<>>]
        /\ list' = list /\ sent' = sent
    BY <1>4 DEF Reply, Finish
  <2>2. \A s \in Receivers \ {r} : Inbox'[s] = Inbox[s]
    BY <2>1, <1>a DEF Inbox
  <2>3. Inbox'[r] = Inbox[r]
    <3>1. Inbox[r] = got[r] \o batch[r]
      BY <2>1 DEF Inbox
    <3>2. Inbox'[r] = (got[r] \o batch[r]) \o <<>>
      BY <2>1, <1>a DEF Inbox
    <3>3. got[r] \o batch[r] \in Seq(Nat)
      BY <1>a, ConcatProperties
    <3> QED BY <3>1, <3>2, <3>3, <1>c
  <2>4. Inbox' = Inbox
    BY <2>2, <2>3 DEF Inbox
  <2> QED BY <2>1, <2>4 DEF Q!abstractVars
<1>5. CASE Fault
  BY <1>5 DEF Fault
<1>6. CASE UNCHANGED vars
  BY <1>6 DEF vars, Q!abstractVars, Inbox
<1> QED
  BY <1>1, <1>2, <1>3, <1>4, <1>5, <1>6
  DEF Next, Restart, ReadFails, TrimFails, ReplyLost, HaveRead, Finish

LEMMA QueueInit == Init => Q!Init /\ HeadRead
<1> SUFFICES ASSUME Init PROVE Q!Init /\ HeadRead
    OBVIOUS
<1>1. Inbox = [r \in Receivers |-> <<>>]
  <2>1. \A r \in Receivers : pc[r] = "idle" /\ got[r] = <<>>
    BY DEF Init
  <2>2. <<>> \o <<>> = <<>>
    OBVIOUS
  <2> QED BY <2>1, <2>2 DEF Inbox
<1>2. HeadRead
  BY DEF Init, HeadRead
<1> QED BY <1>1, <1>2 DEF Init, Q!Init

\* Without a race or a fault the read followed by the trim is the one-step
\* receive of QueueService.
THEOREM CleanRefinement == CleanSpec => QueueSpec
<1>1. Init => Q!Init /\ ListInv /\ HeadRead
  BY QueueInit, ListInit
<1>2. /\ ListInv /\ HeadRead /\ [Next /\ clean']_vars
      => ListInv' /\ HeadRead' /\ [Q!Next]_(Q!abstractVars)
  <2>1. CASE Next /\ clean'
    BY <2>1, ListNext, HeadReadNext, CleanStep
  <2>2. CASE UNCHANGED vars
    BY <2>2, ListNext
    DEF HeadRead, vars, Q!abstractVars, Inbox
  <2> QED BY <2>1, <2>2
<1> QED BY <1>1, <1>2, PTL DEF CleanSpec, QueueSpec, Q!Spec

\* In every behaviour, up to the first race or fault, a step is one of the abstract
\* queue or changes nothing of it: HeadRead holds as long as `clean' does.
THEOREM ServiceHolds == Spec => ServiceUntilRace
<1> DEFINE IInv == ListInv /\ (clean => HeadRead)
<1>1. Init => IInv
  BY QueueInit, ListInit
<1>2. IInv /\ [Next]_vars => IInv' /\ (clean' => [Q!Next]_(Q!abstractVars))
  <2> SUFFICES ASSUME IInv, [Next]_vars
               PROVE  IInv' /\ (clean' => [Q!Next]_(Q!abstractVars))
      OBVIOUS
  <2>1. ListInv'
    BY ListNext
  <2>2. ASSUME clean' PROVE HeadRead' /\ [Q!Next]_(Q!abstractVars)
    <3>1. HeadRead
      BY DEF HeadRead
    <3> QED BY <2>2, <3>1, HeadReadNext, CleanStep
  <2> QED BY <2>1, <2>2
<1> QED BY <1>1, <1>2, PTL DEF Spec, ServiceUntilRace

\* In every behaviour, up to the first race or fault, each event is in the
\* list or was given to one client.
THEOREM ExactlyOnce == Spec => []ExactlyOnceIfClean
<1> DEFINE IInv == ListInv /\ (clean => HeadRead /\ ServiceInv)
<1>1. Init => IInv
  BY QueueInit, ListInit, ServiceInit
<1>2. IInv /\ [Next]_vars => IInv'
  <2> SUFFICES ASSUME IInv, [Next]_vars PROVE IInv'
      OBVIOUS
  <2>1. ListInv'
    BY ListNext
  <2>2. ASSUME clean' PROVE HeadRead' /\ ServiceInv'
    <3>1. HeadRead
      BY DEF HeadRead
    <3>2. clean /\ HeadRead'
      BY <2>2, <3>1, HeadReadNext
    <3>3. [Q!Next]_(Q!abstractVars)
      BY <2>2, <3>1, CleanStep
    <3>4. MaxBatch \in Nat
      BY BatchAssumption
    <3> QED BY <3>2, <3>3, <3>4, ServiceNext
  <2> QED BY <2>1, <2>2
<1>3. IInv => ExactlyOnceIfClean
  <2>1. ServiceInv => Q!NothingLost /\ Q!NothingTwice
    BY ServicePromises
  <2> QED BY <2>1 DEF ExactlyOnceIfClean
<1> QED BY <1>1, <1>2, <1>3, PTL DEF Spec
-----------------------------------------------------------------------------
(* Queues that are deleted and created again. *)

\* The database does not touch the list: what holds of the list holds of it here.
LEMMA LifeStep == [LifeNext]_lifeVars => [Next]_vars
<1> SUFFICES ASSUME LifeNext \/ UNCHANGED lifeVars PROVE Next \/ UNCHANGED vars
    OBVIOUS
<1>1. CASE UNCHANGED lifeVars
  BY <1>1 DEF lifeVars
<1>2. CASE CreateQueue \/ DeleteQueue \/ LoadQueue \/ PushFails
  BY <1>2 DEF CreateQueue, DeleteQueue, LoadQueue, PushFails
<1>3. CASE PushEvent
  BY <1>3 DEF PushEvent, Next
<1>4. CASE ServeReceives
  BY <1>4 DEF ServeReceives, Next
<1> QED BY <1>1, <1>2, <1>3, <1>4 DEF LifeNext

\* An event, or one about to be pushed, was sent to row n, which is the queue there is,
\* or was deleted with events.
Accounted(n) == n \in left \/ (exists /\ n = row)

RowInv ==
    /\ row \in Nat /\ sending \in Nat /\ exists \in BOOLEAN
    /\ rowOf \in Seq(Nat) /\ Len(rowOf) = sent
    /\ sending # 0 => Accounted(sending)
    /\ \A i \in 1 .. Len(list) : list[i] \in 1 .. sent /\ Accounted(rowOf[list[i]])

LEMMA LifeStarts == LifeInit => ListInv /\ RowInv
<1> SUFFICES ASSUME LifeInit PROVE ListInv /\ RowInv
    OBVIOUS
<1>1. ListInv
  BY ListInit DEF LifeInit
<1>2. list = <<>> /\ rowOf = <<>> /\ sent = 0
  BY DEF LifeInit, Init
<1>3. <<>> \in Seq(Nat) /\ Len(<<>>) = 0
  OBVIOUS
<1>4. row = 0 /\ sending = 0 /\ exists = FALSE
  BY DEF LifeInit
<1>5. Len(list) = 0 /\ \A i \in 1 .. Len(list) : FALSE
  BY <1>2, <1>3
<1>6. row \in Nat /\ sending \in Nat /\ exists \in BOOLEAN
  BY <1>4
<1>7. rowOf \in Seq(Nat) /\ Len(rowOf) = sent /\ sending = 0
  BY <1>2, <1>3, <1>4
<1> QED BY <1>1, <1>5, <1>6, <1>7 DEF RowInv

\* A step that leaves the rows alone, and the list but for events that are gone.
LEMMA RowsStay ==
  ASSUME RowInv, UNCHANGED <<rowVars, sent>>,
         \A i \in 1 .. Len(list') : \E k \in 1 .. Len(list) : list'[i] = list[k]
  PROVE  RowInv'
  BY DEF RowInv, Accounted, rowVars

LEMMA LifeNextInv == ListInv /\ RowInv /\ [LifeNext]_lifeVars => (ListInv /\ RowInv)'
<1>1. SUFFICES ASSUME ListInv, RowInv, [LifeNext]_lifeVars PROVE RowInv'
  BY ListNext, LifeStep
<1>2. sent \in Nat /\ list \in Seq(Nat) /\ Len(list) \in Nat /\ rowOf \in Seq(Nat)
  BY <1>1, BoundAssumption, LenProperties DEF ListInv, TypeOK, RowInv
<1>3. CASE UNCHANGED lifeVars
  BY <1>1, <1>3, RowsStay DEF lifeVars, vars, rowVars
<1>4. CASE CreateQueue
  BY <1>1, <1>4 DEF CreateQueue, RowInv, Accounted, vars
<1>5. CASE DeleteQueue
  <2>1. UNCHANGED <<list, sent, row, sending, rowOf>>
    BY <1>5 DEF DeleteQueue, vars
  <2>2. ASSUME NEW n, Accounted(n),
               n = sending \/ \E i \in 1 .. Len(list) : n = rowOf[list[i]]
        PROVE  Accounted(n)'
    <3>1. CASE n \in left
      BY <1>5, <3>1 DEF DeleteQueue, Accounted
    <3>2. CASE n = row
      BY <1>5, <2>2, <3>2 DEF DeleteQueue, Accounted, HasEvents
    <3> QED BY <2>2, <3>1, <3>2 DEF Accounted
  <2>3. (sending # 0 => Accounted(sending))'
    BY <1>1, <2>1, <2>2 DEF RowInv, Accounted
  <2>4. \A i \in 1 .. Len(list) : Accounted(rowOf[list[i]])'
    BY <1>1, <2>1, <2>2 DEF RowInv, Accounted
  <2> QED BY <1>1, <1>5, <2>1, <2>3, <2>4 DEF RowInv, DeleteQueue
<1>6. CASE LoadQueue
  BY <1>1, <1>6 DEF LoadQueue, Found, RowInv, Accounted, vars
<1>7. CASE PushFails
  BY <1>1, <1>7 DEF PushFails, RowInv, Accounted, vars
<1>8. CASE PushEvent
  <2>1. /\ list' = Append(list, sent + 1) /\ sent' = sent + 1
        /\ rowOf' = Append(rowOf, sending) /\ sending' = 0
        /\ UNCHANGED <<row, exists, left>> /\ sending # 0
    BY <1>8 DEF PushEvent, Push, Enqueue
  <2>2. Len(rowOf) = sent /\ sending \in Nat /\ Accounted(sending)
    BY <1>1, <2>1 DEF RowInv
  <2>3. /\ Len(list') = Len(list) + 1 /\ list'[Len(list) + 1] = sent + 1
        /\ \A i \in 1 .. Len(list) : list'[i] = list[i]
    BY <1>2, <2>1, AppendProperties
  <2>4. /\ rowOf' \in Seq(Nat) /\ Len(rowOf') = sent + 1 /\ rowOf'[sent + 1] = sending
        /\ \A i \in 1 .. sent : rowOf'[i] = rowOf[i]
    BY <1>2, <2>1, <2>2, AppendProperties
  <2>5. ASSUME NEW i \in 1 .. Len(list')
        PROVE  list'[i] \in 1 .. sent' /\ Accounted(rowOf[list[i]])'
    <3>1. CASE i \in 1 .. Len(list)
      BY <1>1, <1>2, <2>1, <2>3, <2>4, <3>1 DEF RowInv, Accounted
    <3>2. CASE i = Len(list) + 1
      BY <1>2, <2>1, <2>2, <2>3, <2>4, <3>2 DEF Accounted
    <3> QED BY <1>2, <2>3, <3>1, <3>2
  <2> QED BY <1>1, <2>1, <2>4, <2>5 DEF RowInv
<1>9. CASE ServeReceives
  <2>1. CASE UNCHANGED <<list, sent>>
    BY <1>1, <1>9, <2>1, RowsStay DEF ServeReceives
  <2>2. ASSUME NEW r \in Receivers, Trim(r) PROVE RowInv'
    <3>1. max[r] \in Nat /\ list' = SubSeq(list, max[r] + 1, Len(list)) /\ sent' = sent
      BY <1>1, <2>2, ListTypes DEF Trim, TrimBy
    <3>2. \A i \in 1 .. Len(list') : \E k \in 1 .. Len(list) : list'[i] = list[k]
      <4>1. /\ Len(list') = IF max[r] < Len(list) THEN Len(list) - max[r] ELSE 0
            /\ \A i \in 1 .. Len(list) - max[r] : list'[i] = list[max[r] + i]
        BY <1>2, <3>1, DropProperties
      <4> SUFFICES ASSUME NEW i \in 1 .. Len(list')
                   PROVE  \E k \in 1 .. Len(list) : list'[i] = list[k]
          OBVIOUS
      <4>2. PICK m \in Nat, n \in Nat : m = max[r] /\ n = Len(list)
        BY <1>2, <3>1
      <4>3. i \in 1 .. n - m
        BY <4>1, <4>2
      <4>4. m + i \in 1 .. n
        BY <4>2, <4>3
      <4> QED BY <4>1, <4>2, <4>3, <4>4
    <3> QED BY <1>1, <1>9, <3>1, <3>2, RowsStay DEF ServeReceives
  <2> QED BY <1>9, <2>1, <2>2 DEF ServeReceives, Restart, Read, ReadFails, HaveRead,
          TrimFails, Reply, ReplyLost, Finish
<1> QED BY <1>1, <1>3, <1>4, <1>5, <1>6, <1>7, <1>8, <1>9 DEF LifeNext

\* For any number of queues of one name, one after the other: what is in the list was sent
\* to the queue there is, or to one that was deleted when it had events.
THEOREM LeftoversHold == LifeSpec => []OnlyLeftoversOutlive
<1>1. ListInv /\ RowInv => OnlyLeftoversOutlive
  BY DEF RowInv, Accounted, OnlyLeftoversOutlive
<1> QED BY <1>1, LifeStarts, LifeNextInv, PTL DEF LifeSpec

\* And all that was proved of the list holds while queues come and go.
THEOREM LifetimeIsQueue == LifeSpec => Spec
<1>1. LifeInit => Init
  BY DEF LifeInit
<1> QED BY <1>1, LifeStep, PTL DEF LifeSpec, Spec
=============================================================================
