------------------------ MODULE ResourceStoreProofs -------------------------
(***************************************************************************)
(* What ResourceStore does for every set of clients, accounts and names    *)
(* and every number of rows, subscriptions and faults, and what a listing  *)
(* (ResourceListing) sees of it meanwhile.                                 *)
(***************************************************************************)
EXTENDS ResourceListing, SequenceTheorems, FiniteSetTheorems, WellFoundedInduction, TLAPS

\* First returns the lowest of the rows, or 0 when there is none.
LEMMA FirstIdIn ==
  ASSUME NEW ids \in SUBSET (Nat \ {0}), ids # {}
  PROVE  FirstId(ids) \in ids
<1> DEFINE R == OpToRel(<, Nat)
<1>1. IsWellFoundedOn(R, Nat)
  BY NatLessThanWellFounded
<1>2. \A i, j \in Nat : <<i, j>> \in R <=> i < j
  BY DEF OpToRel
<1> HIDE DEF R
<1>3. PICK i \in ids : \A j \in ids : ~ (<<j, i>> \in R)
  BY <1>1, WFMin
<1>4. i \in Nat /\ \A j \in ids : j \in Nat
  OBVIOUS
<1>5. \A j \in ids : ~ (j < i)
  BY <1>2, <1>3, <1>4, Zenon
<1>6. \A j \in ids : i <= j
  BY <1>4, <1>5
<1> QED BY <1>6 DEF FirstId

LEMMA FirstIdFound ==
  ASSUME NEW ids \in SUBSET (Nat \ {0})
  PROVE  /\ FirstId(ids) \in Nat
         /\ FirstId(ids) # 0 => FirstId(ids) \in ids
<1>1. CASE ids = {}
  BY <1>1 DEF FirstId
<1>2. CASE ids # {}
  BY <1>2, FirstIdIn
<1> QED BY <1>1, <1>2

LEMMA NoRowNoId ==
  ASSUME NEW ids \in SUBSET (Nat \ {0}), FirstId(ids) = 0
  PROVE  ids = {}
<1>1. ASSUME ids # {} PROVE FirstId(ids) \in ids
  BY <1>1, FirstIdIn
<1> QED BY <1>1

\* Delete keeps every row and all of its columns but the mark.
LEMMA AfterDeleteRows ==
  ASSUME NEW table \in Seq(Row), NEW id \in Nat
  PROVE  /\ AfterDelete(table, id) \in Seq(Row)
         /\ Len(AfterDelete(table, id)) = Len(table)
         /\ \A i \in 1 .. Len(table) :
               /\ KeyOf(AfterDelete(table, id)[i]) = KeyOf(table[i])
               /\ AfterDelete(table, id)[i].live =
                    (table[i].live /\ id \notin {0, i})
<1> DEFINE new == AfterDelete(table, id)
<1>1. Len(table) \in Nat /\ DOMAIN table = 1 .. Len(table)
  BY LenProperties
<1>2. \A i \in 1 .. Len(table) : table[i] \in Row
  BY ElementOfSeq
<1>3. new = [i \in 1 .. Len(table) |->
               IF id \in {0, i} THEN [table[i] EXCEPT !.live = FALSE] ELSE table[i]]
  BY <1>1 DEF AfterDelete
<1> HIDE DEF new
<1>4. \A i \in 1 .. Len(table) : new[i] \in Row
  BY <1>2, <1>3 DEF Row
<1>5. new \in [1 .. Len(table) -> Row]
  BY <1>3, <1>4
<1>6. new \in Seq(Row) /\ Len(new) = Len(table)
  BY <1>1, <1>5
<1>7. \A i \in 1 .. Len(table) : /\ KeyOf(new[i]) = KeyOf(table[i])
                                 /\ new[i].live = (table[i].live /\ id \notin {0, i})
  BY <1>2, <1>3 DEF Row, KeyOf
<1> QED BY <1>6, <1>7 DEF new

LEMMA AfterDeleteEndpoints ==
  ASSUME NEW table \in Seq(Endpoint), NEW id \in Nat
  PROVE  /\ AfterDelete(table, id) \in Seq(Endpoint)
         /\ Len(AfterDelete(table, id)) = Len(table)
         /\ \A i \in 1 .. Len(table) :
               /\ AfterDelete(table, id)[i].topic = table[i].topic
               /\ AfterDelete(table, id)[i].uuid = table[i].uuid
               /\ AfterDelete(table, id)[i].live =
                    (table[i].live /\ id \notin {0, i})
<1> DEFINE new == AfterDelete(table, id)
<1>1. Len(table) \in Nat /\ DOMAIN table = 1 .. Len(table)
  BY LenProperties
<1>2. \A i \in 1 .. Len(table) : table[i] \in Endpoint
  BY ElementOfSeq
<1>3. new = [i \in 1 .. Len(table) |->
               IF id \in {0, i} THEN [table[i] EXCEPT !.live = FALSE] ELSE table[i]]
  BY <1>1 DEF AfterDelete
<1> HIDE DEF new
<1>4. \A i \in 1 .. Len(table) : new[i] \in Endpoint
  BY <1>2, <1>3 DEF Endpoint
<1>5. new \in [1 .. Len(table) -> Endpoint]
  BY <1>3, <1>4
<1>6. new \in Seq(Endpoint) /\ Len(new) = Len(table)
  BY <1>1, <1>5
<1>7. \A i \in 1 .. Len(table) : /\ new[i].topic = table[i].topic
                                 /\ new[i].uuid = table[i].uuid
                                 /\ new[i].live = (table[i].live /\ id \notin {0, i})
  BY <1>2, <1>3 DEF Endpoint
<1> QED BY <1>6, <1>7 DEF new

-----------------------------------------------------------------------------
(* The inductive invariant. *)

\* What a request in progress knows.  LookupStaysRight says nothing of a
\* request without a row; a subscription needs that there is none of those.
RequestOK(r) ==
    /\ r.op # "DeleteQueue" => r.name \in Names
    /\ r.op = "Subscribe" => r.row # 0
    /\ r.at = "endpoint" => r.op = "Unsubscribe"
    /\ r.row # 0 => /\ r.row <= Len(resources)
                    /\ IsFor(resources[r.row], r)

StoreInv ==
    /\ TypeOK
    /\ SubscriptionsHaveTopics
    /\ \A c \in Clients : req[c] # Idle => RequestOK(req[c])

\* Every step keeps the rows of the queues and topics, and what names them.
RowsKept ==
    /\ resources' \in Seq(Row)
    /\ Len(resources') >= Len(resources)
    /\ \A i \in 1 .. Len(resources) : KeyOf(resources'[i]) = KeyOf(resources[i])

LEMMA ActiveRequest ==
  ASSUME TypeOK, NEW c \in Clients
  PROVE  /\ req[c] # Idle <=> req[c] \in Request
         /\ req[c] # Idle <=> req[c].at \in {"endpoint", "write"}
<1>1. req[c] \in Request \union {Idle}
  BY DEF TypeOK
<1>2. Idle \notin Request /\ Idle.at = "idle"
  BY DEF Idle, Request
<1>3. ASSUME req[c] \in Request PROVE req[c].at \in {"endpoint", "write"}
  BY <1>3 DEF Request
<1> QED BY <1>1, <1>2, <1>3

LEMMA WritingRequest ==
  ASSUME TypeOK, NEW c \in Clients, NEW op, Writing(c, op)
  PROVE  req[c] # Idle /\ req[c] \in Request
  BY ActiveRequest DEF Writing

\* The parameters of a request whose lookup found a row name that row.
LEMMA LiveRowsAre ==
  ASSUME TypeOK, NEW service, NEW account, NEW name
  PROVE  /\ LiveRows(service, account, name) \in SUBSET (Nat \ {0})
         /\ \A i \in LiveRows(service, account, name) :
               /\ i \in 1 .. Len(resources)
               /\ resources[i].live
               /\ resources[i].service = service
               /\ resources[i].account = account
               /\ name \in {resources[i].name, NoName}
<1>1. Len(resources) \in Nat
  BY LenProperties DEF TypeOK
<1> QED BY <1>1 DEF LiveRows, Matches

\* A request is as right in a state that keeps the rows.
LEMMA RequestKept ==
  ASSUME TypeOK, RowsKept, NEW r \in Request, RequestOK(r)
  PROVE  RequestOK(r)'
<1>1. Len(resources) \in Nat /\ Len(resources') \in Nat /\ Len(resources') >= Len(resources)
  BY LenProperties DEF TypeOK, RowsKept
<1>2. r.row \in Nat
  BY DEF Request
<1>3. ASSUME r.row # 0 PROVE r.row <= Len(resources') /\ IsFor(resources'[r.row], r)
  <2>1. r.row \in 1 .. Len(resources) /\ IsFor(resources[r.row], r)
    BY <1>1, <1>2, <1>3 DEF RequestOK
  <2>2. KeyOf(resources'[r.row]) = KeyOf(resources[r.row])
    BY <2>1 DEF RowsKept
  <2>3. IsFor(resources'[r.row], r)
    BY <2>1, <2>2 DEF KeyOf, IsFor
  <2>4. r.row <= Len(resources')
    BY <1>1, <1>2, <2>1
  <2> QED BY <2>3, <2>4
<1> QED BY <1>3 DEF RequestOK

\* First on resources.
LEMMA LookedStep ==
  ASSUME StoreInv, NEW c \in Clients, NEW op \in Ops,
         NEW service \in ServiceOf(op), NEW account \in Accounts,
         NEW name \in NamesFor(op), NEW uuid \in 0 .. uuids,
         NEW id \in Nat, NEW failed \in BOOLEAN,
         id # 0 => id \in LiveRows(service, account, name),
         Looked(c, op, service, account, name, uuid, id, failed),
         faults' \in 0 .. MaxFaults
  PROVE  StoreInv'
<1> DEFINE new == [op |-> op, service |-> service, account |-> account,
                   name |-> name, uuid |-> IF op = "Subscribe" THEN uuids' ELSE uuid,
                   at |-> IF op = "Unsubscribe" THEN "endpoint" ELSE "write",
                   row |-> id, sub |-> 0]
<1>1. TypeOK
  BY DEF StoreInv
<1>2. uuids \in Nat /\ uuids' \in 0 .. MaxUuids
  BY <1>1, BoundAssumption DEF TypeOK, Looked
<1>3. service \in Services
  BY DEF ServiceOf, Services
<1>4. name \in Names \union {NoName} /\ (op # "DeleteQueue" => name \in Names)
  BY DEF NamesFor
<1>5. new.uuid \in Nat
  BY <1>2
<1>6. new \in Request
  BY <1>3, <1>4, <1>5 DEF Request
<1>7. ASSUME GoesOn(op, id, failed) PROVE RequestOK(new)
  <2>1. op = "Subscribe" => id # 0
    BY <1>7 DEF GoesOn
  <2>2. id # 0 => id <= Len(resources) /\ IsFor(resources[id], new)
    <3>1. SUFFICES ASSUME id # 0
                   PROVE  id <= Len(resources) /\ IsFor(resources[id], new)
      OBVIOUS
    <3>2. id \in LiveRows(service, account, name)
      BY <3>1
    <3> QED BY <1>1, <3>2, LiveRowsAre DEF IsFor
  <2> QED BY <1>4, <2>1, <2>2 DEF RequestOK
<1>8. (req' = [req EXCEPT ![c] = new] /\ GoesOn(op, id, failed)) \/ req' = req
  BY DEF Looked
<1> HIDE DEF new
<1>9. req' \in [Clients -> Request \union {Idle}]
  BY <1>1, <1>6, <1>8 DEF TypeOK
<1>10. UNCHANGED <<resources, endpoints, mishaps>>
  BY DEF Looked
<1>11. TypeOK'
  BY <1>1, <1>2, <1>9, <1>10 DEF TypeOK
<1>12. SubscriptionsHaveTopics'
  BY <1>10 DEF StoreInv, SubscriptionsHaveTopics
<1>13. ASSUME NEW d \in Clients, req'[d] # Idle PROVE RequestOK(req[d])'
  <2>1. (req'[d] = new /\ GoesOn(op, id, failed)) \/ req'[d] = req[d]
    BY <1>1, <1>8 DEF TypeOK
  <2>2. RequestOK(req'[d])
    BY <1>7, <1>13, <2>1 DEF StoreInv
  <2> QED BY <1>10, <2>2 DEF RequestOK
<1> QED BY <1>11, <1>12, <1>13 DEF StoreInv

\* A step that only ends requests, or keeps them, and keeps the rows.
LEMMA RequestsEnd ==
  ASSUME StoreInv, RowsKept,
         req' \in [Clients -> Request \union {Idle}],
         \A c \in Clients : req'[c] \in {req[c], Idle}
  PROVE  \A c \in Clients : (req[c] # Idle => RequestOK(req[c]))'
<1>1. SUFFICES ASSUME NEW c \in Clients, req'[c] # Idle
               PROVE  RequestOK(req[c])'
  OBVIOUS
<1>2. TypeOK
  BY DEF StoreInv
<1>3. req'[c] = req[c]
  BY <1>1
<1>4. req[c] \in Request /\ RequestOK(req[c])
  BY <1>1, <1>2, <1>3, ActiveRequest DEF StoreInv
<1>5. PICK r \in Request : r = req[c]
  BY <1>4
<1>6. RequestOK(r)
  BY <1>4, <1>5
<1>7. RequestOK(r)'
  BY <1>2, <1>6, RequestKept
<1> QED BY <1>3, <1>5, <1>7 DEF RequestOK

LEMMA EndsTypes ==
  ASSUME TypeOK, NEW c \in Clients, Ends(c)
  PROVE  /\ req' \in [Clients -> Request \union {Idle}]
         /\ \A d \in Clients : req'[d] \in {req[d], Idle}
  BY DEF TypeOK, Ends

LEMMA Unchanged ==
  ASSUME TypeOK, UNCHANGED resources
  PROVE  RowsKept
  BY LenProperties DEF TypeOK, RowsKept

\* The inserts and deletes.
LEMMA InsertResourceStep ==
  ASSUME StoreInv, NEW c \in Clients, InsertResource(c)
  PROVE  RowsKept /\ StoreInv'
<1>1. TypeOK /\ req[c] \in Request /\ RequestOK(req[c])
  BY WritingRequest DEF StoreInv, InsertResource
<1>2. req[c].op \in {"CreateQueue", "CreateTopic"}
  BY DEF InsertResource, Writing
<1>3. NewRow(c) \in Row
  BY <1>1, <1>2 DEF Request, RequestOK, Row, NewRow
<1>4. resources' = Append(resources, NewRow(c))
  BY DEF InsertResource
<1>5. resources \in Seq(Row) /\ Len(resources) \in Nat
  BY <1>1, LenProperties DEF TypeOK
<1>6. /\ resources' \in Seq(Row)
      /\ Len(resources') = Len(resources) + 1
      /\ \A i \in 1 .. Len(resources) : resources'[i] = resources[i]
  BY <1>3, <1>4, <1>5, AppendProperties
<1>7. RowsKept
  BY <1>5, <1>6 DEF RowsKept
<1>8. /\ req' \in [Clients -> Request \union {Idle}]
      /\ \A d \in Clients : req'[d] \in {req[d], Idle}
  BY <1>1, EndsTypes DEF InsertResource
<1>9. TypeOK'
  <2>1. mishaps' \in SUBSET MishapKinds
    BY <1>1 DEF TypeOK, InsertResource, MishapKinds
  <2> QED BY <1>1, <1>6, <1>8, <2>1 DEF TypeOK, InsertResource
<1>10. SubscriptionsHaveTopics'
  BY <1>5, <1>6 DEF StoreInv, SubscriptionsHaveTopics, InsertResource
<1>11. \A d \in Clients : (req[d] # Idle => RequestOK(req[d]))'
  BY <1>7, <1>8, RequestsEnd
<1> QED BY <1>7, <1>9, <1>10, <1>11 DEF StoreInv

LEMMA DeleteResourceStep ==
  ASSUME StoreInv, NEW c \in Clients, DeleteResource(c)
  PROVE  RowsKept /\ StoreInv'
<1>1. TypeOK /\ req[c] \in Request /\ RequestOK(req[c])
  BY WritingRequest DEF StoreInv, DeleteResource
<1>2. req[c].row \in Nat
  BY <1>1 DEF Request
<1>3. resources \in Seq(Row) /\ Len(resources) \in Nat
  BY <1>1, LenProperties DEF TypeOK
<1>4. /\ resources' \in Seq(Row)
      /\ Len(resources') = Len(resources)
      /\ \A i \in 1 .. Len(resources) : KeyOf(resources'[i]) = KeyOf(resources[i])
  BY <1>2, <1>3, AfterDeleteRows DEF DeleteResource
<1>5. RowsKept
  BY <1>3, <1>4 DEF RowsKept
<1>6. /\ req' \in [Clients -> Request \union {Idle}]
      /\ \A d \in Clients : req'[d] \in {req[d], Idle}
  BY <1>1, EndsTypes DEF DeleteResource
<1>7. TypeOK'
  <2>1. mishaps' \in SUBSET MishapKinds
    BY <1>1 DEF TypeOK, DeleteResource, MishapKinds
  <2> QED BY <1>1, <1>4, <1>6, <2>1 DEF TypeOK, DeleteResource
<1>8. SubscriptionsHaveTopics'
  BY <1>3, <1>4 DEF StoreInv, SubscriptionsHaveTopics, DeleteResource
<1>9. \A d \in Clients : (req[d] # Idle => RequestOK(req[d]))'
  BY <1>5, <1>6, RequestsEnd
<1> QED BY <1>5, <1>7, <1>8, <1>9 DEF StoreInv

\* The row of a subscription exists, because its request has found it.
LEMMA InsertEndpointStep ==
  ASSUME StoreInv, NEW c \in Clients, InsertEndpoint(c)
  PROVE  RowsKept /\ StoreInv'
<1> DEFINE new == [topic |-> req[c].row, uuid |-> req[c].uuid, live |-> TRUE]
<1>1. TypeOK /\ req[c] \in Request /\ RequestOK(req[c]) /\ req[c].op = "Subscribe"
  BY WritingRequest DEF StoreInv, InsertEndpoint, Writing
<1>2. new \in Endpoint
  BY <1>1 DEF Request, Endpoint
<1>3. resources \in Seq(Row) /\ Len(resources) \in Nat
  BY <1>1, LenProperties DEF TypeOK
<1>4. new.topic \in 1 .. Len(resources)
  BY <1>1, <1>3 DEF RequestOK, Request
<1>5. endpoints' = Append(endpoints, new)
  BY DEF InsertEndpoint
<1> HIDE DEF new
<1>6. endpoints \in Seq(Endpoint) /\ Len(endpoints) \in Nat
  BY <1>1, LenProperties DEF TypeOK
<1>7. /\ endpoints' \in Seq(Endpoint)
      /\ Len(endpoints') = Len(endpoints) + 1
      /\ \A i \in 1 .. Len(endpoints) : endpoints'[i] = endpoints[i]
      /\ endpoints'[Len(endpoints) + 1] = new
  BY <1>2, <1>5, <1>6, AppendProperties
<1>8. UNCHANGED <<resources, uuids, mishaps, faults>>
  BY DEF InsertEndpoint
<1>9. RowsKept
  BY <1>1, <1>8, Unchanged
<1>10. /\ req' \in [Clients -> Request \union {Idle}]
       /\ \A d \in Clients : req'[d] \in {req[d], Idle}
  BY <1>1, EndsTypes DEF InsertEndpoint
<1>11. TypeOK'
  BY <1>1, <1>7, <1>8, <1>10 DEF TypeOK
<1>12. SubscriptionsHaveTopics'
  <2>1. SUFFICES ASSUME NEW i \in 1 .. Len(endpoints')
                 PROVE  endpoints'[i].topic \in 1 .. Len(resources)
    BY <1>8 DEF SubscriptionsHaveTopics
  <2>2. CASE i \in 1 .. Len(endpoints)
    BY <1>7, <2>2 DEF StoreInv, SubscriptionsHaveTopics
  <2>3. CASE i = Len(endpoints) + 1
    BY <1>4, <1>7, <2>3
  <2> QED BY <1>6, <1>7, <2>1, <2>2, <2>3
<1>13. \A d \in Clients : (req[d] # Idle => RequestOK(req[d]))'
  BY <1>9, <1>10, RequestsEnd
<1> QED BY <1>9, <1>11, <1>12, <1>13 DEF StoreInv

LEMMA DeleteEndpointStep ==
  ASSUME StoreInv, NEW c \in Clients, DeleteEndpoint(c)
  PROVE  RowsKept /\ StoreInv'
<1>1. TypeOK /\ req[c] \in Request
  BY WritingRequest DEF StoreInv, DeleteEndpoint
<1>2. req[c].sub \in Nat
  BY <1>1 DEF Request
<1>3. endpoints \in Seq(Endpoint)
  BY <1>1 DEF TypeOK
<1>4. /\ endpoints' \in Seq(Endpoint)
      /\ Len(endpoints') = Len(endpoints)
      /\ \A i \in 1 .. Len(endpoints) : endpoints'[i].topic = endpoints[i].topic
  BY <1>2, <1>3, AfterDeleteEndpoints DEF DeleteEndpoint
<1>5. UNCHANGED <<resources, uuids, faults>>
  BY DEF DeleteEndpoint
<1>6. RowsKept
  BY <1>1, <1>5, Unchanged
<1>7. /\ req' \in [Clients -> Request \union {Idle}]
      /\ \A d \in Clients : req'[d] \in {req[d], Idle}
  BY <1>1, EndsTypes DEF DeleteEndpoint
<1>8. TypeOK'
  <2>1. mishaps' \in SUBSET MishapKinds
    BY <1>1 DEF TypeOK, DeleteEndpoint, MishapKinds
  <2> QED BY <1>1, <1>4, <1>5, <1>7, <2>1 DEF TypeOK
<1>9. SubscriptionsHaveTopics'
  BY <1>4, <1>5 DEF StoreInv, SubscriptionsHaveTopics
<1>10. \A d \in Clients : (req[d] # Idle => RequestOK(req[d]))'
  BY <1>6, <1>7, RequestsEnd
<1> QED BY <1>6, <1>8, <1>9, <1>10 DEF StoreInv

\* First on endpoints.
LEMMA EndpointsAre ==
  ASSUME TypeOK, NEW uuid, NEW topic
  PROVE  MatchingEndpoints(uuid, topic) \in SUBSET (Nat \ {0})
<1>1. Len(endpoints) \in Nat
  BY LenProperties DEF TypeOK
<1> QED BY <1>1 DEF MatchingEndpoints

LEMMA FoundEndpointStep ==
  ASSUME StoreInv, NEW c \in Clients, NEW id \in Nat, FoundEndpoint(c, id),
         faults' \in 0 .. MaxFaults
  PROVE  RowsKept /\ StoreInv'
<1>1. TypeOK /\ req[c] \in Request /\ RequestOK(req[c])
  <2>1. TypeOK /\ req[c].at \in {"endpoint", "write"}
    BY DEF StoreInv, FoundEndpoint
  <2> QED BY <2>1, ActiveRequest DEF StoreInv
<1> DEFINE new == [req[c] EXCEPT !.at = "write", !.sub = id]
<1>2. req' = [req EXCEPT ![c] = new]
  BY <1>1 DEF FoundEndpoint, TypeOK
<1>3. new \in Request
  BY <1>1 DEF Request
<1>4. RequestOK(new)
  BY <1>1 DEF RequestOK, Request, IsFor
<1> HIDE DEF new
<1>5. UNCHANGED <<resources, endpoints, uuids, mishaps>>
  BY DEF FoundEndpoint
<1>6. RowsKept
  BY <1>1, <1>5, Unchanged
<1>7. TypeOK'
  BY <1>1, <1>2, <1>3, <1>5 DEF TypeOK
<1>8. SubscriptionsHaveTopics'
  BY <1>5 DEF StoreInv, SubscriptionsHaveTopics
<1>9. ASSUME NEW d \in Clients, req'[d] # Idle PROVE RequestOK(req[d])'
  <2>1. req'[d] \in {req[d], new}
    BY <1>1, <1>2 DEF TypeOK
  <2>2. RequestOK(req'[d])
    BY <1>4, <1>9, <2>1 DEF StoreInv
  <2> QED BY <1>5, <2>2 DEF RequestOK
<1> QED BY <1>6, <1>7, <1>8, <1>9 DEF StoreInv

\* A write that fails and a restart only end requests.
LEMMA OnlyEnds ==
  ASSUME StoreInv, UNCHANGED <<resources, endpoints, uuids, mishaps>>,
         faults' \in 0 .. MaxFaults,
         req' \in [Clients -> Request \union {Idle}],
         \A c \in Clients : req'[c] \in {req[c], Idle}
  PROVE  RowsKept /\ StoreInv'
<1>1. TypeOK /\ TypeOK'
  BY DEF StoreInv, TypeOK
<1>2. RowsKept
  BY <1>1, Unchanged
<1>3. SubscriptionsHaveTopics'
  BY DEF StoreInv, SubscriptionsHaveTopics
<1>4. \A c \in Clients : (req[c] # Idle => RequestOK(req[c]))'
  BY <1>2, RequestsEnd
<1> QED BY <1>1, <1>2, <1>3, <1>4 DEF StoreInv

LEMMA FaultRange ==
  ASSUME TypeOK, Fault
  PROVE  faults' \in 0 .. MaxFaults
  BY BoundAssumption DEF TypeOK, Fault

LEMMA StoreInvStep ==
  ASSUME StoreInv, [Next]_vars
  PROVE  RowsKept /\ StoreInv'
<1>1. TypeOK
  BY DEF StoreInv
<1>2. faults \in 0 .. MaxFaults /\ req \in [Clients -> Request \union {Idle}]
  BY <1>1 DEF TypeOK
<1>3. ASSUME NEW c \in Clients, Lookup(c) PROVE RowsKept /\ StoreInv'
  <2>1. PICK op \in Ops, account \in Accounts, uuid \in 0 .. uuids :
            \E service \in ServiceOf(op), name \in NamesFor(op) :
               /\ Looked(c, op, service, account, name, uuid,
                         FirstId(LiveRows(service, account, name)), FALSE)
               /\ UNCHANGED faults
    BY <1>3 DEF Lookup
  <2>2. PICK service \in ServiceOf(op), name \in NamesFor(op) :
               /\ Looked(c, op, service, account, name, uuid,
                         FirstId(LiveRows(service, account, name)), FALSE)
               /\ UNCHANGED faults
    BY <2>1
  <2>3. /\ FirstId(LiveRows(service, account, name)) \in Nat
        /\ FirstId(LiveRows(service, account, name)) # 0 =>
             FirstId(LiveRows(service, account, name)) \in LiveRows(service, account, name)
    BY <1>1, LiveRowsAre, FirstIdFound
  <2>4. StoreInv'
    BY <1>2, <2>2, <2>3, LookedStep
  <2>5. RowsKept
    BY <1>1, <2>2, Unchanged DEF Looked
  <2> QED BY <2>4, <2>5
<1>4. ASSUME NEW c \in Clients, LookupFails(c) PROVE RowsKept /\ StoreInv'
  <2>1. PICK op \in Ops, account \in Accounts, uuid \in 0 .. uuids :
            \E service \in ServiceOf(op), name \in NamesFor(op) :
               Looked(c, op, service, account, name, uuid, 0, TRUE) /\ Fault
    BY <1>4 DEF LookupFails
  <2>2. PICK service \in ServiceOf(op), name \in NamesFor(op) :
               Looked(c, op, service, account, name, uuid, 0, TRUE) /\ Fault
    BY <2>1
  <2>3. StoreInv'
    BY <1>1, <2>2, FaultRange, LookedStep
  <2>4. RowsKept
    BY <1>1, <2>2, Unchanged DEF Looked
  <2> QED BY <2>3, <2>4
<1>5. ASSUME NEW c \in Clients, LookupEndpoint(c) PROVE RowsKept /\ StoreInv'
  <2>1. FirstId(MatchingEndpoints(req[c].uuid, req[c].row)) \in Nat
    BY <1>1, EndpointsAre, FirstIdFound
  <2> QED BY <1>2, <1>5, <2>1, FoundEndpointStep DEF LookupEndpoint
<1>6. ASSUME NEW c \in Clients, LookupEndpointFails(c) PROVE RowsKept /\ StoreInv'
  BY <1>1, <1>6, FaultRange, FoundEndpointStep DEF LookupEndpointFails
<1>7. ASSUME NEW c \in Clients, Write(c) PROVE RowsKept /\ StoreInv'
  <2>1. ASSUME WriteFails(c) PROVE RowsKept /\ StoreInv'
    BY <1>1, <2>1, FaultRange, EndsTypes, OnlyEnds DEF WriteFails
  <2> QED BY <1>7, <2>1, InsertResourceStep, DeleteResourceStep,
             InsertEndpointStep, DeleteEndpointStep DEF Write
<1>8. ASSUME NEW server \in Services, Restart(server) PROVE RowsKept /\ StoreInv'
  <2>1. /\ req' \in [Clients -> Request \union {Idle}]
        /\ \A c \in Clients : req'[c] \in {req[c], Idle}
    BY <1>2, <1>8 DEF Restart
  <2> QED BY <1>1, <1>8, <2>1, FaultRange, OnlyEnds DEF Restart
<1>9. CASE UNCHANGED vars
  BY <1>2, <1>9, OnlyEnds DEF vars
<1> QED BY <1>3, <1>4, <1>5, <1>6, <1>7, <1>8, <1>9 DEF Next

LEMMA StoreInvInit == Init => StoreInv
<1> SUFFICES ASSUME Init PROVE StoreInv
  OBVIOUS
<1>1. TypeOK
  BY BoundAssumption, EmptySeq DEF Init, TypeOK
<1>2. SubscriptionsHaveTopics
  BY EmptySeq DEF Init, SubscriptionsHaveTopics
<1> QED BY <1>1, <1>2 DEF Init, StoreInv

LEMMA StoreInvHolds == Spec => []StoreInv
  BY StoreInvInit, StoreInvStep, PTL DEF Spec

LEMMA StoreInvGives == StoreInv => LookupStaysRight /\ SubscriptionsHaveTopics
  BY DEF StoreInv, RequestOK, LookupStaysRight

\* The rows and the requests have their types, the row a request has looked up
\* stays the one it is for until it writes, and every subscription hangs on a
\* row that exists, however the handlers overlap and whatever fails.
THEOREM LookupsHold == Spec => [](TypeOK /\ LookupStaysRight /\ SubscriptionsHaveTopics)
<1>1. StoreInv => TypeOK /\ LookupStaysRight /\ SubscriptionsHaveTopics
  BY StoreInvGives DEF StoreInv
<1> QED BY <1>1, StoreInvHolds, PTL

\* Only two statements write the rows of queues and topics.
LEMMA RowsWritten ==
  ASSUME [Next]_vars, resources' # resources
  PROVE  \E c \in Clients : InsertResource(c) \/ DeleteResource(c)
<1>1. ~ UNCHANGED vars
  BY DEF vars
<1>2. ASSUME NEW c \in Clients, Lookup(c) \/ LookupFails(c) PROVE FALSE
  <2>1. PICK op, service, account, name, uuid, id, failed :
           Looked(c, op, service, account, name, uuid, id, failed)
    BY <1>2 DEF Lookup, LookupFails
  <2> QED BY <2>1 DEF Looked
<1>3. \A c \in Clients : ~ LookupEndpoint(c) /\ ~ LookupEndpointFails(c)
  BY DEF LookupEndpoint, LookupEndpointFails, FoundEndpoint
<1>4. \A server \in Services : ~ Restart(server)
  BY DEF Restart
<1>5. \A c \in Clients : ~ InsertEndpoint(c) /\ ~ DeleteEndpoint(c) /\ ~ WriteFails(c)
  BY DEF InsertEndpoint, DeleteEndpoint, WriteFails
<1> QED BY <1>1, <1>2, <1>3, <1>4, <1>5 DEF Next, Write

\* A row goes only in the write of a request for it, unless a Delete ran
\* without its condition.
THEOREM DeletesHold == Spec => DeletesOnlyItsRow
<1> DEFINE OnlyItsRow ==
      "unfiltered" \notin mishaps' =>
        \A i \in 1 .. Len(resources) :
            resources[i].live /\ ~resources'[i].live =>
                \E c \in Clients : /\ Writing(c, {"DeleteQueue", "DeleteTopic"})
                                  /\ IsFor(resources[i], req[c])
<1>1. ASSUME StoreInv, [Next]_vars PROVE [OnlyItsRow]_vars
  <2>1. SUFFICES ASSUME "unfiltered" \notin mishaps',
                        NEW i \in 1 .. Len(resources),
                        resources[i].live, ~resources'[i].live
                 PROVE  \E c \in Clients :
                           /\ Writing(c, {"DeleteQueue", "DeleteTopic"})
                           /\ IsFor(resources[i], req[c])
    OBVIOUS
  <2>2. TypeOK
    BY <1>1 DEF StoreInv
  <2>3. resources' # resources
    BY <2>1
  <2>4. PICK c \in Clients : InsertResource(c) \/ DeleteResource(c)
    BY <1>1, <2>3, RowsWritten
  <2>5. CASE InsertResource(c)
    <3>1. req[c] \in Request /\ RequestOK(req[c])
      BY <1>1, <2>2, <2>5, WritingRequest DEF StoreInv, InsertResource
    <3>2. NewRow(c) \in Row
      BY <3>1, <2>5 DEF Request, RequestOK, Row, InsertResource, Writing, NewRow
    <3>3. resources'[i] = resources[i]
      BY <2>2, <2>5, <3>2, AppendProperties DEF InsertResource, TypeOK
    <3> QED BY <2>1, <3>3
  <2>6. CASE DeleteResource(c)
    <3>1. req[c] # Idle /\ req[c] \in Request /\ RequestOK(req[c])
      BY <1>1, <2>2, <2>6, WritingRequest DEF StoreInv, DeleteResource
    <3>2. req[c].row \in Nat /\ resources \in Seq(Row)
      BY <2>2, <3>1 DEF Request, TypeOK
    <3>3. resources'[i].live = (resources[i].live /\ req[c].row \notin {0, i})
      BY <2>6, <3>2, AfterDeleteRows DEF DeleteResource
    <3>4. req[c].row # 0
      BY <2>1, <2>6 DEF DeleteResource
    <3>5. req[c].row = i
      BY <2>1, <3>3, <3>4
    <3>6. IsFor(resources[i], req[c])
      BY <3>1, <3>4, <3>5 DEF RequestOK
    <3> QED BY <2>6, <3>6 DEF DeleteResource
  <2> QED BY <2>4, <2>5, <2>6
<1> QED BY <1>1, StoreInvHolds, PTL DEF Spec, DeletesOnlyItsRow

-----------------------------------------------------------------------------
(* Duplicates. *)

LEMMA LiveRowsFinite ==
  ASSUME TypeOK, NEW service, NEW account, NEW name
  PROVE  IsFiniteSet(LiveRows(service, account, name))
<1>1. Len(resources) \in Nat
  BY LenProperties DEF TypeOK
<1>2. IsFiniteSet(1 .. Len(resources))
  BY <1>1, FS_Interval
<1>3. LiveRows(service, account, name) \subseteq 1 .. Len(resources)
  BY DEF LiveRows
<1> QED BY <1>2, <1>3, FS_Subset

\* Fewer rows and fewer pending creates keep the bound.
LEMMA SmallerSum ==
  ASSUME NEW L, NEW P, IsFiniteSet(L), IsFiniteSet(P),
         NEW M \in SUBSET L, NEW Q \in SUBSET P, NEW n \in Nat,
         Cardinality(L) + Cardinality(P) <= n
  PROVE  Cardinality(M) + Cardinality(Q) <= n
<1>1. Cardinality(M) <= Cardinality(L) /\ Cardinality(Q) <= Cardinality(P)
  BY FS_Subset
<1>2. IsFiniteSet(M) /\ IsFiniteSet(Q)
  BY FS_Subset
<1>3. /\ Cardinality(L) \in Nat /\ Cardinality(M) \in Nat
      /\ Cardinality(P) \in Nat /\ Cardinality(Q) \in Nat
  BY <1>2, FS_CardinalityType
<1> QED BY <1>1, <1>3

\* A request that ends or is not a create leaves no new pending create.
LEMMA PendingShrinks ==
  ASSUME NEW service, NEW account, NEW name,
         \A d \in Clients : \/ req'[d] = req[d]
                            \/ req'[d].at # "write"
                            \/ req'[d].op \notin {"CreateQueue", "CreateTopic"}
  PROVE  Pending(service, account, name)' \subseteq Pending(service, account, name)
  BY DEF Pending

\* Rows that are kept or marked make no name live again.
LEMMA LiveRowsShrink ==
  ASSUME TypeOK, NEW service, NEW account, NEW name,
         resources' = resources
           \/ \E id \in Nat : resources' = AfterDelete(resources, id)
  PROVE  LiveRows(service, account, name)' \subseteq LiveRows(service, account, name)
<1>1. CASE resources' = resources
  BY <1>1 DEF LiveRows, Matches
<1>2. ASSUME NEW id \in Nat, resources' = AfterDelete(resources, id)
      PROVE  LiveRows(service, account, name)' \subseteq LiveRows(service, account, name)
  <2>1. resources \in Seq(Row)
    BY DEF TypeOK
  <2>2. /\ Len(resources') = Len(resources)
        /\ \A i \in 1 .. Len(resources) :
              /\ KeyOf(resources'[i]) = KeyOf(resources[i])
              /\ resources'[i].live = (resources[i].live /\ id \notin {0, i})
    BY <1>2, <2>1, AfterDeleteRows
  <2>3. ASSUME NEW i \in 1 .. Len(resources'),
               Matches(resources'[i], service, account, name)
        PROVE  Matches(resources[i], service, account, name)
    <3>1. i \in 1 .. Len(resources)
      BY <2>2
    <3>2. KeyOf(resources'[i]) = KeyOf(resources[i])
      BY <2>2, <3>1
    <3>3. resources'[i].live = (resources[i].live /\ id \notin {0, i})
      BY <2>2, <3>1
    <3>4. resources[i].live
      BY <2>3, <3>3 DEF Matches
    <3> QED BY <2>3, <3>2, <3>4 DEF Matches, KeyOf
  <2> QED BY <2>2, <2>3 DEF LiveRows
<1> QED BY <1>1, <1>2

\* The bound for one name.
Bounded(service, account, name) ==
    Cardinality(LiveRows(service, account, name))
      + Cardinality(Pending(service, account, name)) <= Cardinality(Clients)

LEMMA BoundShrinks ==
  ASSUME StoreInv, NEW service, NEW account, NEW name,
         Bounded(service, account, name),
         LiveRows(service, account, name)' \subseteq LiveRows(service, account, name),
         Pending(service, account, name)' \subseteq Pending(service, account, name)
  PROVE  Bounded(service, account, name)'
<1>1. Cardinality(Clients) \in Nat
  BY ClientsAssumption, FS_CardinalityType
<1>2. IsFiniteSet(LiveRows(service, account, name))
  BY LiveRowsFinite DEF StoreInv
<1>3. IsFiniteSet(Pending(service, account, name))
  BY ClientsAssumption, FS_Subset DEF Pending
<1> QED BY <1>1, <1>2, <1>3, SmallerSum DEF Bounded

\* A lookup lets a create go on only when the name has no row.
LEMMA BoundLooked ==
  ASSUME StoreInv, StoreInv', NEW service, NEW account, NEW name,
         Bounded(service, account, name),
         NEW c \in Clients, NEW o, NEW s, NEW a, NEW m, NEW u, NEW id, NEW failed,
         id = 0 /\ ~failed => LiveRows(s, a, m) = {},
         Looked(c, o, s, a, m, u, id, failed)
  PROVE  Bounded(service, account, name)'
<1> DEFINE new == [op |-> o, service |-> s, account |-> a,
                   name |-> m, uuid |-> IF o = "Subscribe" THEN uuids' ELSE u,
                   at |-> IF o = "Unsubscribe" THEN "endpoint" ELSE "write",
                   row |-> id, sub |-> 0]
<1>1. (req' = [req EXCEPT ![c] = new] /\ GoesOn(o, id, failed)) \/ req' = req
  BY DEF Looked
<1>2. req \in [Clients -> Request \union {Idle}]
  BY DEF StoreInv, TypeOK
<1>3. resources' = resources
  BY DEF Looked
<1>4. LiveRows(service, account, name)' = LiveRows(service, account, name)
  BY <1>3 DEF LiveRows, Matches
<1>5. \A d \in Clients : d # c => req'[d] = req[d]
  BY <1>1, <1>2
<1>6. CASE req' = req \/ o \notin {"CreateQueue", "CreateTopic"}
  <2>1. \A d \in Clients : \/ req'[d] = req[d]
                           \/ req'[d].op \notin {"CreateQueue", "CreateTopic"}
    BY <1>1, <1>2, <1>5, <1>6
  <2>2. Pending(service, account, name)' \subseteq Pending(service, account, name)
    BY <2>1, PendingShrinks
  <2> QED BY <1>4, <2>2, BoundShrinks
<1>7. CASE /\ req' = [req EXCEPT ![c] = new] /\ GoesOn(o, id, failed)
           /\ o \in {"CreateQueue", "CreateTopic"}
           /\ <<s, a, m>> # <<service, account, name>>
  <2>1. c \notin Pending(service, account, name)'
    BY <1>2, <1>7 DEF Pending
  <2>2. Pending(service, account, name)' \subseteq Pending(service, account, name)
    BY <1>5, <2>1 DEF Pending
  <2> QED BY <1>4, <2>2, BoundShrinks
<1>8. CASE /\ GoesOn(o, id, failed)
           /\ o \in {"CreateQueue", "CreateTopic"}
           /\ <<s, a, m>> = <<service, account, name>>
  <2>1. LiveRows(service, account, name)' = {}
    BY <1>4, <1>8 DEF GoesOn
  <2>2. Pending(service, account, name)' \subseteq Clients
    BY DEF Pending
  <2>3. /\ IsFiniteSet(Pending(service, account, name)')
        /\ Cardinality(Pending(service, account, name)') <= Cardinality(Clients)
    BY <2>2, ClientsAssumption, FS_Subset
  <2>4. Cardinality(Pending(service, account, name)') \in Nat /\ Cardinality(Clients) \in Nat
    BY <2>3, ClientsAssumption, FS_CardinalityType
  <2> QED BY <2>1, <2>3, <2>4, FS_EmptySet DEF Bounded
<1> QED BY <1>1, <1>6, <1>7, <1>8

\* An insert turns a pending create into a row.
LEMMA BoundInsert ==
  ASSUME StoreInv, NEW service, NEW account, NEW name \in Names,
         Bounded(service, account, name),
         NEW c \in Clients, InsertResource(c)
  PROVE  Bounded(service, account, name)'
<1> DEFINE L == LiveRows(service, account, name)
           P == Pending(service, account, name)
           n == Len(resources)
<1>1. TypeOK /\ req[c] \in Request /\ RequestOK(req[c])
  BY WritingRequest DEF StoreInv, InsertResource
<1>2. NewRow(c) \in Row
  BY <1>1 DEF Request, RequestOK, Row, InsertResource, Writing, NewRow
<1>3. resources \in Seq(Row) /\ n \in Nat
  BY <1>1, LenProperties DEF TypeOK
<1>4. /\ Len(resources') = n + 1
      /\ \A i \in 1 .. n : resources'[i] = resources[i]
      /\ resources'[n + 1] = NewRow(c)
  BY <1>2, <1>3, AppendProperties DEF InsertResource
<1>5. name # NoName /\ req[c].name # NoName
  BY <1>1, NameAssumption DEF RequestOK, InsertResource, Writing
<1>6. L' = L \union {i \in {n + 1} : Matches(NewRow(c), service, account, name)}
  BY <1>3, <1>4 DEF LiveRows, Matches
<1>7. Matches(NewRow(c), service, account, name) <=>
        <<req[c].service, req[c].account, req[c].name>> = <<service, account, name>>
  BY <1>5 DEF Matches, NewRow
<1>8. P' = P \ {c}
  BY <1>1 DEF Pending, InsertResource, Ends, Idle, TypeOK
<1>9. c \in P <=>
        <<req[c].service, req[c].account, req[c].name>> = <<service, account, name>>
  BY DEF Pending, InsertResource, Writing
<1>10. IsFiniteSet(L) /\ IsFiniteSet(P) /\ n + 1 \notin L
  <2>1. IsFiniteSet(L)
    BY <1>1, LiveRowsFinite
  <2>2. IsFiniteSet(P)
    BY ClientsAssumption, FS_Subset DEF Pending
  <2>3. n + 1 \notin L
    BY <1>3 DEF LiveRows
  <2> QED BY <2>1, <2>2, <2>3
<1>11. Cardinality(L) \in Nat /\ Cardinality(P) \in Nat
  BY <1>10, FS_CardinalityType
<1>12. CASE c \in P
  <2>1. L' = L \union {n + 1}
    BY <1>6, <1>7, <1>9, <1>12
  <2>2. Cardinality(L') = Cardinality(L) + 1
    BY <1>10, <2>1, FS_AddElement
  <2>3. Cardinality(P') = Cardinality(P) - 1
    BY <1>8, <1>10, <1>12, FS_RemoveElement
  <2> QED BY <1>11, <2>2, <2>3 DEF Bounded
<1>13. CASE c \notin P
  <2>1. L' = L /\ P' = P
    BY <1>6, <1>7, <1>8, <1>9, <1>13
  <2> QED BY <2>1 DEF Bounded
<1> QED BY <1>12, <1>13

LEMMA BoundedStep ==
  ASSUME StoreInv, StoreInv', [Next]_vars,
         NEW service, NEW account, NEW name \in Names,
         Bounded(service, account, name)
  PROVE  Bounded(service, account, name)'
<1> DEFINE Shrinks ==
      /\ LiveRows(service, account, name)' \subseteq LiveRows(service, account, name)
      /\ Pending(service, account, name)' \subseteq Pending(service, account, name)
<1>1. TypeOK /\ req \in [Clients -> Request \union {Idle}]
  BY DEF StoreInv, TypeOK
<1>2. ASSUME UNCHANGED resources,
             \A d \in Clients : req'[d] \in {req[d], Idle}
      PROVE  Shrinks
  <2>1. Idle.at # "write"
    BY DEF Idle
  <2> QED BY <1>1, <1>2, <2>1, LiveRowsShrink, PendingShrinks
<1>3. ASSUME NEW c \in Clients, Lookup(c) PROVE Bounded(service, account, name)'
  <2>1. PICK o \in Ops, a \in Accounts, u \in 0 .. uuids :
            \E s \in ServiceOf(o), m \in NamesFor(o) :
               Looked(c, o, s, a, m, u, FirstId(LiveRows(s, a, m)), FALSE)
    BY <1>3 DEF Lookup
  <2>2. PICK s \in ServiceOf(o), m \in NamesFor(o) :
               Looked(c, o, s, a, m, u, FirstId(LiveRows(s, a, m)), FALSE)
    BY <2>1
  <2>3. FirstId(LiveRows(s, a, m)) = 0 => LiveRows(s, a, m) = {}
    BY <1>1, LiveRowsAre, NoRowNoId
  <2> QED BY <2>2, <2>3, BoundLooked
<1>4. ASSUME NEW c \in Clients, LookupFails(c) PROVE Bounded(service, account, name)'
  <2>1. PICK o, s, a, m, u : Looked(c, o, s, a, m, u, 0, TRUE)
    BY <1>4 DEF LookupFails
  <2> QED BY <2>1, BoundLooked
<1>5. ASSUME NEW c \in Clients, NEW id, FoundEndpoint(c, id) PROVE Shrinks
  <2>1. req[c] \in Request /\ RequestOK(req[c]) /\ req[c].at = "endpoint"
    BY <1>1, <1>5, ActiveRequest DEF StoreInv, FoundEndpoint
  <2>2. req'[c].op = "Unsubscribe"
    BY <1>1, <1>5, <2>1 DEF FoundEndpoint, RequestOK, Request
  <2>3. \A d \in Clients : d # c => req'[d] = req[d]
    BY <1>1, <1>5 DEF FoundEndpoint
  <2> QED BY <1>1, <1>5, <2>2, <2>3, LiveRowsShrink, PendingShrinks DEF FoundEndpoint
<1>6. ASSUME NEW c \in Clients, DeleteResource(c) PROVE Shrinks
  <2>1. req[c].row \in Nat
    BY <1>1, <1>6, WritingRequest DEF DeleteResource, Request
  <2>2. resources' = AfterDelete(resources, req[c].row)
    BY <1>6 DEF DeleteResource
  <2>3. Idle.at # "write" /\ \A d \in Clients : req'[d] \in {req[d], Idle}
    BY <1>1, <1>6, EndsTypes DEF DeleteResource, Idle
  <2> QED BY <1>1, <2>1, <2>2, <2>3, LiveRowsShrink, PendingShrinks
<1>7. ASSUME NEW c \in Clients, InsertEndpoint(c) \/ DeleteEndpoint(c) \/ WriteFails(c)
      PROVE  Shrinks
  <2>1. UNCHANGED resources /\ Ends(c)
    BY <1>7 DEF InsertEndpoint, DeleteEndpoint, WriteFails
  <2> QED BY <1>1, <1>2, <2>1, EndsTypes
<1>8. ASSUME NEW server \in Services, Restart(server) PROVE Shrinks
  BY <1>1, <1>2, <1>8 DEF Restart
<1>9. ASSUME UNCHANGED vars PROVE Shrinks
  BY <1>2, <1>9 DEF vars
<1>10. Shrinks => Bounded(service, account, name)'
  BY BoundShrinks
<1> HIDE DEF Shrinks
<1>11. ASSUME NEW c \in Clients, LookupEndpoint(c) \/ LookupEndpointFails(c)
       PROVE  Shrinks
  BY <1>5, <1>11 DEF LookupEndpoint, LookupEndpointFails
<1>12. ASSUME NEW c \in Clients, Write(c) PROVE Bounded(service, account, name)'
  BY <1>6, <1>7, <1>10, <1>12, BoundInsert DEF Write
<1> QED BY <1>3, <1>4, <1>8, <1>9, <1>10, <1>11, <1>12 DEF Next

\* Check-then-create makes as many rows of one name as requests race for it,
\* never more, for any number of requests and whatever fails.
THEOREM DuplicatesHold == Spec => []DuplicatesBounded
<1> DEFINE Bound == \A service \in Services, account \in Accounts, name \in Names :
                       Bounded(service, account, name)
<1>1. Init => Bound
  <2>1. SUFFICES ASSUME Init, NEW service, NEW account, NEW name
                 PROVE  Bounded(service, account, name)
    OBVIOUS
  <2>2. LiveRows(service, account, name) = {}
    BY <2>1, EmptySeq DEF Init, LiveRows
  <2>3. Pending(service, account, name) = {}
    BY <2>1 DEF Init, Pending, Idle
  <2>4. Cardinality(Clients) \in Nat
    BY ClientsAssumption, FS_CardinalityType
  <2> QED BY <2>2, <2>3, <2>4, FS_EmptySet DEF Bounded
<1>2. StoreInv /\ StoreInv' /\ Bound /\ [Next]_vars => Bound'
  BY BoundedStep
<1>3. Bound => DuplicatesBounded
  BY DEF Bounded, DuplicatesBounded
<1> QED BY <1>1, <1>2, <1>3, StoreInvHolds, PTL DEF Spec

-----------------------------------------------------------------------------
(* Refinement of ResourceRegistry. *)

\* Until a mishap a name has one row.
OneRowUntilMishap ==
    mishaps = {} =>
        \A i, j \in 1 .. Len(resources) :
            /\ resources[i].live /\ resources[j].live
            /\ KeyOf(resources[i]) = KeyOf(resources[j])
            => i = j

Subscribing(c) == Writing(c, {"Subscribe"})

\* No two subscriptions, made or about to be made, have one uuid.
UuidsDiffer ==
    /\ \A i \in 1 .. Len(endpoints) : endpoints[i].uuid \in 1 .. uuids
    /\ \A i, j \in 1 .. Len(endpoints) : endpoints[i].uuid = endpoints[j].uuid => i = j
    /\ \A c \in Clients : Subscribing(c) =>
          /\ req[c].uuid \in 1 .. uuids
          /\ \A i \in 1 .. Len(endpoints) : endpoints[i].uuid # req[c].uuid
          /\ \A d \in Clients : Subscribing(d) /\ req[d].uuid = req[c].uuid => d = c

\* What an insert does to the rows.
LEMMA InsertResourceRows ==
  ASSUME StoreInv, NEW c \in Clients, InsertResource(c)
  PROVE  /\ NewRow(c) \in Row
         /\ Len(resources) \in Nat
         /\ Len(resources') = Len(resources) + 1
         /\ \A i \in 1 .. Len(resources) : resources'[i] = resources[i]
         /\ resources'[Len(resources) + 1] = NewRow(c)
<1>1. TypeOK /\ req[c] \in Request /\ RequestOK(req[c])
  BY WritingRequest DEF StoreInv, InsertResource
<1>2. NewRow(c) \in Row
  BY <1>1 DEF Request, RequestOK, Row, InsertResource, Writing, NewRow
<1>3. resources \in Seq(Row) /\ Len(resources) \in Nat
  BY <1>1, LenProperties DEF TypeOK
<1> QED BY <1>2, <1>3, AppendProperties DEF InsertResource

LEMMA DeleteResourceRows ==
  ASSUME StoreInv, NEW c \in Clients, DeleteResource(c)
  PROVE  /\ Len(resources) \in Nat
         /\ Len(resources') = Len(resources)
         /\ req[c].row \in Nat
         /\ \A i \in 1 .. Len(resources) :
               /\ KeyOf(resources'[i]) = KeyOf(resources[i])
               /\ resources'[i].live = (resources[i].live /\ req[c].row \notin {0, i})
<1>1. TypeOK /\ req[c] \in Request
  BY WritingRequest DEF StoreInv, DeleteResource
<1>2. req[c].row \in Nat /\ resources \in Seq(Row)
  BY <1>1 DEF Request, TypeOK
<1> QED BY <1>2, AfterDeleteRows, LenProperties DEF DeleteResource

LEMMA MishapsGrow ==
  ASSUME [Next]_vars
  PROVE  mishaps \subseteq mishaps'
<1>1. ASSUME NEW c \in Clients, Lookup(c) \/ LookupFails(c) PROVE mishaps' = mishaps
  <2>1. PICK op, service, account, name, uuid, id, failed :
           Looked(c, op, service, account, name, uuid, id, failed)
    BY <1>1 DEF Lookup, LookupFails
  <2> QED BY <2>1 DEF Looked
<1>2. ASSUME NEW c \in Clients, LookupEndpoint(c) \/ LookupEndpointFails(c)
      PROVE  mishaps' = mishaps
  BY <1>2 DEF LookupEndpoint, LookupEndpointFails, FoundEndpoint
<1>3. ASSUME NEW c \in Clients, Write(c) PROVE mishaps \subseteq mishaps'
  BY <1>3 DEF Write, InsertResource, DeleteResource, InsertEndpoint,
              DeleteEndpoint, WriteFails
<1>4. ASSUME NEW server \in Services, Restart(server) PROVE mishaps' = mishaps
  BY <1>4 DEF Restart
<1>5. CASE UNCHANGED vars
  BY <1>5 DEF vars
<1> QED BY <1>1, <1>2, <1>3, <1>4, <1>5 DEF Next

\* The key of the row that an insert adds is new, unless it is a duplicate.
LEMMA InsertIsNew ==
  ASSUME StoreInv, NEW c \in Clients, InsertResource(c), mishaps' = {},
         NEW i \in 1 .. Len(resources), resources[i].live
  PROVE  KeyOf(resources[i]) # KeyOf(resources'[Len(resources) + 1])
<1>1. LiveRows(req[c].service, req[c].account, req[c].name) = {}
  BY DEF InsertResource
<1>2. ~ Matches(resources[i], req[c].service, req[c].account, req[c].name)
  BY <1>1 DEF LiveRows
<1>3. resources'[Len(resources) + 1] = NewRow(c)
  BY InsertResourceRows
<1> QED BY <1>2, <1>3 DEF Matches, KeyOf, NewRow

LEMMA OneRowStep ==
  ASSUME StoreInv, StoreInv', OneRowUntilMishap, [Next]_vars
  PROVE  OneRowUntilMishap'
<1>1. SUFFICES ASSUME mishaps' = {},
                      NEW i \in 1 .. Len(resources'), NEW j \in 1 .. Len(resources'),
                      resources'[i].live, resources'[j].live,
                      KeyOf(resources'[i]) = KeyOf(resources'[j])
               PROVE  i = j
  BY DEF OneRowUntilMishap, KeyOf
<1>2. mishaps = {}
  BY <1>1, MishapsGrow
<1>3. CASE resources' = resources
  BY <1>1, <1>2, <1>3 DEF OneRowUntilMishap
<1>4. ASSUME NEW c \in Clients, InsertResource(c) PROVE i = j
  <2>1. /\ Len(resources) \in Nat
        /\ Len(resources') = Len(resources) + 1
        /\ \A k \in 1 .. Len(resources) : resources'[k] = resources[k]
    BY <1>4, InsertResourceRows
  <2>2. \A k \in 1 .. Len(resources) : resources[k].live =>
           KeyOf(resources[k]) # KeyOf(resources'[Len(resources) + 1])
    BY <1>1, <1>4, InsertIsNew
  <2>3. CASE i \in 1 .. Len(resources) /\ j \in 1 .. Len(resources)
    BY <1>1, <1>2, <2>1, <2>3 DEF OneRowUntilMishap
  <2>4. CASE i \in 1 .. Len(resources) /\ j = Len(resources) + 1
    BY <1>1, <2>1, <2>2, <2>4
  <2>5. CASE j \in 1 .. Len(resources) /\ i = Len(resources) + 1
    BY <1>1, <2>1, <2>2, <2>5
  <2> QED BY <2>1, <2>3, <2>4, <2>5
<1>5. ASSUME NEW c \in Clients, DeleteResource(c) PROVE i = j
  <2>1. /\ Len(resources') = Len(resources)
        /\ \A k \in 1 .. Len(resources) :
              /\ KeyOf(resources'[k]) = KeyOf(resources[k])
              /\ resources'[k].live = (resources[k].live /\ req[c].row \notin {0, k})
    BY <1>5, DeleteResourceRows
  <2>2. resources[i].live /\ resources[j].live
    BY <1>1, <2>1
  <2>3. KeyOf(resources[i]) = KeyOf(resources[j])
    BY <1>1, <2>1
  <2> QED BY <1>1, <1>2, <2>1, <2>2, <2>3 DEF OneRowUntilMishap
<1> QED BY <1>3, <1>4, <1>5, RowsWritten

\* A step that keeps the uuids and starts no subscription.
LEMMA UuidsKept ==
  ASSUME UuidsDiffer, uuids' = uuids, Len(endpoints') = Len(endpoints),
         \A i \in 1 .. Len(endpoints) : endpoints'[i].uuid = endpoints[i].uuid,
         \A c \in Clients : req'[c] = req[c] \/ ~ Subscribing(c)'
  PROVE  UuidsDiffer'
<1>1. /\ \A i \in 1 .. Len(endpoints') : endpoints'[i].uuid \in 1 .. uuids'
      /\ \A i, j \in 1 .. Len(endpoints') : endpoints'[i].uuid = endpoints'[j].uuid => i = j
  BY DEF UuidsDiffer
<1>2. ASSUME NEW c \in Clients, Subscribing(c)'
      PROVE  Subscribing(c) /\ req'[c] = req[c]
  BY <1>2 DEF Subscribing, Writing
<1>3. ASSUME NEW c \in Clients, Subscribing(c)'
      PROVE  /\ req'[c].uuid \in 1 .. uuids'
             /\ \A i \in 1 .. Len(endpoints') : endpoints'[i].uuid # req'[c].uuid
             /\ \A d \in Clients : Subscribing(d)' /\ req'[d].uuid = req'[c].uuid => d = c
  BY <1>2, <1>3 DEF UuidsDiffer
<1> QED BY <1>1, <1>3 DEF UuidsDiffer

\* Subscribe takes the next uuid.
LEMMA UuidsLooked ==
  ASSUME StoreInv, UuidsDiffer,
         NEW c \in Clients, NEW o, NEW s, NEW a, NEW m, NEW u, NEW id, NEW failed,
         Looked(c, o, s, a, m, u, id, failed)
  PROVE  UuidsDiffer'
<1> DEFINE new == [op |-> o, service |-> s, account |-> a,
                   name |-> m, uuid |-> IF o = "Subscribe" THEN uuids' ELSE u,
                   at |-> IF o = "Unsubscribe" THEN "endpoint" ELSE "write",
                   row |-> id, sub |-> 0]
<1>1. req' = [req EXCEPT ![c] = new] \/ req' = req
  BY DEF Looked
<1>2. req \in [Clients -> Request \union {Idle}]
  BY DEF StoreInv, TypeOK
<1>3. uuids \in Nat /\ uuids' = IF o = "Subscribe" THEN uuids + 1 ELSE uuids
  BY DEF StoreInv, TypeOK, Looked
<1>4. UNCHANGED endpoints
  BY DEF Looked
<1>5. ~ Subscribing(c)
  BY DEF Looked, Subscribing, Writing, Idle
<1>6. \A d \in Clients : d # c => req'[d] = req[d]
  BY <1>1, <1>2
<1>7. CASE o # "Subscribe"
  <2>1. \A d \in Clients : req'[d] = req[d] \/ ~ Subscribing(d)'
    BY <1>1, <1>2, <1>6, <1>7 DEF Subscribing, Writing
  <2> QED BY <1>3, <1>4, <1>7, <2>1, UuidsKept
<1>8. CASE o = "Subscribe"
  <2>1. uuids' = uuids + 1 /\ (Subscribing(c)' => req'[c].uuid = uuids + 1)
    BY <1>1, <1>2, <1>3, <1>5, <1>8 DEF Subscribing, Writing
  <2>2. \A i \in 1 .. Len(endpoints) : endpoints[i].uuid \in 1 .. uuids
    BY DEF UuidsDiffer
  <2>3. ASSUME NEW d \in Clients, Subscribing(d)', d # c
        PROVE  Subscribing(d) /\ req'[d] = req[d] /\ req[d].uuid \in 1 .. uuids
    BY <1>6, <2>3 DEF UuidsDiffer, Subscribing, Writing
  <2>4. ASSUME NEW d \in Clients, Subscribing(d)'
        PROVE  /\ req'[d].uuid \in 1 .. uuids'
               /\ \A i \in 1 .. Len(endpoints') : endpoints'[i].uuid # req'[d].uuid
               /\ \A e \in Clients : Subscribing(e)' /\ req'[e].uuid = req'[d].uuid => e = d
    <3>1. CASE d = c
      <4>1. req'[d].uuid = uuids + 1
        BY <2>1, <2>4, <3>1
      <4>2. \A i \in 1 .. Len(endpoints) : endpoints[i].uuid # uuids + 1
        BY <1>3, <2>2
      <4>3. \A e \in Clients : Subscribing(e)' /\ e # c => req'[e].uuid # uuids + 1
        BY <1>3, <2>3
      <4> QED BY <1>3, <1>4, <2>1, <3>1, <4>1, <4>2, <4>3
    <3>2. CASE d # c
      <4>1. Subscribing(d) /\ req'[d] = req[d] /\ req[d].uuid \in 1 .. uuids
        BY <2>3, <2>4, <3>2
      <4>2. \A i \in 1 .. Len(endpoints) : endpoints[i].uuid # req[d].uuid
        BY <4>1 DEF UuidsDiffer
      <4>3. ASSUME NEW e \in Clients, Subscribing(e)', req'[e].uuid = req[d].uuid
            PROVE  e = d
        <5>1. e # c
          BY <1>3, <2>1, <4>1, <4>3
        <5>2. Subscribing(e) /\ req[e].uuid = req[d].uuid
          BY <2>3, <4>3, <5>1
        <5> QED BY <4>1, <5>2 DEF UuidsDiffer
      <4>4. req'[d].uuid \in 1 .. uuids'
        BY <1>3, <2>1, <4>1
      <4> QED BY <1>4, <4>1, <4>2, <4>3, <4>4
    <3> QED BY <3>1, <3>2
  <2>5. \A i \in 1 .. Len(endpoints') : endpoints'[i].uuid \in 1 .. uuids'
    BY <1>3, <1>4, <2>1, <2>2
  <2>6. \A i, j \in 1 .. Len(endpoints') : endpoints'[i].uuid = endpoints'[j].uuid => i = j
    BY <1>4 DEF UuidsDiffer
  <2> QED BY <2>4, <2>5, <2>6 DEF UuidsDiffer
<1> QED BY <1>7, <1>8

\* What a subscription adds.
LEMMA InsertEndpointRows ==
  ASSUME StoreInv, NEW c \in Clients, InsertEndpoint(c)
  PROVE  /\ req[c].row \in 1 .. Len(resources)
         /\ Len(endpoints) \in Nat
         /\ Len(endpoints') = Len(endpoints) + 1
         /\ \A i \in 1 .. Len(endpoints) : endpoints'[i] = endpoints[i]
         /\ endpoints'[Len(endpoints) + 1] =
              [topic |-> req[c].row, uuid |-> req[c].uuid, live |-> TRUE]
<1> DEFINE new == [topic |-> req[c].row, uuid |-> req[c].uuid, live |-> TRUE]
<1>1. TypeOK /\ req[c] \in Request /\ RequestOK(req[c]) /\ req[c].op = "Subscribe"
  BY WritingRequest DEF StoreInv, InsertEndpoint, Writing
<1>2. new \in Endpoint
  BY <1>1 DEF Request, Endpoint
<1>3. endpoints \in Seq(Endpoint) /\ Len(endpoints) \in Nat /\ Len(resources) \in Nat
  BY <1>1, LenProperties DEF TypeOK
<1>4. req[c].row \in 1 .. Len(resources)
  BY <1>1, <1>3 DEF Request, RequestOK
<1> QED BY <1>2, <1>3, <1>4, AppendProperties DEF InsertEndpoint

LEMMA DeleteEndpointRows ==
  ASSUME StoreInv, NEW c \in Clients, DeleteEndpoint(c)
  PROVE  /\ Len(endpoints') = Len(endpoints)
         /\ req[c].sub \in Nat
         /\ \A i \in 1 .. Len(endpoints) :
               /\ endpoints'[i].topic = endpoints[i].topic
               /\ endpoints'[i].uuid = endpoints[i].uuid
               /\ endpoints'[i].live = (endpoints[i].live /\ req[c].sub \notin {0, i})
<1>1. TypeOK /\ req[c] \in Request
  BY WritingRequest DEF StoreInv, DeleteEndpoint
<1>2. req[c].sub \in Nat /\ endpoints \in Seq(Endpoint)
  BY <1>1 DEF Request, TypeOK
<1> QED BY <1>2, AfterDeleteEndpoints DEF DeleteEndpoint

LEMMA UuidsStep ==
  ASSUME StoreInv, UuidsDiffer, [Next]_vars
  PROVE  UuidsDiffer'
<1>1. TypeOK /\ req \in [Clients -> Request \union {Idle}]
  BY DEF StoreInv, TypeOK
<1>2. ASSUME UNCHANGED <<endpoints, uuids>>,
             \A c \in Clients : req'[c] \in {req[c], Idle}
      PROVE  UuidsDiffer'
  <2>1. \A c \in Clients : req'[c] = req[c] \/ ~ Subscribing(c)'
    BY <1>2 DEF Subscribing, Writing, Idle
  <2> QED BY <1>2, <2>1, UuidsKept
<1>3. ASSUME NEW c \in Clients, Lookup(c) \/ LookupFails(c) PROVE UuidsDiffer'
  <2>1. PICK op, service, account, name, uuid, id, failed :
           Looked(c, op, service, account, name, uuid, id, failed)
    BY <1>3 DEF Lookup, LookupFails
  <2> QED BY <2>1, UuidsLooked
<1>4. ASSUME NEW c \in Clients, NEW id, FoundEndpoint(c, id) PROVE UuidsDiffer'
  <2>1. req[c] \in Request /\ RequestOK(req[c]) /\ req[c].at = "endpoint"
    BY <1>1, <1>4, ActiveRequest DEF StoreInv, FoundEndpoint
  <2>2. req'[c].op = "Unsubscribe"
    BY <1>1, <1>4, <2>1 DEF FoundEndpoint, RequestOK, Request
  <2>3. \A d \in Clients : d # c => req'[d] = req[d]
    BY <1>1, <1>4 DEF FoundEndpoint
  <2>4. \A d \in Clients : req'[d] = req[d] \/ ~ Subscribing(d)'
    BY <2>2, <2>3 DEF Subscribing, Writing
  <2> QED BY <1>4, <2>4, UuidsKept DEF FoundEndpoint
<1>5. ASSUME NEW c \in Clients, InsertResource(c) \/ DeleteResource(c) \/ WriteFails(c)
      PROVE  UuidsDiffer'
  <2>1. UNCHANGED <<endpoints, uuids>> /\ Ends(c)
    BY <1>5 DEF InsertResource, DeleteResource, WriteFails
  <2> QED BY <1>1, <1>2, <2>1, EndsTypes
<1>6. ASSUME NEW c \in Clients, DeleteEndpoint(c) PROVE UuidsDiffer'
  <2>1. uuids' = uuids /\ \A d \in Clients : req'[d] \in {req[d], Idle}
    BY <1>1, <1>6, EndsTypes DEF DeleteEndpoint
  <2>2. \A d \in Clients : req'[d] = req[d] \/ ~ Subscribing(d)'
    BY <2>1 DEF Subscribing, Writing, Idle
  <2> QED BY <1>6, <2>1, <2>2, DeleteEndpointRows, UuidsKept
<1>7. ASSUME NEW c \in Clients, InsertEndpoint(c) PROVE UuidsDiffer'
  <2>1. Subscribing(c) /\ uuids' = uuids /\ req' = [req EXCEPT ![c] = Idle]
    BY <1>7 DEF InsertEndpoint, Subscribing, Ends
  <2>2. /\ Len(endpoints) \in Nat
        /\ Len(endpoints') = Len(endpoints) + 1
        /\ \A i \in 1 .. Len(endpoints) : endpoints'[i] = endpoints[i]
        /\ endpoints'[Len(endpoints) + 1].uuid = req[c].uuid
    <3>1. endpoints'[Len(endpoints) + 1] =
            [topic |-> req[c].row, uuid |-> req[c].uuid, live |-> TRUE]
      BY <1>7, InsertEndpointRows
    <3> QED BY <1>7, <3>1, InsertEndpointRows
  <2>3. /\ req[c].uuid \in 1 .. uuids
        /\ \A i \in 1 .. Len(endpoints) : endpoints[i].uuid # req[c].uuid
    BY <2>1 DEF UuidsDiffer
  <2>4. \A i \in 1 .. Len(endpoints') : i \in 1 .. Len(endpoints) \/ i = Len(endpoints) + 1
    BY <2>2
  <2>5. \A i \in 1 .. Len(endpoints') : endpoints'[i].uuid \in 1 .. uuids'
    BY <2>1, <2>2, <2>3, <2>4 DEF UuidsDiffer
  <2>6. \A i, j \in 1 .. Len(endpoints') : endpoints'[i].uuid = endpoints'[j].uuid => i = j
    BY <2>2, <2>3, <2>4 DEF UuidsDiffer
  <2>7. ASSUME NEW d \in Clients, Subscribing(d)'
        PROVE  Subscribing(d) /\ req'[d] = req[d] /\ d # c
    BY <1>1, <2>1, <2>7 DEF Subscribing, Writing, Idle
  <2>8. ASSUME NEW d \in Clients, Subscribing(d)'
        PROVE  /\ req'[d].uuid \in 1 .. uuids'
               /\ \A i \in 1 .. Len(endpoints') : endpoints'[i].uuid # req'[d].uuid
               /\ \A e \in Clients : Subscribing(e)' /\ req'[e].uuid = req'[d].uuid => e = d
    <3>1. /\ Subscribing(d) /\ req'[d] = req[d] /\ d # c
          /\ req[d].uuid \in 1 .. uuids
          /\ \A i \in 1 .. Len(endpoints) : endpoints[i].uuid # req[d].uuid
          /\ req[c].uuid # req[d].uuid
      BY <2>1, <2>7, <2>8 DEF UuidsDiffer
    <3>2. \A i \in 1 .. Len(endpoints') : endpoints'[i].uuid # req'[d].uuid
      BY <2>2, <2>4, <3>1
    <3>3. \A e \in Clients : Subscribing(e)' /\ req'[e].uuid = req'[d].uuid => e = d
      BY <2>7, <3>1 DEF UuidsDiffer
    <3> QED BY <2>1, <3>1, <3>2, <3>3
  <2> QED BY <2>5, <2>6, <2>8 DEF UuidsDiffer
<1>8. ASSUME NEW server \in Services, Restart(server) PROVE UuidsDiffer'
  BY <1>1, <1>2, <1>8 DEF Restart
<1>9. CASE UNCHANGED vars
  BY <1>2, <1>9 DEF vars
<1>10. ASSUME NEW c \in Clients, LookupEndpoint(c) \/ LookupEndpointFails(c)
       PROVE  UuidsDiffer'
  BY <1>4, <1>10 DEF LookupEndpoint, LookupEndpointFails
<1>11. ASSUME NEW c \in Clients, Write(c) PROVE UuidsDiffer'
  BY <1>5, <1>6, <1>7, <1>11 DEF Write
<1> QED BY <1>3, <1>8, <1>9, <1>10, <1>11 DEF Next

\* The mapping, element by element.
Shown(i) == endpoints[i].live /\ resources[endpoints[i].topic].live
SubOf(i) == [key |-> KeyOf(resources[endpoints[i].topic]), uuid |-> endpoints[i].uuid]

LEMMA NamesAre ==
  ASSUME NEW k
  PROVE  /\ k \in LiveNames <=>
              \E i \in 1 .. Len(resources) : resources[i].live /\ k = KeyOf(resources[i])
         /\ k \in LiveNames' <=>
              \E i \in 1 .. Len(resources') : resources'[i].live /\ k = KeyOf(resources'[i])
  BY DEF LiveNames, KeyOf

LEMMA SubsAre ==
  ASSUME NEW s
  PROVE  /\ s \in LiveSubs <=> \E i \in 1 .. Len(endpoints) : Shown(i) /\ s = SubOf(i)
         /\ s \in LiveSubs' <=> \E i \in 1 .. Len(endpoints') : Shown(i)' /\ s = SubOf(i)'
  BY DEF LiveSubs, Shown, SubOf, KeyOf

RegistryInv == StoreInv /\ OneRowUntilMishap /\ UuidsDiffer

LEMMA TopicsExist ==
  ASSUME StoreInv, NEW i \in 1 .. Len(endpoints)
  PROVE  endpoints[i].topic \in 1 .. Len(resources)
  BY DEF StoreInv, SubscriptionsHaveTopics

LEMMA KeysAre ==
  ASSUME NEW row \in Row
  PROVE  KeyOf(row) \in [service : Services, account : Accounts, name : Names]
  BY DEF Row, KeyOf

LEMMA InsertResourceMaps ==
  ASSUME RegistryInv, NEW c \in Clients, InsertResource(c), mishaps' = {}
  PROVE  Registry!Next
<1> DEFINE n == Len(resources)
           k == KeyOf(resources'[n + 1])
<1>1. StoreInv
  BY DEF RegistryInv
<1>2. /\ n \in Nat /\ Len(resources') = n + 1
      /\ \A i \in 1 .. n : resources'[i] = resources[i]
      /\ resources'[n + 1] \in Row /\ resources'[n + 1].live
  <2>1. /\ NewRow(c) \in Row /\ n \in Nat /\ Len(resources') = n + 1
        /\ \A i \in 1 .. n : resources'[i] = resources[i]
        /\ resources'[n + 1] = NewRow(c)
    BY <1>1, InsertResourceRows
  <2>2. NewRow(c).live
    BY DEF NewRow
  <2> QED BY <2>1, <2>2
<1>3. \A i \in 1 .. n : resources[i].live => KeyOf(resources[i]) # k
  BY <1>1, InsertIsNew
<1>4. k \in [service : Services, account : Accounts, name : Names]
  BY <1>2, KeysAre
<1>5. UNCHANGED endpoints
  BY DEF InsertResource
<1> HIDE DEF k
<1>6. k \notin LiveNames
  BY <1>3, NamesAre
<1>7. \A x : x \in LiveNames' <=> x \in LiveNames \/ x = k
  <2> SUFFICES ASSUME NEW x PROVE x \in LiveNames' <=> x \in LiveNames \/ x = k
    OBVIOUS
  <2>1. ASSUME NEW i \in 1 .. n + 1, resources'[i].live, x = KeyOf(resources'[i])
        PROVE  x \in LiveNames \/ x = k
    <3>1. CASE i \in 1 .. n
      BY <1>2, <2>1, <3>1, NamesAre
    <3>2. CASE i = n + 1
      BY <2>1, <3>2 DEF k
    <3> QED BY <1>2, <3>1, <3>2
  <2>2. ASSUME NEW i \in 1 .. n, resources[i].live, x = KeyOf(resources[i])
        PROVE  x \in LiveNames'
    <3>1. i \in 1 .. n + 1 /\ resources'[i] = resources[i]
      BY <1>2
    <3> QED BY <1>2, <2>2, <3>1, NamesAre
  <2>3. k \in LiveNames'
    <3>1. n + 1 \in 1 .. n + 1
      BY <1>2
    <3> QED BY <1>2, <3>1, NamesAre DEF k
  <2> QED BY <1>2, <2>1, <2>2, <2>3, NamesAre
<1>8. LiveNames' = LiveNames \union {k}
  BY <1>7
<1>9. \A i \in 1 .. Len(endpoints) : Shown(i)' = Shown(i) /\ SubOf(i)' = SubOf(i)
  BY <1>1, <1>2, <1>5, TopicsExist DEF Shown, SubOf
<1>10. \A s : s \in LiveSubs' <=> s \in LiveSubs
  BY <1>5, <1>9, SubsAre
<1>11. LiveSubs' = LiveSubs
  BY <1>10
<1>12. Registry!Create(k)
  BY <1>6, <1>8, <1>11 DEF Registry!Create
<1> QED BY <1>4, <1>12 DEF Registry!Next

\* The row goes with the subscriptions that hang on it.
LEMMA DeleteResourceMaps ==
  ASSUME RegistryInv, NEW c \in Clients, DeleteResource(c), mishaps' = {}, mishaps = {}
  PROVE  Registry!Next \/ UNCHANGED <<LiveNames, LiveSubs>>
<1> DEFINE r == req[c].row
           k == KeyOf(resources[r])
<1>1. StoreInv
  BY DEF RegistryInv
<1>2. r # 0 /\ UNCHANGED endpoints
  BY DEF DeleteResource
<1>3. /\ Len(resources) \in Nat /\ Len(resources') = Len(resources)
      /\ \A i \in 1 .. Len(resources) :
            /\ KeyOf(resources'[i]) = KeyOf(resources[i])
            /\ resources'[i].live = (resources[i].live /\ i # r)
  BY <1>1, <1>2, DeleteResourceRows
<1>4. r \in 1 .. Len(resources)
  <2>1. TypeOK /\ req[c] \in Request /\ RequestOK(req[c])
    BY <1>1, WritingRequest DEF StoreInv, DeleteResource
  <2> QED BY <1>2, <1>3, <2>1 DEF RequestOK, Request
<1>5. \A i \in 1 .. Len(endpoints) :
         /\ endpoints[i].topic \in 1 .. Len(resources)
         /\ SubOf(i)' = SubOf(i)
         /\ Shown(i)' = (Shown(i) /\ endpoints[i].topic # r)
  BY <1>1, <1>2, <1>3, TopicsExist DEF Shown, SubOf
<1>6. CASE ~ resources[r].live
  <2>1. \A i \in 1 .. Len(resources) : resources'[i].live <=> resources[i].live
    BY <1>3, <1>6
  <2>2. \A x : x \in LiveNames' <=> x \in LiveNames
    BY <1>3, <2>1, NamesAre
  <2>3. \A i \in 1 .. Len(endpoints) : Shown(i)' = Shown(i)
    BY <1>5, <1>6 DEF Shown
  <2>4. \A s : s \in LiveSubs' <=> s \in LiveSubs
    BY <1>2, <1>5, <2>3, SubsAre
  <2>5. LiveNames' = LiveNames
    BY <2>2
  <2>6. LiveSubs' = LiveSubs
    BY <2>4
  <2> QED BY <2>5, <2>6
<1>7. CASE resources[r].live
  <2>1. \A i \in 1 .. Len(resources) : resources[i].live /\ KeyOf(resources[i]) = k => i = r
    BY <1>4, <1>7 DEF RegistryInv, OneRowUntilMishap
  <2>2. k \in LiveNames
    BY <1>4, <1>7, NamesAre
  <2>3. k \in [service : Services, account : Accounts, name : Names]
    BY <1>1, <1>4, ElementOfSeq, KeysAre DEF StoreInv, TypeOK
  <2> HIDE DEF k
  <2>4. ASSUME NEW x PROVE x \in LiveNames' <=> x \in LiveNames /\ x # k
    <3>1. ASSUME NEW i \in 1 .. Len(resources)
          PROVE  resources'[i].live /\ x = KeyOf(resources'[i]) <=>
                   resources[i].live /\ x = KeyOf(resources[i]) /\ x # k
      BY <1>3, <2>1, <3>1 DEF k
    <3> QED BY <1>3, <3>1, NamesAre
  <2>5. LiveNames' = LiveNames \ {k}
    BY <2>4
  <2>6. ASSUME NEW s PROVE s \in LiveSubs' <=> s \in LiveSubs /\ s.key # k
    <3>1. ASSUME NEW i \in 1 .. Len(endpoints)
          PROVE  Shown(i)' /\ s = SubOf(i)' <=> Shown(i) /\ s = SubOf(i) /\ s.key # k
      <4>1. SubOf(i).key = KeyOf(resources[endpoints[i].topic])
        BY DEF SubOf
      <4>2. Shown(i) => (SubOf(i).key = k <=> endpoints[i].topic = r)
        BY <1>5, <2>1, <4>1 DEF Shown, k
      <4> QED BY <1>5, <4>2
    <3> QED BY <1>2, <3>1, SubsAre
  <2>7. LiveSubs' = LiveSubs \ Registry!SubsOf(k)
    BY <2>6 DEF Registry!SubsOf
  <2>8. Registry!Delete(k)
    BY <2>2, <2>5, <2>7 DEF Registry!Delete
  <2> QED BY <2>3, <2>8 DEF Registry!Next
<1> QED BY <1>6, <1>7

\* A subscription to a topic that has gone is no subscription.
LEMMA InsertEndpointMaps ==
  ASSUME RegistryInv, NEW c \in Clients, InsertEndpoint(c)
  PROVE  Registry!Next \/ UNCHANGED <<LiveNames, LiveSubs>>
<1>0. PICK n \in Nat : n = Len(endpoints)
  BY LenProperties DEF RegistryInv, StoreInv, TypeOK
<1> DEFINE r == req[c].row
           u == req[c].uuid
           k == KeyOf(resources[r])
<1>1. StoreInv /\ UNCHANGED resources /\ Subscribing(c)
  BY DEF RegistryInv, InsertEndpoint, Subscribing
<1>2. /\ r \in 1 .. Len(resources) /\ n \in Nat /\ Len(endpoints') = n + 1
      /\ \A i \in 1 .. n : endpoints'[i] = endpoints[i]
      /\ endpoints'[n + 1] = [topic |-> r, uuid |-> u, live |-> TRUE]
  BY <1>0, <1>1, InsertEndpointRows
<1>3. u \in 1 .. uuids /\ \A i \in 1 .. n : endpoints[i].uuid # u
  BY <1>0, <1>1 DEF RegistryInv, UuidsDiffer
<1>4. LiveNames' = LiveNames
  BY <1>1 DEF LiveNames, KeyOf
<1>5. \A i \in 1 .. n : Shown(i)' = Shown(i) /\ SubOf(i)' = SubOf(i)
  BY <1>1, <1>2 DEF Shown, SubOf, KeyOf
<1>6. /\ Shown(n + 1)' <=> resources[r].live
      /\ SubOf(n + 1)' = [key |-> k, uuid |-> u]
  <2>1. endpoints'[n + 1].topic = r /\ endpoints'[n + 1].uuid = u /\ endpoints'[n + 1].live
    BY <1>2
  <2> QED BY <1>1, <2>1 DEF Shown, SubOf, KeyOf
<1> HIDE DEF k
<1>7. ASSUME NEW s
      PROVE  s \in LiveSubs' <=>
               s \in LiveSubs \/ (resources[r].live /\ s = [key |-> k, uuid |-> u])
  <2>1. s \in LiveSubs' <=> \E i \in 1 .. n + 1 : Shown(i)' /\ s = SubOf(i)'
    BY <1>2, SubsAre
  <2>2. s \in LiveSubs <=> \E i \in 1 .. n : Shown(i)' /\ s = SubOf(i)'
    BY <1>0, <1>5, SubsAre
  <2>3. \A i \in 1 .. n : i \in 1 .. n + 1
    BY <1>2
  <2>4. \A i \in 1 .. n + 1 : i \in 1 .. n \/ i = n + 1
    BY <1>2
  <2>5. n + 1 \in 1 .. n + 1
    BY <1>2
  <2>6. ASSUME NEW i \in 1 .. n + 1, Shown(i)', s = SubOf(i)'
        PROVE  s \in LiveSubs \/ (resources[r].live /\ s = [key |-> k, uuid |-> u])
    <3>1. CASE i \in 1 .. n
      BY <2>2, <2>6, <3>1, Zenon
    <3>2. CASE i = n + 1
      BY <1>6, <2>6, <3>2, Zenon
    <3> QED BY <2>4, <3>1, <3>2, Zenon
  <2>7. s \in LiveSubs => s \in LiveSubs'
    BY <2>1, <2>2, <2>3, Zenon
  <2>8. resources[r].live /\ s = [key |-> k, uuid |-> u] => s \in LiveSubs'
    BY <1>6, <2>1, <2>5, Zenon
  <2> QED BY <2>1, <2>6, <2>7, <2>8, Zenon
<1>8. CASE ~ resources[r].live
  <2>1. \A s : s \in LiveSubs' <=> s \in LiveSubs
    BY <1>7, <1>8, Zenon
  <2>2. LiveSubs' = LiveSubs
    BY <2>1
  <2> QED BY <1>4, <2>2
<1>9. CASE resources[r].live
  <2>1. LiveSubs' = LiveSubs \union {[key |-> k, uuid |-> u]}
    <3>1. \A s : s \in LiveSubs' <=> s \in LiveSubs \/ s = [key |-> k, uuid |-> u]
      BY <1>7, <1>9, Zenon
    <3> QED BY <3>1
  <2>2. k \in LiveNames
    BY <1>2, <1>9, NamesAre DEF k
  <2>3. \A s \in LiveSubs : s.uuid # u
    BY <1>0, <1>3, SubsAre DEF SubOf
  <2>4. Registry!Subscribe(k, u)
    BY <1>4, <2>1, <2>2, <2>3 DEF Registry!Subscribe
  <2>5. k \in [service : Services, account : Accounts, name : Names]
    BY <1>1, <1>2, ElementOfSeq, KeysAre DEF StoreInv, TypeOK, k
  <2>6. u \in 1 .. MaxUuids
    BY <1>1, <1>3, BoundAssumption DEF StoreInv, TypeOK
  <2> QED BY <2>4, <2>5, <2>6 DEF Registry!Next
<1> QED BY <1>8, <1>9

LEMMA DeleteEndpointMaps ==
  ASSUME RegistryInv, NEW c \in Clients, DeleteEndpoint(c), mishaps' = {}
  PROVE  Registry!Next \/ UNCHANGED <<LiveNames, LiveSubs>>
<1> DEFINE e == req[c].sub
           x == SubOf(e)
<1>1. StoreInv /\ UNCHANGED resources /\ e # 0
  BY DEF RegistryInv, DeleteEndpoint
<1>2. /\ Len(endpoints') = Len(endpoints)
      /\ \A i \in 1 .. Len(endpoints) :
            /\ endpoints'[i].topic = endpoints[i].topic
            /\ endpoints'[i].uuid = endpoints[i].uuid
            /\ endpoints'[i].live = (endpoints[i].live /\ i # e)
  BY <1>1, DeleteEndpointRows
<1>3. LiveNames' = LiveNames
  BY <1>1 DEF LiveNames, KeyOf
<1>4. \A i \in 1 .. Len(endpoints) :
         SubOf(i)' = SubOf(i) /\ Shown(i)' = (Shown(i) /\ i # e)
  BY <1>1, <1>2 DEF Shown, SubOf, KeyOf
<1>5. CASE e \notin 1 .. Len(endpoints) \/ ~ Shown(e)
  <2>1. \A i \in 1 .. Len(endpoints) : Shown(i)' <=> Shown(i)
    BY <1>4, <1>5
  <2>2. \A s : s \in LiveSubs' <=> s \in LiveSubs
    BY <1>2, <1>4, <2>1, SubsAre
  <2>3. LiveSubs' = LiveSubs
    BY <2>2
  <2> QED BY <1>3, <2>3
<1>6. CASE e \in 1 .. Len(endpoints) /\ Shown(e)
  <2>1. \A i \in 1 .. Len(endpoints) : SubOf(i) = x => i = e
    <3>1. \A i, j \in 1 .. Len(endpoints) : endpoints[i].uuid = endpoints[j].uuid => i = j
      BY DEF RegistryInv, UuidsDiffer
    <3>2. \A i : SubOf(i).uuid = endpoints[i].uuid
      BY DEF SubOf
    <3> QED BY <1>6, <3>1, <3>2
  <2>2. x \in LiveSubs
    BY <1>6, SubsAre
  <2> HIDE DEF x
  <2>3. ASSUME NEW s PROVE s \in LiveSubs' <=> s \in LiveSubs /\ s # x
    <3>1. ASSUME NEW i \in 1 .. Len(endpoints)
          PROVE  Shown(i)' /\ s = SubOf(i)' <=> Shown(i) /\ s = SubOf(i) /\ s # x
      BY <1>4, <2>1, <3>1 DEF x
    <3> QED BY <1>2, <3>1, SubsAre
  <2>4. LiveSubs' = LiveSubs \ {x}
    BY <2>3
  <2>5. Registry!Unsubscribe(x)
    BY <1>3, <2>2, <2>4 DEF Registry!Unsubscribe
  <2> QED BY <2>2, <2>5 DEF Registry!Next
<1> QED BY <1>5, <1>6

\* Only four statements write the tables.
LEMMA TablesWritten ==
  ASSUME [Next]_vars
  PROVE  \/ UNCHANGED <<resources, endpoints>>
         \/ \E c \in Clients : \/ InsertResource(c) \/ DeleteResource(c)
                               \/ InsertEndpoint(c) \/ DeleteEndpoint(c)
<1>1. ASSUME NEW c \in Clients, Lookup(c) \/ LookupFails(c)
      PROVE  UNCHANGED <<resources, endpoints>>
  <2>1. PICK op, service, account, name, uuid, id, failed :
           Looked(c, op, service, account, name, uuid, id, failed)
    BY <1>1 DEF Lookup, LookupFails
  <2> QED BY <2>1 DEF Looked
<1>2. ASSUME NEW c \in Clients, LookupEndpoint(c) \/ LookupEndpointFails(c)
      PROVE  UNCHANGED <<resources, endpoints>>
  BY <1>2 DEF LookupEndpoint, LookupEndpointFails, FoundEndpoint
<1>3. ASSUME NEW c \in Clients, WriteFails(c) PROVE UNCHANGED <<resources, endpoints>>
  BY <1>3 DEF WriteFails
<1>4. ASSUME NEW server \in Services, Restart(server)
      PROVE  UNCHANGED <<resources, endpoints>>
  BY <1>4 DEF Restart
<1>5. CASE UNCHANGED vars
  BY <1>5 DEF vars
<1> QED BY <1>1, <1>2, <1>3, <1>4, <1>5 DEF Next, Write

\* Until a Delete runs without a condition or a name is given a second row,
\* the handlers, statement by statement and however they overlap and fail, do
\* what the one-step operations of ResourceRegistry do.
THEOREM RefinesRegistry == Spec => RegistryUntilMishap
<1>1. Init => Registry!Init
  BY EmptySeq DEF Init, Registry!Init, LiveNames, LiveSubs
<1>2. Init => RegistryInv
  BY StoreInvInit, EmptySeq DEF Init, RegistryInv, OneRowUntilMishap, UuidsDiffer,
     Subscribing, Writing, Idle
<1>3. RegistryInv /\ [Next]_vars => RegistryInv'
  BY StoreInvStep, OneRowStep, UuidsStep DEF RegistryInv
<1>4. ASSUME RegistryInv, [Next]_vars
      PROVE  [mishaps' = {} => Registry!Next \/ UNCHANGED <<LiveNames, LiveSubs>>]_vars
  <2>1. SUFFICES ASSUME mishaps' = {}
                 PROVE  Registry!Next \/ UNCHANGED <<LiveNames, LiveSubs>>
    OBVIOUS
  <2>2. mishaps = {}
    BY <1>4, <2>1, MishapsGrow
  <2>3. CASE UNCHANGED <<resources, endpoints>>
    BY <2>3 DEF LiveNames, LiveSubs, KeyOf
  <2> QED BY <1>4, <2>1, <2>2, <2>3, TablesWritten, InsertResourceMaps,
             DeleteResourceMaps, InsertEndpointMaps, DeleteEndpointMaps
<1> QED BY <1>1, <1>2, <1>3, <1>4, PTL DEF Spec, RegistryUntilMishap
-----------------------------------------------------------------------------
(* Listings. *)

\* What no request does: a row does not come back, nor does a subscription, and neither
\* becomes another's.
OnlyGoes ==
    /\ \A i \in 1 .. Len(resources) :
          /\ i \in 1 .. Len(resources') /\ resources'[i].account = resources[i].account
          /\ resources'[i].live => resources[i].live
    /\ \A i \in 1 .. Len(endpoints) :
          /\ i \in 1 .. Len(endpoints') /\ endpoints'[i].topic = endpoints[i].topic
          /\ endpoints'[i].live => endpoints[i].live

LEMMA OnlyGoesStep ==
  ASSUME StoreInv, [Next]_vars
  PROVE  OnlyGoes
<1>1. Len(resources) \in Nat /\ Len(endpoints) \in Nat
  BY LenProperties DEF StoreInv, TypeOK
<1>2. CASE UNCHANGED <<resources, endpoints>>
  BY <1>2 DEF OnlyGoes
<1>3. ASSUME NEW c \in Clients, InsertResource(c) PROVE OnlyGoes
  BY <1>1, <1>3, InsertResourceRows DEF OnlyGoes, InsertResource
<1>4. ASSUME NEW c \in Clients, DeleteResource(c) PROVE OnlyGoes
  BY <1>1, <1>4, DeleteResourceRows DEF OnlyGoes, DeleteResource, KeyOf
<1>5. ASSUME NEW c \in Clients, InsertEndpoint(c) PROVE OnlyGoes
  BY <1>1, <1>5, InsertEndpointRows DEF OnlyGoes, InsertEndpoint
<1>6. ASSUME NEW c \in Clients, DeleteEndpoint(c) PROVE OnlyGoes
  BY <1>1, <1>6, DeleteEndpointRows DEF OnlyGoes, DeleteEndpoint
<1> QED BY <1>2, <1>3, <1>4, <1>5, <1>6, TablesWritten

Listings ==
    [at : {"endpoints"}, account : Accounts, topics : SUBSET (Nat \ {0}), got : SUBSET Nat,
     failed : SUBSET Nat]

\* The topics it has still to read are of the account; `must' are subscriptions there are
\* now, and those there are now are in `may'; a subscription in `must' was read, will be,
\* or is of a topic that could not be.
ListingOK(l) ==
    /\ must \subseteq Subscriptions(l.account) /\ Subscriptions(l.account) \subseteq may
    /\ \A t \in l.topics : t \in 1 .. Len(resources) /\ resources[t].account = l.account
    /\ \A i \in must : i \in l.got \/ endpoints[i].topic \in l.topics \union l.failed
    /\ \A i \in l.got : /\ i \in 1 .. Len(endpoints)
                        /\ i \in may \/ ~resources[endpoints[i].topic].live

ListingInv ==
    /\ StoreInv
    /\ listing # NotListing => listing \in Listings /\ ListingOK(listing)

LEMMA IdleListing == NotListing \notin Listings /\ NotListing.at = "idle"
  BY DEF NotListing, Listings

\* What a step does to the tables beside the listing.
LEMMA StoreBesideListing ==
  ASSUME StoreInv, [ListingNext]_listVars
  PROVE  StoreInv' /\ OnlyGoes
<1>1. CASE Next \/ UNCHANGED vars
  BY <1>1, StoreInvStep, OnlyGoesStep
<1>2. CASE Fault /\ UNCHANGED <<resources, endpoints, req, uuids, mishaps>>
  <2>1. faults' \in 0 .. MaxFaults
    BY <1>2, FaultRange DEF StoreInv, TypeOK
  <2>2. TypeOK'
    BY <1>2, <2>1 DEF StoreInv, TypeOK
  <2>3. SubscriptionsHaveTopics' /\ \A c \in Clients : req'[c] # Idle => RequestOK(req[c])'
    BY <1>2 DEF StoreInv, SubscriptionsHaveTopics, RequestOK
  <2> QED BY <1>2, <2>2, <2>3 DEF StoreInv, OnlyGoes
<1> QED BY <1>1, <1>2 DEF ListingNext, listVars

\* A subscription of an account is one to a row of the account that is there.
LEMMA SubscriptionsAre ==
  ASSUME StoreInv, NEW account, NEW i \in Subscriptions(account)
  PROVE  /\ i \in 1 .. Len(endpoints) /\ endpoints[i].live
         /\ endpoints[i].topic \in 1 .. Len(resources)
         /\ resources[endpoints[i].topic].live
         /\ resources[endpoints[i].topic].account = account
  BY DEF StoreInv, SubscriptionsHaveTopics, Subscriptions

\* Beside the listing.
LEMMA ListingWaits ==
  ASSUME ListingInv, listing # NotListing, OnlyGoes, UNCHANGED listing, Follow
  PROVE  ListingOK(listing)'
<1> DEFINE now == Subscriptions(listing.account)'
<1>1. listing \in Listings /\ ListingOK(listing) /\ StoreInv
  BY DEF ListingInv
<1>2. listing.at = "endpoints" /\ listing.account \in Accounts
  BY <1>1 DEF Listings
<1>3. must' = must \intersect now /\ may' = may \union now
  BY <1>2 DEF Follow, ListingAt
<1>4. \A t \in listing.topics : t \in 1 .. Len(resources') /\ resources'[t].account = listing.account
  BY <1>1 DEF ListingOK, OnlyGoes
<1>5. ASSUME NEW i \in must
      PROVE  i \in listing.got \/ endpoints'[i].topic \in listing.topics \union listing.failed
  <2>1. i \in 1 .. Len(endpoints)
    BY <1>1, SubscriptionsAre DEF ListingOK
  <2> QED BY <1>1, <2>1 DEF ListingOK, OnlyGoes
<1>6. ASSUME NEW i \in listing.got
      PROVE  i \in 1 .. Len(endpoints') /\ (i \in may \/ ~resources'[endpoints'[i].topic].live)
  <2>1. i \in 1 .. Len(endpoints) /\ (i \in may \/ ~resources[endpoints[i].topic].live)
    BY <1>1 DEF ListingOK
  <2>2. endpoints[i].topic \in 1 .. Len(resources)
    BY <1>1, <2>1 DEF StoreInv, SubscriptionsHaveTopics
  <2> QED BY <2>1, <2>2 DEF OnlyGoes
<1> HIDE DEF now
<1>7. now = Subscriptions(listing.account)'
  BY DEF now
<1> QED BY <1>3, <1>4, <1>5, <1>6, <1>7 DEF ListingOK

\* While a listing reads, the tables are as they were.
LEMMA ListingReads ==
  ASSUME ListingInv, listing # NotListing, UNCHANGED vars, Follow,
         FindEndpoints \/ ListingEnds
  PROVE  listing' # NotListing => listing' \in Listings /\ ListingOK(listing)'
<1>1. listing \in Listings /\ ListingOK(listing) /\ StoreInv
  BY DEF ListingInv
<1>2. CASE ListingEnds
  BY <1>2 DEF ListingEnds
<1>3. CASE FindEndpoints
  <2> DEFINE t == NextTopic
             found == EndpointsOf(NextTopic)
             now == Subscriptions(listing.account)
  <2>1. t \in listing.topics
    BY <1>1, <1>3, FirstIdIn DEF FindEndpoints, NextTopic, Listings
  <2>2. t \in 1 .. Len(resources) /\ resources[t].account = listing.account /\ t # 0
    BY <1>1, <2>1 DEF ListingOK, Listings
  <2>3. \A i : i \in found <=> i \in 1 .. Len(endpoints) /\ endpoints[i].live /\ endpoints[i].topic = t
    BY <2>2 DEF EndpointsOf, MatchingEndpoints
  <2>4. found \in SUBSET Nat
    BY <1>1, EndpointsAre DEF EndpointsOf, StoreInv
  <2>5. listing' = [listing EXCEPT !.topics = @ \ {t}, !.got = @ \union found]
    BY <1>3 DEF FindEndpoints
  <2> HIDE DEF t, found
  <2>6. listing' \in Listings
    BY <1>1, <2>4, <2>5 DEF Listings
  <2>7. /\ listing'.topics = listing.topics \ {t} /\ listing'.got = listing.got \union found
        /\ listing'.failed = listing.failed /\ listing'.account = listing.account
        /\ listing'.at = "endpoints" /\ listing.at = "endpoints" /\ listing.account \in Accounts
    BY <1>1, <2>5 DEF Listings
  <2>8. UNCHANGED <<resources, endpoints>> /\ Subscriptions(listing.account)' = now
    BY <2>7 DEF vars, Subscriptions
  <2>9. must' = must /\ may' = may
    BY <1>1, <2>7, <2>8 DEF Follow, ListingAt, ListingOK, vars, Subscriptions
  <2>10. ASSUME NEW i \in found PROVE i \in now \/ ~resources[endpoints[i].topic].live
    BY <2>2, <2>3, <2>10 DEF Subscriptions
  <2>11. ASSUME NEW i \in must, endpoints[i].topic = t PROVE i \in found
    BY <1>1, <2>3, <2>11, SubscriptionsAre DEF ListingOK
  <2>12. \A i \in listing'.got : /\ i \in 1 .. Len(endpoints)
                                 /\ i \in may \/ ~resources[endpoints[i].topic].live
    BY <1>1, <2>3, <2>7, <2>10 DEF ListingOK
  <2>13. \A i \in must : i \in listing'.got \/ endpoints[i].topic \in listing'.topics \union listing'.failed
    BY <1>1, <2>7, <2>11 DEF ListingOK
  <2>14. must \subseteq now /\ now \subseteq may
    BY <1>1 DEF ListingOK
  <2>15. \A k \in listing'.topics : k \in 1 .. Len(resources) /\ resources[k].account = listing'.account
    BY <1>1, <2>7 DEF ListingOK
  <2> HIDE DEF now
  <2> QED BY <2>6, <2>8, <2>9, <2>12, <2>13, <2>14, <2>15 DEF ListingOK
<1> QED BY <1>2, <1>3

LEMMA ListingFails ==
  ASSUME ListingInv, UNCHANGED <<resources, endpoints>>, Follow, FindEndpointsFails
  PROVE  listing' # NotListing => listing' \in Listings /\ ListingOK(listing)'
<1> DEFINE t == NextTopic
           now == Subscriptions(listing.account)
<1>1. listing # NotListing /\ listing \in Listings /\ ListingOK(listing) /\ StoreInv
  BY IdleListing DEF ListingInv, FindEndpointsFails, ListingAt
<1>2. listing' = [listing EXCEPT !.topics = @ \ {t}, !.failed = @ \union {t}] /\ t \in Nat
  BY <1>1, FirstIdIn DEF FindEndpointsFails, NextTopic, Listings
<1> HIDE DEF t
<1>3. listing' \in Listings
  BY <1>1, <1>2 DEF Listings
<1>4. /\ listing'.topics = listing.topics \ {t} /\ listing'.failed = listing.failed \union {t}
      /\ listing'.got = listing.got /\ listing'.account = listing.account
      /\ listing'.at = "endpoints" /\ listing.at = "endpoints" /\ listing.account \in Accounts
  BY <1>1, <1>2 DEF Listings
<1>5. Subscriptions(listing.account)' = now
  BY <1>4 DEF Subscriptions
<1>6. must' = must /\ may' = may
  BY <1>1, <1>4, <1>5 DEF Follow, ListingAt, ListingOK, Subscriptions
<1>7. must \subseteq now /\ now \subseteq may
  BY <1>1 DEF ListingOK
<1>8. \A i \in must : i \in listing'.got \/ endpoints[i].topic \in listing'.topics \union listing'.failed
  BY <1>1, <1>4 DEF ListingOK
<1> HIDE DEF now
<1> QED BY <1>1, <1>3, <1>4, <1>5, <1>6, <1>7, <1>8 DEF ListingOK

\* A listing begins.
LEMMA ListingBegins ==
  ASSUME ListingInv, UNCHANGED <<resources, endpoints>>, Follow, NEW account \in Accounts,
         NEW topics, NEW failed \in SUBSET Nat, Find(account, topics, failed),
         topics \subseteq {i \in 1 .. Len(resources) : resources[i].account = account},
         \A i \in 1 .. Len(resources) :
            resources[i].live /\ resources[i].account = account => i \in topics \union failed
  PROVE  listing' \in Listings /\ ListingOK(listing)'
<1>1. StoreInv /\ Len(resources) \in Nat
  BY LenProperties DEF ListingInv, StoreInv, TypeOK
<1>2. /\ listing' = [at |-> "endpoints", account |-> account, topics |-> topics, got |-> {},
                     failed |-> failed]
      /\ listing = NotListing
  BY DEF Find
<1>3. topics \in SUBSET (Nat \ {0})
  BY <1>1
<1>4. listing' \in Listings
  BY <1>2, <1>3 DEF Listings
<1> DEFINE now == Subscriptions(account)
<1>5. Subscriptions(account)' = now
  BY DEF Subscriptions
<1>6. must' = now /\ may' = now
  BY <1>2, <1>5, IdleListing DEF Follow, ListingAt, Subscriptions
<1>7. \A i \in now : endpoints[i].topic \in topics \union failed
  BY <1>1, SubscriptionsAre
<1> HIDE DEF now
<1> QED BY <1>2, <1>4, <1>5, <1>6, <1>7 DEF ListingOK

LEMMA ListingStep == ListingInv /\ [ListingNext]_listVars => ListingInv'
<1> SUFFICES ASSUME ListingInv, [ListingNext]_listVars PROVE ListingInv'
    OBVIOUS
<1>1. StoreInv /\ StoreInv' /\ OnlyGoes
  BY StoreBesideListing DEF ListingInv
<1> SUFFICES ASSUME listing' # NotListing PROVE listing' \in Listings /\ ListingOK(listing)'
    BY <1>1 DEF ListingInv
<1>2. CASE UNCHANGED listVars
  BY <1>2 DEF listVars, vars, ListingInv, ListingOK, Subscriptions
<1>3. CASE Next /\ UNCHANGED <<listing, listings>> /\ Follow
  BY <1>1, <1>3, ListingWaits DEF ListingInv
<1>4. CASE FindTopics /\ UNCHANGED vars /\ Follow
  <2>1. PICK account \in Accounts :
           Find(account, {i \in 1 .. Len(resources) : resources[i].live /\ resources[i].account = account}, {})
    BY <1>4 DEF FindTopics
  <2>2. UNCHANGED <<resources, endpoints>>
    BY <1>4 DEF vars
  <2>3. {i \in 1 .. Len(resources) : resources[i].live /\ resources[i].account = account}
          \subseteq {i \in 1 .. Len(resources) : resources[i].account = account}
    OBVIOUS
  <2> QED BY <1>4, <2>1, <2>2, <2>3, ListingBegins
<1>5. CASE (FindEndpoints \/ ListingEnds) /\ UNCHANGED vars /\ Follow
  <2>1. listing # NotListing
    BY <1>5, IdleListing DEF FindEndpoints, ListingEnds, ListingAt
  <2> QED BY <1>5, <2>1, ListingReads
<1>6. CASE FindEndpointsFails /\ UNCHANGED <<resources, endpoints>> /\ Follow
  BY <1>6, ListingFails
<1>7. ASSUME NEW account \in Accounts, Find(account, {}, DOMAIN resources),
             UNCHANGED <<resources, endpoints>>, Follow
      PROVE  listing' \in Listings /\ ListingOK(listing)'
  <2>1. DOMAIN resources = 1 .. Len(resources) /\ Len(resources) \in Nat
    BY <1>1, LenProperties DEF StoreInv, TypeOK
  <2>2. DOMAIN resources \in SUBSET Nat
    BY <2>1
  <2> QED BY <1>7, <2>1, <2>2, ListingBegins
<1> QED BY <1>2, <1>3, <1>4, <1>5, <1>6, <1>7 DEF ListingNext

\* Whatever requests run meanwhile, for any number of topics and subscriptions: a listing
\* has what was there all the time, but what could not be read, and nothing that was never
\* there.
THEOREM ListingsHold == ListingSpec => []ListingIsTrue
<1>1. ListingInit => ListingInv
  BY StoreInvInit DEF ListingInit, ListingInv
<1>2. ListingInv => ListingIsTrue
  BY IdleListing DEF ListingInv, ListingOK, ListingIsTrue, ListingAt
<1> QED BY <1>1, <1>2, ListingStep, PTL DEF ListingSpec
=============================================================================
