---------------------------- MODULE ResourceStore ----------------------------
(***************************************************************************)
(* The queues, topics and subscriptions of kaoliang: the rows of the       *)
(* tables `resources' and `endpoints' and the handlers that write them     *)
(* (pkg/controllers/queue.go, pkg/controllers/topic.go).  A handler runs   *)
(* one SQL statement per step, outside any transaction, and other requests *)
(* run in between.                                                         *)
(*                                                                         *)
(* The rows follow gorm: a condition built from a struct leaves out the    *)
(* fields that are zero, First takes the lowest id, Delete marks a row as  *)
(* deleted, every query skips the marked rows, and Delete of a struct with *)
(* id 0 has no condition but that.  A row's id is its position.  The two   *)
(* tables have no unique key but the id.                                   *)
(*                                                                         *)
(* A request that is refused before its first statement (credentials, a    *)
(* malformed name or ARN, a queue or topic ARN of another account) changes *)
(* nothing and is left out; so are the List operations, which only read    *)
(* (ResourceListing), and ARNs whose service only begins with sqs or sns.  *)
(***************************************************************************)
EXTENDS Integers, FiniteSets, Sequences

CONSTANTS Clients,   \* requests in progress at once
          Accounts, Names,
          NoName,    \* the empty name, which only DeleteQueue lets through
          MaxRows,   \* bound: rows ever inserted into resources
          MaxUuids,  \* bound: subscription names ever generated
          MaxFaults  \* bound: statements that fail

ASSUME BoundAssumption ==
    MaxRows \in Nat /\ MaxUuids \in Nat /\ MaxFaults \in Nat
ASSUME NameAssumption == NoName \notin Names
ASSUME ClientsAssumption == IsFiniteSet(Clients)

VARIABLES resources,  \* rows [service, account, name, live]
          endpoints,  \* rows [topic, uuid, live]; topic is a resource id
          req,        \* req[c]: the request c has in progress
          uuids,      \* subscription names generated: 1 .. uuids
          mishaps,    \* history: what has gone wrong (MishapKinds)
          faults      \* history: statements that failed

vars == <<resources, endpoints, req, uuids, mishaps, faults>>

\* A Delete ran without a condition it should have had; a row was inserted for
\* a name that had one by then.
MishapKinds == {"unfiltered", "duplicate"}

Services == {"sqs", "sns"}
Ops == {"CreateQueue", "DeleteQueue", "CreateTopic", "DeleteTopic",
        "Subscribe", "Unsubscribe"}

\* A request: its parameters, the next statement (`at') and the ids that its
\* lookups found, 0 when none.  uuid 0 stands for the empty name.
Request == [op : Ops, service : Services, account : Accounts,
            name : Names \union {NoName}, uuid : Nat,
            at : {"endpoint", "write"}, row : Nat, sub : Nat]
Idle == [at |-> "idle"]

Init ==
    /\ resources = <<>>
    /\ endpoints = <<>>
    /\ req = [c \in Clients |-> Idle]
    /\ uuids = 0
    /\ mishaps = {}
    /\ faults = 0

-----------------------------------------------------------------------------
(* gorm. *)

\* Variant: the column `service' is left out of the condition.
MatchesAnyService(row, service, account, name) ==
    row.live /\ row.account = account /\ name \in {row.name, NoName}

Matches(row, service, account, name) ==
    row.live /\ row.service = service /\ row.account = account
             /\ name \in {row.name, NoName}

LiveRows(service, account, name) ==
    {i \in 1 .. Len(resources) : Matches(resources[i], service, account, name)}

\* The id that First returns for these rows.
FirstId(ids) == IF ids = {} THEN 0 ELSE CHOOSE i \in ids : \A j \in ids : i <= j

\* Endpoint{Name, ResourceID}, each condition only when it is not zero.
MatchingEndpoints(uuid, topic) ==
    {i \in 1 .. Len(endpoints) : /\ endpoints[i].live
                                 /\ uuid = 0 \/ endpoints[i].uuid = uuid
                                 /\ topic = 0 \/ endpoints[i].topic = topic}

\* db.Delete(&row) of a table: row 0 is every row.
AfterDelete(table, id) ==
    [i \in DOMAIN table |->
        IF id \in {0, i} THEN [table[i] EXCEPT !.live = FALSE] ELSE table[i]]

-----------------------------------------------------------------------------
(* The first statement: First on resources. *)

Pending(service, account, name) ==
    {c \in Clients : /\ req[c].at = "write"
                     /\ req[c].op \in {"CreateQueue", "CreateTopic"}
                     /\ req[c].service = service
                     /\ req[c].account = account
                     /\ req[c].name = name}

\* The service is that of the operation; for subscriptions the ARN names it.
ServiceOf(op) ==
    CASE op \in {"CreateQueue", "DeleteQueue"} -> {"sqs"}
      [] op \in {"CreateTopic", "DeleteTopic"} -> {"sns"}
      [] OTHER -> Services

NamesFor(op) == Names \union (IF op = "DeleteQueue" THEN {NoName} ELSE {})

\* Variant: the queue or topic is created whatever the lookup found.
GoesOnIfFound(op, id, failed) ==
    op \notin {"DeleteQueue", "Subscribe"} \/ id # 0

\* Whether the handler goes on after a lookup that found id, or that failed.
\* CreateQueue takes any error but RecordNotFound for an existing queue,
\* DeleteQueue takes it for success; FirstOrCreate gives up; Association does
\* nothing for a topic with id 0; DeleteTopic and Unsubscribe never look.
GoesOn(op, id, failed) ==
    CASE op \in {"CreateQueue", "CreateTopic"} -> id = 0 /\ ~failed
      [] op = "DeleteQueue" -> id # 0 \/ failed
      [] op = "Subscribe" -> id # 0
      [] OTHER -> TRUE

\* A request of c begins and its First on resources finds id.
Looked(c, op, service, account, name, uuid, id, failed) ==
    /\ req[c] = Idle
    /\ op \in {"CreateQueue", "CreateTopic"} =>
          Len(resources) + Cardinality({d \in Clients : req[d].at = "write"}) < MaxRows
    /\ IF op = "Subscribe" THEN uuids < MaxUuids /\ uuids' = uuids + 1
                           ELSE UNCHANGED uuids
    /\ req' = IF GoesOn(op, id, failed)
              THEN [req EXCEPT ![c] =
                     [op |-> op, service |-> service, account |-> account,
                      name |-> name, uuid |-> IF op = "Subscribe" THEN uuids' ELSE uuid,
                      at |-> IF op = "Unsubscribe" THEN "endpoint" ELSE "write",
                      row |-> id, sub |-> 0]]
              ELSE req
    /\ UNCHANGED <<resources, endpoints, mishaps>>

\* The parameters of a request of c; only Unsubscribe carries a uuid.
Lookup(c) ==
    \E op \in Ops, account \in Accounts, uuid \in 0 .. uuids :
        \E service \in ServiceOf(op), name \in NamesFor(op) :
            /\ op # "Unsubscribe" => uuid = 0
            /\ Looked(c, op, service, account, name, uuid,
                      FirstId(LiveRows(service, account, name)), FALSE)
            /\ UNCHANGED faults

Fault == faults < MaxFaults /\ faults' = faults + 1

LookupFails(c) ==
    \E op \in Ops, account \in Accounts, uuid \in 0 .. uuids :
        \E service \in ServiceOf(op), name \in NamesFor(op) :
            /\ op # "Unsubscribe" => uuid = 0
            /\ Looked(c, op, service, account, name, uuid, 0, TRUE)
            /\ Fault

-----------------------------------------------------------------------------
(* The other statements. *)

\* Unsubscribe: First on endpoints.
FoundEndpoint(c, id) ==
    /\ req[c].at = "endpoint"
    /\ req' = [req EXCEPT ![c].at = "write", ![c].sub = id]
    /\ UNCHANGED <<resources, endpoints, uuids, mishaps>>

LookupEndpoint(c) ==
    /\ FoundEndpoint(c, FirstId(MatchingEndpoints(req[c].uuid, req[c].row)))
    /\ UNCHANGED faults

LookupEndpointFails(c) == FoundEndpoint(c, 0) /\ Fault

\* The row is of the queue or topic that request r is for.
IsFor(row, r) ==
    row.service = r.service /\ row.account = r.account /\ r.name \in {row.name, NoName}

\* The last statement of c's request, after which it answers.
Writing(c, op) == req[c].at = "write" /\ req[c].op \in op
Ends(c) == req' = [req EXCEPT ![c] = Idle]

NewRow(c) == [service |-> req[c].service, account |-> req[c].account,
              name |-> req[c].name, live |-> TRUE]

\* Variant: a deleted row of the name is made live again, if there is one.
RevivesResource(c) ==
    LET old == {i \in 1 .. Len(resources) : IsFor(resources[i], req[c])}
    IN  /\ Writing(c, {"CreateQueue", "CreateTopic"})
        /\ resources' = IF old = {} THEN Append(resources, NewRow(c))
                        ELSE [resources EXCEPT ![FirstId(old)].live = TRUE]
        /\ Ends(c)
        /\ UNCHANGED <<endpoints, uuids, mishaps, faults>>

\* db.Create of a queue, or the create of FirstOrCreate.
InsertResource(c) ==
    /\ Writing(c, {"CreateQueue", "CreateTopic"})
    /\ resources' = Append(resources, NewRow(c))
    /\ mishaps' = mishaps \union
          (IF LiveRows(req[c].service, req[c].account, req[c].name) # {}
           THEN {"duplicate"} ELSE {})
    /\ Ends(c)
    /\ UNCHANGED <<endpoints, uuids, faults>>

\* db.Delete of the row found.
DeleteResource(c) ==
    /\ Writing(c, {"DeleteQueue", "DeleteTopic"})
    /\ resources' = AfterDelete(resources, req[c].row)
    /\ mishaps' = mishaps \union
          (IF req[c].row = 0 \/ req[c].name = NoName THEN {"unfiltered"} ELSE {})
    /\ Ends(c)
    /\ UNCHANGED <<endpoints, uuids, faults>>

\* Association("Endpoints").Append: the row of the topic may be gone by now.
InsertEndpoint(c) ==
    /\ Writing(c, {"Subscribe"})
    /\ endpoints' = Append(endpoints, [topic |-> req[c].row, uuid |-> req[c].uuid, live |-> TRUE])
    /\ Ends(c)
    /\ UNCHANGED <<resources, uuids, mishaps, faults>>

\* db.Delete of the subscription found.
DeleteEndpoint(c) ==
    /\ Writing(c, {"Unsubscribe"})
    /\ endpoints' = AfterDelete(endpoints, req[c].sub)
    /\ mishaps' = mishaps \union
          (IF 0 \in {req[c].row, req[c].sub, req[c].uuid} THEN {"unfiltered"} ELSE {})
    /\ Ends(c)
    /\ UNCHANGED <<resources, uuids, faults>>

\* The statement fails; the handler answers as if it had not.
WriteFails(c) ==
    /\ Writing(c, Ops)
    /\ Fault
    /\ Ends(c)
    /\ UNCHANGED <<resources, endpoints, uuids, mishaps>>

\* The SQS or the SNS server stops with its requests and is started again.
ServedBy(server) ==
    {c \in Clients : /\ req[c] # Idle
                     /\ server = IF req[c].op \in {"CreateQueue", "DeleteQueue"}
                                 THEN "sqs" ELSE "sns"}

Restart(server) ==
    /\ ServedBy(server) # {}
    /\ Fault
    /\ req' = [c \in Clients |-> IF c \in ServedBy(server) THEN Idle ELSE req[c]]
    /\ UNCHANGED <<resources, endpoints, uuids, mishaps>>

Write(c) ==
    \/ InsertResource(c) \/ DeleteResource(c)
    \/ InsertEndpoint(c) \/ DeleteEndpoint(c) \/ WriteFails(c)

Next ==
    \/ \E c \in Clients : \/ Lookup(c) \/ LookupFails(c)
                         \/ LookupEndpoint(c) \/ LookupEndpointFails(c)
                         \/ Write(c)
    \/ \E server \in Services : Restart(server)

Spec == Init /\ [][Next]_vars
-----------------------------------------------------------------------------
(* Properties. *)

Row == [service : Services, account : Accounts, name : Names, live : BOOLEAN]
Endpoint == [topic : Nat, uuid : Nat, live : BOOLEAN]

TypeOK ==
    /\ resources \in Seq(Row)
    /\ endpoints \in Seq(Endpoint)
    /\ req \in [Clients -> Request \union {Idle}]
    /\ uuids \in 0 .. MaxUuids
    /\ mishaps \in SUBSET MishapKinds
    /\ faults \in 0 .. MaxFaults

\* The row a request has looked up is still the queue or topic the request is
\* for when the request writes, deleted or not: an id is never reused.
LookupStaysRight ==
    \A c \in Clients : req[c] # Idle /\ req[c].row # 0 =>
        /\ req[c].row <= Len(resources)
        /\ IsFor(resources[req[c].row], req[c])

\* A subscription hangs on a row that exists, so no topic that is created
\* later, under the same name or another, starts with subscribers.
SubscriptionsHaveTopics ==
    \A i \in 1 .. Len(endpoints) : endpoints[i].topic \in 1 .. Len(resources)

\* Check-then-create (queue.go:109-120, topic.go:58-62) makes as many rows of
\* one name as requests race for it, never more.
DuplicatesBounded ==
    \A service \in Services, account \in Accounts, name \in Names :
        Cardinality(LiveRows(service, account, name))
          + Cardinality(Pending(service, account, name)) <= Cardinality(Clients)

\* A row goes only in the write of a request for it, unless a Delete ran
\* without its condition.
DeletesOnlyItsRow ==
    []["unfiltered" \notin mishaps' =>
        \A i \in 1 .. Len(resources) :
            resources[i].live /\ ~resources'[i].live =>
                \E c \in Clients : /\ Writing(c, {"DeleteQueue", "DeleteTopic"})
                                  /\ IsFor(resources[i], req[c])]_vars

KeyOf(row) == [service |-> row.service, account |-> row.account, name |-> row.name]

\* The names that have a row, and the subscriptions whose row is there.
LiveNames == {KeyOf(resources[i]) : i \in {i \in 1 .. Len(resources) : resources[i].live}}
LiveSubs ==
    {[key |-> KeyOf(resources[endpoints[i].topic]), uuid |-> endpoints[i].uuid] :
        i \in {i \in 1 .. Len(endpoints) : /\ endpoints[i].live
                                          /\ resources[endpoints[i].topic].live}}

Registry == INSTANCE ResourceRegistry WITH
    Keys <- [service : Services, account : Accounts, name : Names],
    Uuids <- 1 .. MaxUuids,
    names <- LiveNames, subs <- LiveSubs

\* Until a mishap the handlers, however they overlap, are the one-step
\* operations of ResourceRegistry.
RegistryUntilMishap ==
    /\ Registry!Init
    /\ [][mishaps' = {} => Registry!Next \/ UNCHANGED <<LiveNames, LiveSubs>>]_vars
=============================================================================
