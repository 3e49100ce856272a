------------------------- MODULE BucketNotification -------------------------
(***************************************************************************)
(* The notification configurations of buckets as PUT ?notification keeps   *)
(* them (PutBucketNotification in pkg/controllers/notification.go): the    *)
(* rows of configs, queues and topics, one SQL statement per step.         *)
(*                                                                         *)
(* A bucket has at most one configuration, for configs.bucket is unique,   *)
(* soft-deleted rows included.  The first PUT creates the configuration    *)
(* with all its targets in one transaction and then resolves their ARNs    *)
(* one by one; a later PUT gets a duplicate key error and looks for the    *)
(* configuration, then for each resource and each target.  As in           *)
(* ResourceStore, a condition of gorm that is zero is left out: without a  *)
(* configuration id the targets of all buckets are searched and all        *)
(* configurations are deleted, and without an Id the first target is taken.*)
(*                                                                         *)
(* The events and the filter of a target are its `rule'.  The targets of   *)
(* QueueConfigurations and of TopicConfigurations, two tables in the code, *)
(* are in one sequence; their `kind' says which, and each lookup names it. *)
(* It says nothing of what a target is bound to: that is the resource its  *)
(* ARN names, a queue or a topic.                                          *)
(***************************************************************************)
EXTENDS Integers, Sequences, FiniteSets

CONSTANTS Buckets,
          Kinds,        \* of targets: "queue" and "topic", or one of them
          Bodies,       \* the bodies of PUT requests: sequences of items
          Arns,         \* of queues and topics
          Idents,       \* the Ids of items
          Rules,
          NoIdent,      \* an item without Id
          NoRule,       \* a target without events
          Malformed,    \* an ARN that does not parse
          NoConfig,     \* the id 0 of a configuration that was not found
          Puts,         \* requests in progress at once
          MaxPuts,      \* bound: PUT requests in one behaviour
          MaxResources, \* bound: rows of resources
          MaxFaults     \* bound: failing statements and restarts

Item == [kind : Kinds, ident : Idents \union {NoIdent},
         arn : Arns \union {Malformed}, rule : Rules]

ASSUME KindsAssumption == Kinds \subseteq {"queue", "topic"}

\* The handler goes over the queues of a body first.
ASSUME BodiesAssumption ==
    \A body \in Bodies :
        /\ body \in Seq(Item)
        /\ \A i, j \in DOMAIN body :
              body[i].kind = "queue" /\ body[j].kind = "topic" => i < j
ASSUME NothingAssumption == /\ NoConfig \notin Buckets /\ NoRule \notin Rules
                            /\ NoIdent \notin Idents /\ Malformed \notin Arns
ASSUME BoundAssumption ==
    MaxPuts \in Nat /\ MaxResources \in Nat /\ MaxFaults \in Nat

VARIABLES configs,   \* configs[b]: the row of bucket b, "none", "live" or "deleted"
          targets,   \* the rows of queues and topics, in insertion order
          resources, \* the rows of resources, in insertion order
          put,       \* put[p]: what request p is doing
          puts,      \* history: PUT requests so far
          mishaps,   \* history: what has gone wrong (MishapKinds)
          faults     \* history: faults so far

vars == <<configs, targets, resources, put, puts, mishaps, faults>>
tables == <<configs, targets, resources>>

\* noConfig: a PUT goes on with the configuration id 0; anonymous: with an item
\* without Id; repeated: a body has an Id twice; race: two PUTs for a bucket at
\* once; unresolved: a target is left with the resource id 0, by a first PUT that
\* names no resource or is refused half-way; recreated: a resource is created
\* whose ARN had one before.
MishapKinds == {"noConfig", "anonymous", "repeated", "race", "unresolved",
                "recreated", "fault"}
Free(kinds) == mishaps \intersect kinds = {}

Idle == [at |-> "idle"]   \* or refused, or stopped
Ok == [at |-> "ok"]       \* answered with 200
Waiting(p) == put[p] \in {Idle, Ok}

Init ==
    /\ configs = [b \in Buckets |-> "none"]
    /\ targets = <<>>
    /\ resources = <<>>
    /\ put = [p \in Puts |-> Idle]
    /\ puts = 0
    /\ mishaps = {}
    /\ faults = 0

Fault == faults < MaxFaults /\ faults' = faults + 1

-----------------------------------------------------------------------------
(* Queues and topics come and go (CreateQueue, DeleteQueue and so on, as   *)
(* ResourceStore has them; here as one step each).                         *)

LiveRows(arn) == {r \in DOMAIN resources : resources[r].arn = arn /\ resources[r].live}

CreateResource(arn) ==
    /\ Len(resources) < MaxResources
    /\ LiveRows(arn) = {}
    /\ resources' = Append(resources, [arn |-> arn, live |-> TRUE])
    /\ mishaps' = mishaps \union
          (IF \E r \in DOMAIN resources : resources[r].arn = arn THEN {"recreated"} ELSE {})
    /\ UNCHANGED <<configs, targets, put, puts, faults>>

DeleteResource(r) ==
    /\ resources[r].live
    /\ resources' = [resources EXCEPT ![r].live = FALSE]
    /\ UNCHANGED <<configs, targets, put, puts, mishaps, faults>>

-----------------------------------------------------------------------------
(* The steps of one request. *)

At(p, at) == ~Waiting(p) /\ put[p].at = at
ThisItem(p) == put[p].body[put[p].i]
Marks(kinds) == mishaps' = mishaps \union kinds
If(condition, kind) == IF condition THEN {kind} ELSE {}

Answer(p, with) == put' = [put EXCEPT ![p] = with]

\* The item is done: the next one, or 200.
NextItem(p, first) ==
    IF put[p].i < Len(put[p].body)
    THEN put' = [put EXCEPT ![p].i = @ + 1, ![p].at = first,
                            ![p].resource = 0, ![p].row = 0]
    ELSE Answer(p, Ok)

Repeated(body) == \E i, j \in DOMAIN body :
    /\ i < j /\ body[i].ident # NoIdent
    /\ body[i].kind = body[j].kind /\ body[i].ident = body[j].ident

Begin(p, b, body) ==
    /\ Waiting(p) /\ puts < MaxPuts
    /\ puts' = puts + 1

Racing(p, b) == \E q \in Puts \ {p} : ~Waiting(q) /\ put[q].bucket = b

\* What request p knows: the configuration (NoConfig: id 0), the resource and the
\* row of the target it has found, and how many rows there were when it began.
Request(at, b, body, own) ==
    [at |-> at, bucket |-> b, body |-> body, i |-> 1,
     config |-> b, resource |-> 0, row |-> 0, own |-> own]

NewTarget(item, config, resource) ==
    [kind |-> item.kind, ident |-> item.ident, arn |-> item.arn,
     rule |-> item.rule, config |-> config, resource |-> resource]

\* db.Create(&xmlConfig): the configuration and its targets ...
CreateConfig(p, b, body) ==
    /\ Begin(p, b, body)
    /\ configs[b] = "none"
    /\ configs' = [configs EXCEPT ![b] = "live"]
    /\ targets' = targets \o [i \in DOMAIN body |-> NewTarget(body[i], b, 0)]
    /\ IF body = <<>> THEN Answer(p, Ok)
       ELSE put' = [put EXCEPT ![p] = Request("resolve", b, body, Len(targets))]
    /\ Marks(If(Repeated(body), "repeated") \union If(Racing(p, b), "race"))
    /\ UNCHANGED <<resources, faults>>

\* ... or a duplicate key (1062), ...
ConfigExists(p, b, body) ==
    /\ Begin(p, b, body)
    /\ configs[b] # "none"
    /\ put' = [put EXCEPT ![p] = Request("find", b, body, Len(targets))]
    /\ Marks(If(Repeated(body), "repeated") \union If(Racing(p, b), "race"))
    /\ UNCHANGED <<tables, faults>>

\* ... or another error, which is dropped: 200.
CreateConfigFails(p, b, body) ==
    /\ Begin(p, b, body)
    /\ Answer(p, Ok)
    /\ Marks({"fault"}) /\ Fault
    /\ UNCHANGED tables

-----------------------------------------------------------------------------
(* The first PUT: the ARNs of the new rows are resolved. *)

\* The lowest id of a live resource of that service, account and name, or 0.
FirstResource(item) ==
    LET found == LiveRows(item.arn)
    IN  IF found = {} THEN 0 ELSE CHOOSE r \in found : \A q \in found : r <= q

\* ParseARN and First(&targetResource), whose error is dropped.
Resolve(p) ==
    /\ At(p, "resolve")
    /\ IF ThisItem(p).arn = Malformed
       THEN Answer(p, Idle) /\ Marks({"unresolved"})
       ELSE /\ put' = [put EXCEPT ![p].at = "save",
                                  ![p].resource = FirstResource(ThisItem(p))]
            /\ Marks(If(FirstResource(ThisItem(p)) = 0, "unresolved"))
    /\ UNCHANGED <<tables, puts, faults>>

ResolveFails(p) ==
    /\ At(p, "resolve") /\ ThisItem(p).arn # Malformed
    /\ put' = [put EXCEPT ![p].at = "save", ![p].resource = 0]
    /\ Marks({"fault"}) /\ Fault
    /\ UNCHANGED <<tables, puts>>

\* Variant: the row before.
SaveRowBefore(p) == put[p].own + put[p].i - 1

\* The row of the item: the loop goes over the rows that Create has numbered.
SaveRow(p) == put[p].own + put[p].i

\* db.Save(&queue): the whole row, as the body has it.
SaveResolved(p) ==
    /\ At(p, "save")
    /\ targets' = [targets EXCEPT ![SaveRow(p)] =
          NewTarget(ThisItem(p), put[p].bucket, put[p].resource)]
    /\ NextItem(p, "resolve")
    /\ UNCHANGED <<configs, resources, puts, mishaps, faults>>

SaveResolvedFails(p) ==
    /\ At(p, "save") /\ NextItem(p, "resolve")
    /\ Marks({"fault"}) /\ Fault
    /\ UNCHANGED <<tables, puts>>

-----------------------------------------------------------------------------
(* A later PUT. *)

\* First(&config): a deleted configuration is not found.
FindConfig(p) ==
    /\ At(p, "find")
    /\ LET found == configs[put[p].bucket] = "live"
       IN  /\ put' = [put EXCEPT
                 ![p].config = IF found THEN @ ELSE NoConfig,
                 ![p].at = IF put[p].body = <<>> THEN "delete" ELSE "resource"]
           /\ Marks(If(~found, "noConfig"))
    /\ UNCHANGED <<tables, puts, faults>>

FindConfigFails(p) ==
    /\ At(p, "find")
    /\ put' = [put EXCEPT ![p].config = NoConfig,
                          ![p].at = IF put[p].body = <<>> THEN "delete" ELSE "resource"]
    /\ Marks({"noConfig", "fault"}) /\ Fault
    /\ UNCHANGED <<tables, puts>>

\* The configurations that the condition of the Delete selects.
DeletedBy(b) == IF b = NoConfig THEN Buckets ELSE {b}

\* db.Delete(&config): with id 0 it has no condition.
DeleteConfig(p) ==
    /\ At(p, "delete")
    /\ configs' = [b \in Buckets |->
          IF configs[b] = "live" /\ b \in DeletedBy(put[p].config)
          THEN "deleted" ELSE configs[b]]
    /\ Answer(p, Ok)
    /\ UNCHANGED <<targets, resources, puts, mishaps, faults>>

DeleteConfigFails(p) ==
    /\ At(p, "delete") /\ Answer(p, Ok)
    /\ Marks({"fault"}) /\ Fault
    /\ UNCHANGED <<tables, puts>>

\* ParseARN and First(&targetResource), which must be there.
FindResource(p) ==
    /\ At(p, "resource")
    /\ LET r == FirstResource(ThisItem(p))
       IN  IF r = 0 THEN Answer(p, Idle)
           ELSE put' = [put EXCEPT ![p].at = "target", ![p].resource = r]
    /\ UNCHANGED <<tables, puts, mishaps, faults>>

\* An error that is not RecordNotFound: the id stays 0.
FindResourceFails(p) ==
    /\ At(p, "resource") /\ ThisItem(p).arn # Malformed
    /\ put' = [put EXCEPT ![p].at = "target", ![p].resource = 0]
    /\ Marks({"fault"}) /\ Fault
    /\ UNCHANGED <<tables, puts>>

\* Variants: the configuration is no condition; the ARN is one too.
MatchingAnywhere(item, config) == {t \in DOMAIN targets :
    targets[t].kind = item.kind /\ targets[t].ident = item.ident}
MatchingSameArn(item, config) == {t \in DOMAIN targets :
    targets[t] = [targets[t] EXCEPT !.kind = item.kind, !.ident = item.ident,
                                    !.arn = item.arn, !.config = config]}

\* The rows that a target's conditions select; one that is zero is left out.
MatchingTargets(item, config) == {t \in DOMAIN targets :
    /\ targets[t].kind = item.kind
    /\ item.ident = NoIdent \/ targets[t].ident = item.ident
    /\ config = NoConfig \/ targets[t].config = config}

\* First(&queue): the lowest id; row 0 when it is not found.
FindTarget(p) ==
    /\ At(p, "target")
    /\ LET found == MatchingTargets(ThisItem(p), put[p].config)
       IN  put' = [put EXCEPT ![p].at = IF found = {} THEN "create" ELSE "update",
                              ![p].row = IF found = {} THEN 0
                                  ELSE CHOOSE t \in found : \A u \in found : t <= u]
    /\ Marks(If(ThisItem(p).ident = NoIdent, "anonymous"))
    /\ UNCHANGED <<tables, puts, faults>>

\* Any other error: the empty struct is saved.
FindTargetFails(p) ==
    /\ At(p, "target")
    /\ put' = [put EXCEPT ![p].at = "update", ![p].row = 0]
    /\ Marks({"fault"}) /\ Fault
    /\ UNCHANGED <<tables, puts>>

\* db.Create(&xmlQueue).
CreateTarget(p) ==
    /\ At(p, "create")
    /\ targets' = Append(targets,
          NewTarget(ThisItem(p), put[p].config, put[p].resource))
    /\ NextItem(p, "resource")
    /\ UNCHANGED <<configs, resources, puts, mishaps, faults>>

\* Variant: only the ARN.
UpdateArn(p) ==
    /\ At(p, "update") /\ put[p].row # 0
    /\ targets' = [targets EXCEPT ![put[p].row].arn = ThisItem(p).arn]
    /\ NextItem(p, "resource")
    /\ UNCHANGED <<configs, resources, puts, mishaps, faults>>

\* db.Save(&queue): the ARN and the resource of the row it has found, which keeps its
\* events and its filter; or a new row without Id, events and configuration.
UpdateTarget(p) ==
    /\ At(p, "update")
    /\ targets' =
          IF put[p].row = 0
          THEN Append(targets,
                  [NewTarget(ThisItem(p), NoConfig, put[p].resource)
                      EXCEPT !.ident = NoIdent, !.rule = NoRule])
          ELSE [targets EXCEPT ![put[p].row].arn = ThisItem(p).arn,
                               ![put[p].row].resource = put[p].resource]
    /\ NextItem(p, "resource")
    /\ UNCHANGED <<configs, resources, puts, mishaps, faults>>

WriteFails(p) ==
    /\ At(p, "create") \/ At(p, "update")
    /\ NextItem(p, "resource")
    /\ Marks({"fault"}) /\ Fault
    /\ UNCHANGED <<tables, puts>>

\* The proxy stops: the rows written so far stay.
Restart ==
    /\ \E p \in Puts : ~Waiting(p)
    /\ put' = [p \in Puts |-> IF Waiting(p) THEN put[p] ELSE Idle]
    /\ Marks({"fault"}) /\ Fault
    /\ UNCHANGED <<tables, puts>>

-----------------------------------------------------------------------------
PutBegins(p) == \E b \in Buckets, body \in Bodies :
    CreateConfig(p, b, body) \/ ConfigExists(p, b, body) \/ CreateConfigFails(p, b, body)

PutSteps(p) ==
    \/ Resolve(p) \/ SaveResolved(p)
    \/ FindConfig(p) \/ DeleteConfig(p)
    \/ FindResource(p) \/ FindTarget(p) \/ CreateTarget(p) \/ UpdateTarget(p)

PutFails(p) ==
    \/ ResolveFails(p) \/ SaveResolvedFails(p)
    \/ FindConfigFails(p) \/ DeleteConfigFails(p)
    \/ FindResourceFails(p) \/ FindTargetFails(p) \/ WriteFails(p)

Resource ==
    \/ \E arn \in Arns : CreateResource(arn)
    \/ \E r \in DOMAIN resources : DeleteResource(r)

Next ==
    \/ \E p \in Puts : PutBegins(p) \/ PutSteps(p) \/ PutFails(p)
    \/ Restart
    \/ Resource

Spec == Init /\ [][Next]_vars
-----------------------------------------------------------------------------
(* Properties. *)

\* A bucket has one target of a kind and an Id, however many PUTs have named it, unless
\* a body names it twice or two PUTs for the bucket overlap: the lookup and the insertion
\* of a target are two statements (notification.go:145-152).
OneTargetPerIdent ==
    Free({"repeated", "race"}) =>
        \A t, u \in DOMAIN targets :
            /\ t # u
            /\ targets[t].config \in Buckets /\ targets[t].ident # NoIdent
            => \/ targets[t].config # targets[u].config
               \/ targets[t].kind # targets[u].kind
               \/ targets[t].ident # targets[u].ident

\* A first PUT is still to resolve the target.
Pending(t) == \E p \in Puts :
    /\ ~Waiting(p) /\ put[p].at \in {"resolve", "save"}
    /\ t \in put[p].own + put[p].i .. put[p].own + Len(put[p].body)

\* A target whose ARN names a resource that exists is bound to it, so an event for the
\* target is not dropped on the way: except after a first PUT that came before the
\* resource or was refused half-way, after the resource was deleted and created again
\* (it has a new id), and after a fault (notification.go:191-219, 137-157).
NamedIsBound ==
    Free({"unresolved", "recreated", "fault"}) =>
        \A t \in DOMAIN targets : ~Pending(t) =>
            \A r \in LiveRows(targets[t].arn) : targets[t].resource = r

TargetsOf(b) == {<<t, targets[t]>> : t \in {t \in DOMAIN targets : targets[t].config = b}}
Serving(b) == \E p \in Puts : ~Waiting(p) /\ put[p].bucket = b

\* The targets of a bucket change, and its configuration goes, only in a PUT for that
\* bucket, unless a PUT went on without a configuration: after an empty PUT has deleted
\* it, every later PUT does (notification.go:121-157).
OnlyItsOwnPut ==
    [][\A b \in Buckets :
          \/ configs[b] = "live" /\ configs'[b] # "live"
          \/ TargetsOf(b)' # TargetsOf(b)
          => \/ Serving(b) \/ Serving(b)'
             \/ "noConfig" \in mishaps']_vars

BoundAs(b, item, t) ==
    /\ targets[t].config = b
    /\ targets[t].kind = item.kind /\ targets[t].ident = item.ident
    /\ targets[t].arn = item.arn
    /\ targets[t].resource # 0
    /\ resources[targets[t].resource].arn = item.arn

\* The target of an item, new since the PUT began when the number of rows was `own', has
\* the events and the filter of the item.
DoneAs(b, item, own) == \E t \in DOMAIN targets :
    BoundAs(b, item, t) /\ (t > own => targets[t].rule = item.rule)

\* A PUT that is answered with 200 has bound each item of its body to the resource it
\* names, or deleted the configuration for an empty body, unless one of the mishaps has
\* happened to it.  The events and the filter of the body are those of a target that it
\* has created; a target that was there keeps its own, and those of the body are dropped
\* (notification.go:145-157, 175-187).
AcceptedIsDone ==
    [][/\ \A t \in DOMAIN targets : targets'[t].rule = targets[t].rule
       /\ \A p \in Puts, b \in Buckets, body \in Bodies :
          /\ ~Waiting(p) /\ put[p].bucket = b /\ put[p].body = body
          /\ put'[p] = Ok
          /\ Free(MishapKinds \ {"recreated"})'
          => IF body = <<>> THEN configs'[b] = "deleted"
             ELSE /\ configs'[b] = "live"
                  /\ \A own \in {put[p].own}, i \in DOMAIN body : DoneAs(b, body[i], own)']_vars
=============================================================================
