---------------------------- MODULE EventDispatch ----------------------------
(***************************************************************************)
(* An event on its way from the proxy to queues and topics (sendEvent in   *)
(* pkg/controllers/notification.go), while the configuration of the bucket *)
(* is being changed (BucketNotification).  sendEvent reads the             *)
(* configuration, the targets and the resources in a statement each,       *)
(* queues before topics, and then pushes to the list of each queue and     *)
(* hands the tasks of each topic to Celery.                                *)
(*                                                                         *)
(* An event is of one rule, that is a name and what passes a filter: it    *)
(* matches the targets that have the rule.  How events and filters match   *)
(* is the subject of EventRules.                                           *)
(***************************************************************************)
EXTENDS BucketNotification

CONSTANTS Topics,     \* those of Arns that name topics: the service in an ARN says so
          NameOf,     \* NameOf[rule]: the name of its events, without its filter
          TailOf,     \* TailOf[b]: the last letters and digits of a bucket's name
          Unknown,    \* a name no bucket has
          Endpoints,  \* the endpoints of a topic
          MaxEvents   \* bound: events in one behaviour

ASSUME TopicsAssumption == Topics \subseteq Arns
ASSUME TailAssumption == TailOf \in [Buckets -> Buckets \union {Unknown}]
ASSUME UnknownAssumption == Unknown \notin Buckets
ASSUME EventsAssumption == MaxEvents \in Nat

VARIABLES event,   \* what sendEvent is doing
          events,  \* history: events so far
          must,    \* history: the bindings for the event's rule that were there all
                   \* the time since the event began
          may      \* history: those for events of its name that were at some time

eventVars == <<event, events>>
allVars == <<vars, eventVars, must, may>>

NoEvent == [at |-> "none"]

\* event.rows: the targets that match, with their resources; event.left: what is to
\* be sent, <<row, outlet>>; event.sent: the <<resource, outlet>> that have it;
\* event.lost: those a failing call has left out; event.blind: a read of the
\* configuration, targets or resources failed; event.unfiltered: one of filters.
InitEvent ==
    /\ event = NoEvent
    /\ events = 0
    /\ must = {}
    /\ may = {}

EventAt(at) == event.at = at
Continue(at) == event' = [event EXCEPT !.at = at]

\* What is bound to a bucket for one of the rules: by a target of which kind, which
\* resource, and for which rule.
Bindings(b, rules) ==
    {<<targets[t].kind, targets[t].resource, targets[t].rule>> :
        t \in {t \in DOMAIN targets :
                  /\ configs[b] = "live" /\ targets[t].config = b
                  /\ targets[t].rule \in rules
                  /\ targets[t].resource # 0 /\ resources[targets[t].resource].live}}

SameName(rule) == {other \in Rules : NameOf[other] = NameOf[rule]}

-----------------------------------------------------------------------------
(* The proxy has an answer of the store that is an event.                  *)

\* The bucket of a request: a name in the host is cut at the last character that
\* is not a letter or a digit (getObjectName).
BucketName(b, style) == IF style = "host" THEN TailOf[b] ELSE b

Occurs(b, style, rule) ==
    /\ EventAt("none") /\ events < MaxEvents
    /\ events' = events + 1
    /\ event' = [at |-> "config", bucket |-> b, name |-> BucketName(b, style),
                 rule |-> rule, rows |-> {}, left |-> {}, sent |-> {},
                 lost |-> {}, blind |-> FALSE, unfiltered |-> FALSE]

\* First(&nConfig); without a configuration there is nothing to load.
ReadConfig ==
    /\ EventAt("config")
    /\ IF event.name # Unknown /\ configs[event.name] = "live"
       THEN Continue("queues") ELSE Continue("send")

ReadConfigFails ==
    /\ EventAt("config")
    /\ event' = [event EXCEPT !.at = "send", !.blind = TRUE]

\* Variant: all targets of the configuration.
AllTargets(kind, rules) == {t \in DOMAIN targets :
    targets[t].kind = kind /\ targets[t].config = event.name}

\* The targets of the configuration that are for one of the rules.
MatchingRows(kind, rules) == {t \in DOMAIN targets :
    /\ targets[t].kind = kind
    /\ targets[t].config = event.name /\ targets[t].rule \in rules}
Rows(kind, rules) == {<<t, targets[t].resource>> : t \in MatchingRows(kind, rules)}

\* Preload("Queues.Events") and Preload("Queues.Filter.RuleList.Rules"), and what matches.
ReadTargets(kind, at, next) ==
    /\ EventAt(at)
    /\ event' = [event EXCEPT !.at = next, !.rows = Rows(kind, {event.rule})]

\* Without its filter a target has the pattern "*", and gets all events of the name.
FiltersFail(kind, at, next) ==
    /\ EventAt(at)
    /\ event' = [event EXCEPT !.at = next, !.rows = Rows(kind, SameName(event.rule)),
                              !.unfiltered = TRUE]

\* Preload("Queues.Resource"): a deleted resource is not found.
Loaded(r) == r # 0 /\ resources[r].live

IsTopic(r) == resources[r].arn \in Topics

\* A queue is a list; a topic is a task for each of its endpoints.
Outlets(r) == IF IsTopic(r) THEN Endpoints ELSE {"list"}

\* Preload("Topics.Resource.Endpoints"): a topic that a QueueConfiguration names is
\* loaded without its endpoints.
OutletsLoaded(kind, r) == IF IsTopic(r) /\ kind = "queue" THEN {} ELSE Outlets(r)

ReadResources(kind, at, next) ==
    /\ EventAt(at)
    /\ event' = [event EXCEPT !.at = next, !.rows = {},
          !.left = @ \union UNION {{row} \X OutletsLoaded(kind, row[2]) :
                                      row \in {row \in event.rows : Loaded(row[2])}}]

\* A target without events matches nothing; one whose resource was not found has a blank
\* one, of no service.  When those of QueueConfigurations cannot be read, gorm does not
\* read those of TopicConfigurations.
ReadFails(at, next) ==
    /\ EventAt(at)
    /\ event' = [event EXCEPT !.at = next, !.rows = {}, !.blind = TRUE]

Left == IF EventAt("send") THEN event.left ELSE {}

\* RPush or Delay, in the order of a Go map.
Send(what) ==
    /\ EventAt("send")
    /\ event' = [event EXCEPT !.left = @ \ {what},
                              !.sent = @ \union {<<what[1][2], what[2]>>}]

\* Their errors are dropped, and the loops go on.
SendFails(what) ==
    /\ EventAt("send")
    /\ event' = [event EXCEPT !.left = @ \ {what},
                              !.lost = @ \union {<<what[1][2], what[2]>>}]

\* Variant: it ends after the first.
EndsEarly == EventAt("send") /\ (event.left = {} \/ event.sent # {}) /\ event' = NoEvent

Ends == EventAt("send") /\ event.left = {} /\ event' = NoEvent

-----------------------------------------------------------------------------
Reads ==
    \/ ReadConfig
    \/ ReadTargets("queue", "queues", "queueResources")
    \/ ReadResources("queue", "queueResources", "topics")
    \/ ReadTargets("topic", "topics", "topicResources")
    \/ ReadResources("topic", "topicResources", "send")

EventSteps == \/ Reads /\ UNCHANGED <<events, vars>>
              \/ \E what \in Left : Send(what) /\ UNCHANGED <<events, vars>>
              \/ Ends /\ UNCHANGED <<events, vars>>

EventFails ==
    /\ \/ ReadConfigFails
       \/ ReadFails("queues", "send") \/ ReadFails("queues", "topics")
       \/ ReadFails("queueResources", "topics")
       \/ ReadFails("topics", "send") \/ ReadFails("topicResources", "send")
       \/ FiltersFail("queue", "queues", "queueResources")
       \/ FiltersFail("topic", "topics", "topicResources")
       \/ \E what \in Left : SendFails(what)
    /\ Marks({"fault"}) /\ Fault
    /\ UNCHANGED <<tables, put, puts, events>>

\* What the event must and may reach, after each step.
Follow ==
    IF event'.at = "none" THEN must' = {} /\ may' = {}
    ELSE LET now == Bindings(event.bucket, {event.rule})
             near == Bindings(event.bucket, SameName(event.rule))
         IN  IF event.at = "none"
             THEN must' = now' /\ may' = near'
             ELSE must' = must \intersect now' /\ may' = may \union near'

EventNext ==
    /\ \/ Next /\ UNCHANGED eventVars
       \/ \E b \in Buckets, style \in {"path", "host"}, rule \in Rules :
             Occurs(b, style, rule) /\ UNCHANGED vars
       \/ EventSteps
       \/ EventFails
    /\ Follow

EventSpec == Init /\ InitEvent /\ [][EventNext]_allVars
-----------------------------------------------------------------------------
(* Properties. *)

OfOwnBucket == ~EventAt("none") /\ event.name = event.bucket

\* Whoever was bound to the bucket when the event happened, and stayed so, gets it, each
\* endpoint of a topic too, whatever PUTs and deletions do between the statements of
\* sendEvent: but a topic that is bound by a QueueConfiguration gets nothing.  A call that
\* fails costs one outlet and no other (notification.go:259-326).
NothingMissed ==
    [][OfOwnBucket /\ event' = NoEvent /\ ~event.blind =>
          \A m \in must : ~(IsTopic(m[2]) /\ m[1] = "queue") =>
              \A outlet \in Outlets(m[2]) :
                  <<m[2], outlet>> \in event.sent \union event.lost]_allVars

\* Nobody gets an event of a bucket, or is about to, who was not bound to it, for events
\* of that name and filter, while it was in progress: except that a filter that cannot be
\* read is taken for none, and when a PUT binds a target of a configuration that another
\* PUT has just deleted (configuration.go:134, notification.go:126, 147-157).
NothingFalse ==
    OfOwnBucket /\ Free({"race", "noConfig"}) =>
        \A what \in event.left : \E m \in may :
            m[2] = what[1][2] /\ (m[3] = event.rule \/ event.unfiltered)
=============================================================================
