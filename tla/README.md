# Verification of kaoliang

kaoliang stands in front of a Ceph object store and gives it what the store
lacks: event queues (an SQS-like server), topics (an SNS-like server), bucket
notifications, moves of objects, NFS exports for the users, an operation log and
a metadata search.  This directory holds TLA+ modules that model it, TLC
configurations that check them on small instances, and TLAPS proofs of what
matters most.  All paths below are relative to the repository.

## 1. The system

| Component | Code | State | Operations |
|---|---|---|---|
| SQS message queue | `pkg/controllers/queue.go:183-262`, `notification.go:312-314` | one Redis list per queue | RPUSH by `sendEvent`, `ReceiveMessage` = LRANGE then LTRIM |
| Queues, topics, subscriptions | `queue.go:34-181`, `topic.go`, `pkg/models/{resource,endpoint}.go` | MySQL tables `resources`, `endpoints` through gorm | Create/Delete/List Queue and Topic, Subscribe, Unsubscribe |
| Bucket notifications | `notification.go:43-223`, `pkg/models/configuration.go` | tables `configs`, `queues`, `topics`, `events`, filters | GET/PUT `?notification` |
| Event rules and dispatch | `configuration.go:133-300`, `notification.go:235-374` | none of its own: reads the tables, writes Redis and Celery | `ReverseProxy`, `sendEvent` |
| Moving objects | `objects.go` | the object store; two channels and one goroutine per CPU | `POST /objects` |
| NFS exports | `ganesha.go:65-280` | a RADOS pool: the export list and one object per user | `go HandleNfsExport` after an admin request |
| NFS updater daemon | `nfs/nfs_updater_daemon.go` | a local copy of the list, the exports of NFS-Ganesha | a poll loop |
| Removal of subusers | `nfs/remove_subuser_workaround.go` | the same pool | run once by hand while the proxy runs |
| Operation log | `ops_logging.go`, `opslog/opslog_dumper.go` | RADOS objects per bucket and hour; Elasticsearch | append per request; read, bulk, delete |
| Change feed | `elastic-notify/main.go` | a web socket to the metadata index | sends events like the proxy |
| Bucket permission | `ganesha.go:352-423` | attributes in the store | one call |
| Metadata search | `mdsearch.go`, `getBucketUsers` | none: reads the metadata index | `GET /:bucket/`, page by page |
| SNS worker | `kaoliang-worker/worker.py` | none | one HTTP POST per task |

**How they interact.**  An S3 request goes through `ReverseProxy` to the store;
the answer is looked at in `modifyResponse`, which logs the operation (a
goroutine), starts `HandleNfsExport` for answers to admin requests (a
goroutine), or calls `sendEvent`.  `sendEvent` reads the notification
configuration from MySQL, matches the rules and either pushes to the Redis list
of a queue, which the SQS server reads, or hands one Celery task per endpoint of
a topic to the worker.  The SQS and SNS servers write the rows that
the configuration refers to.  The NFS updater runs on other machines and polls
what the proxy writes.  All servers are restarted by systemd
(`systemd/*.service`: `Restart=always`).

**What is hard.**  No operation that takes more than one call to MySQL, Redis or
RADOS runs in a transaction or under a lock that works, errors of most calls are
dropped, and several servers share the state.  Hence: interleavings between two
calls of one handler, partial failure, restarts between two calls, lists and
rows that are stale when written, and gorm's conditions that vanish
when a value is zero.  `PROJECT.json` lists each such hazard at its line with
the properties that are about it.

**What makes each component correct.**

- Message queue: events are given in order, once, and none is lost; a new queue does
  not begin with the events of an old one.
- Queues and topics: one row per name, an operation touches what it names, a
  subscription belongs to a topic, a listing is true.
- Moving: an object is never without a copy, what is reported is true,
  each job is reported once, the request is answered.
- NFS exports: the list and the objects match the users, ids are unique, every
  listed object is complete.  Removal of subusers: afterwards no export is for one.
- Notifications: a PUT takes effect as a whole, events go to the queues
  configured when they happen, once per queue.
- Updater: once the list stops changing, NFS-Ganesha exports what it says.
- Operation log: each operation is indexed once.
- Change feed: a write that is heard of is told once, by one of the two sources, and a
  lost connection comes back.
- Metadata search: a query is accepted when it is in the documented syntax, finds what
  it says, and its pages fit together.

## 2. Modules

| Module | What it is |
|---|---|
| `QueueService` | abstract: a FIFO queue, a receive is one step |
| `MessageQueue` | the Redis list, `ReceiveMessage` call by call, and how it refines `QueueService` |
| `QueueLifetime` | extends `MessageQueue`: the queue is deleted and created again, the list stays |
| `ResourceRegistry` | abstract: a set of names and subscriptions, operations are one step |
| `ResourceStore` | the two tables, handlers statement by statement |
| `ResourceListing` | extends `ResourceStore` with `ListSubscriptions` |
| `MoveObjects` | one `POST /objects` request with its goroutines and the store |
| `NfsRegistry` | abstract: exported users with distinct ids |
| `NfsExport` | the export list and objects, handlers RADOS call by call |
| `NfsMigration` | extends `NfsExport` with the removal of subusers, call by call |
| `NfsUpdater` | the updater daemon, its local copy, NFS-Ganesha |
| `BucketNotification` | the configurations of buckets, `PUT ?notification` statement by statement |
| `EventDispatch` | extends `BucketNotification` with `sendEvent` |
| `EventRules` | patterns, rules and matching, as functions, against what the targets ask for |
| `OpsLog` | the log objects, the appends, the dumper call by call |
| `MetadataIndex` | external: the index that the next two use |
| `ElasticNotify` | the process that listens to the index, connection by connection |
| `SearchQuery` | the search's queries, as operators: the regular expression, what is accepted, what is selected, against what the client means |
| `MetadataSearch` | a client that turns the pages of a search |
| `MetadataServices` | the two services of the index together |
| `*Proofs` | theorems: of `QueueService`, `MessageQueue` with `QueueLifetime`, `ResourceStore` with `ResourceListing`, `MoveObjects`, `NfsExport` with `NfsMigration`, `NfsUpdater`, `BucketNotification` with `EventDispatch` and `EventRules` (`NotificationProofs`), `OpsLog`, and `MetadataServices` with what it composes |
| `MC*` | instances for TLC; `NfsExport` and `OpsLog` are instantiated by their .cfg alone |

### MessageQueue

`list` is the Redis list; events are numbered as they are pushed.  `pc[r]`,
`max[r]` and `batch[r]` are the program counter, `maxMsgNum` and `bodys` of the
handler that serves client `r`.  `Push` is the RPUSH of `sendEvent`; `Read` runs
the handler up to its LRANGE, with the size computed by `BatchSize`
(queue.go:221-234); `Trim` is the LTRIM, which removes `max[r]` elements of the
list as it is *then*; `Reply` is the answer.  `ReadFails`, `TrimFails`: both
errors are dropped and the handler goes on.  `ReplyLost`: the client has gone.
`Restart` ends the requests and keeps the list.

The code does not give exactly-once delivery, and its comments do not promise
it; the history variable `clean` makes precise when it does.  `clean` becomes
FALSE when an event is pushed between a short read and its trim, when a trim of
a non-empty list happens while another handler is between its own two calls, or
at a fault.  While it is TRUE nothing is lost and nothing is given twice
(`ExactlyOnceIfClean`), and every step is a step of `QueueService` or a stutter
(`ServiceUntilRace`).  What survives every race:
`ListIsUntrimmed`, `TrimCoversRead` and `ClientOrder` (a single client sees no
event twice and none out of order unless a trim of its own failed).

### QueueLifetime

`DeleteQueue` removes the row (queue.go:174) and leaves the Redis list, and
`ReceiveMessage` looks for the row but goes on without one, so the list outlives the
queue.  Here every event knows the row it was pushed for (`rowOf`), `sendEvent` is two
steps (`LoadQueue`, `PushEvent`), and `left` are the rows that were deleted with an
event in the list or about to be pushed.  `OnlyLeftoversOutlive`: only events of those
are there after the deletion, in whatever order senders, receivers, deletion and
creation come.  It says what a client must do to get a fresh queue: stop the senders
and drain it first.

### ResourceStore

`resources` and `endpoints` are the rows in insertion order, a row's position is
its id and a deleted row stays, marked.  `req[c]` is the request `c` is working
on: its parameters, its next statement and the ids its lookups found (0: none).
The model keeps what gorm does: `First` takes the lowest id, a condition
that is zero is left out (`MatchingEndpoints`), `Delete` of a row with id 0 has
no condition at all and marks the whole table (`AfterDelete`).  `GoesOn` has the
early returns of each handler: `CreateQueue` takes every error but
RecordNotFound for an existing queue, `DeleteQueue` takes it for success,
`Association` does nothing for a topic with id 0, `DeleteTopic` and
`Unsubscribe` never look.  The history variable `mishaps` tells that a Delete ran
without a condition it should have had (`unfiltered`), which wipes rows of others,
or that a name got a second row (`duplicate`).  Until the first mishap every step
is a step of `ResourceRegistry` or a stutter (`RegistryUntilMishap`).

Two requests at once do create two rows of one name, although a comment says "Response
Error when queue is exists" (queue.go:108): there is a check and a create, and no unique
key.  That is the `duplicate` above, and `DuplicatesBounded` says how far it goes.

`ResourceListing` adds `ListSubscriptions`, which reads the queues and topics of an
account and then the endpoints of each (topic.go:195-200), while the requests above go
on.  `must` and `may` are the subscriptions that were there all the time, and at some
time, since the listing began.  A subscription whose topic was deleted before it was
made can be listed, and one whose topic could not be read is not.  `ListQueues` and
`ListTopics` are one statement that reads, and are left out.  An ARN whose service merely
begins with `sqs` or `sns` finds rows of either service; it is left out.

### MoveObjects

`store` maps keys to objects, an object being named by the key it had at the
start.  The handler (`main`) sends the jobs, closes the channel and collects as
many results; `Worker(w)` is a goroutine.  A call to the store succeeds, is
refused, or takes effect with its answer lost.  `from` is the key the store
copies, `named` the key the handler cuts from the same text to delete: the store
unescapes it, the handler does not.  `misled` records the calls that took effect
and reported an error.  A failed result carries the code of the store's error, whether
it was the copy or the undo that failed (`writeErrorResult`), or none when the undo
worked: so an answer with a code does not tell whether there is a copy, and `ReportIsTrue`
claims no more than that the object is at its source.  Other clients of the store are left out: the store has
no conditional copy, so whoever writes the same keys at once has a race that the
handler can do nothing about.

### NfsExport

`users` are the users of the object store, `list` the entries of the object
`export`, `object[u]` the object `export_<u>` with the id in its text
(`content`) and in its attribute (`id`).  A goroutine `handler[h]` makes one
RADOS call per step: `PickId` (list the objects, take any free id: the order of a Go
map is not defined), `WriteObject`, `SetPseudo`, `SetExportId`, `AppendEntry`;
or `StatList`, `ReadList`, `RewriteList`, `DeleteObject`.  The locks are left
out because they change nothing: adding and removing use different locks,
`LockExclusive` does not wait, and its error is dropped.  `mishaps` records which
kinds of overlap or fault have happened, and each property names the ones it
does not survive:

| Property | fails only after |
|---|---|
| `ObjectsMatchUsers` | two handlers of one user at once, a fault |
| `ListMatchesUsers` | the same, or a list written back that had changed |
| `IdsDifferUnlessRace` | two handlers of one user at once, a fault, or two ids picked at once |

An entry is a uid; all entries are taken to have one length, so that the read of
a list that shrank ends with whole entries of zero bytes (`Zeros`).  The template
of an export and the line break that stands for an empty list are left out.

### NfsMigration

`old` are the users whose export an earlier proxy wrote for a subuser.  The program
reads the list (`StatExports`, `ReadExports`), then each export (`ReadExport`; `todo` has
the entries that are left, by their place in the list), and
writes those in `old` again under the same id (`LoadUser`, `RewriteExport`,
`RewritePseudo`, `RewriteId`), while the proxy's handlers go on: every property of
`NfsExport` and its refinement is checked of the two together.  The program counts as
one more handler of the user whose export it rewrites (`migrating`), and the kinds of
`mishaps` are the same: what it adds is that a removal during a rewrite leaves an object
for a user who is gone, through `sameUser`.  A match that is not there ends the program
(`MigrationDies`, line 82): an export that has gone since the list was read, one with
the id -1, which `[0-9]+` does not match, or one for a subuser with another character than
letters, digits, hyphen and colon in its name (line 80).  `DiesOfRemoval` says that it dies
of nothing else.  It does not come to every export: `odd` says which users have another
character in the uid, so that the expression of line 58 skips them (it never cuts a uid,
because the closing quote must follow), and which may be without keys, so that lines
108-111 leave them out.  `NoSubuserLeft` says that, when it ends, it has left no other.

### NfsUpdater

The daemon and NFS-Ganesha tell exports apart by their paths, and a path is the display
name of the user (`path`), which another user may have too (`Namings`) and which the
daemon reads into a hundred bytes (`Long`, line 99).  Of two users with one name
NFS-Ganesha exports one, under either id (`Takes` is what it may end with, the entries
being taken in some order); the export stays while either has an object, and an export
with a name that is too long goes whenever the daemon looks.  `ListedIsExported` says of
both what is left to say.  A call to the cluster that fails ends the daemon (`Crash`:
log.Fatal), and `Restart` is somebody who starts it: the repository has no unit for it.

What the proxies publish is `NfsExport` made coarser: one change at a time, in the
two steps that matter to a reader (the object and then its entry; the entry goes
and then its object).  `mtime` and `local.mtime` are in seconds, and any number of
steps fits into one.  `upd` is where `execute` is: `Poll` (the process, `Stat`,
`needToUpdate`), `ReadPiece` until a piece is short, `Write`, `Signal`,
`LoadPaths` (the objects), `ListExports`, `Disable` for each export without an
object.  NFS-Ganesha is modelled as the daemon relies on it (lines 216-217): a
SIGHUP adds what is new in the local copy and neither updates nor deletes, so an id
or a path that is still exported refuses an addition.

`missed` records what the last update cannot have seen or done: the *list*
was written while it was being read, or in the second of the copy; an *addition*
was refused or its signal did not arrive; a *removal* was half done when the objects
were listed, or a call failed.  Each property names the kinds it does not survive,
and each is needed: TLC finds a violation without any one of them.

### BucketNotification

`configs`, `targets` (the rows of `queues` and `topics`) and `resources` are the
tables, with gorm as in `ResourceStore`: soft deletion, `First` takes the lowest
id, a zero condition is left out.  A bucket's row is unique even when
deleted, so `ConfigExists` (error 1062) leads to `FindConfig`, which may find
nothing; the request then goes on with id 0 (`noConfig`), searches the targets of
all buckets and, for an empty body, deletes all configurations.  `mishaps` names
what has gone wrong in a behaviour (`noConfig`, an item without Id, an Id twice in
one body, two PUTs for one bucket at once, a target left with resource 0, a
resource that was created anew, a fault), and each property the mishaps after
which it may fail.  A queue or topic comes and goes in one step: `ResourceStore` has
the statements.  A target's events and filter are one value, its `rule`.  A later PUT for
the same Id answers 200 and leaves the rule as it is, whatever the body says; so
`AcceptedIsDone` claims the rule of a body only for a target that the PUT has created, and
that no rule ever changes.  `kind` is the table of a target, which is that of the XML
element; what it is bound to is named by its ARN, a queue or a topic, whatever the
element is called.

### EventDispatch

The steps of `sendEvent` (the configuration, then the queues and their
resources, then the topics, then the sends in any order) interleave with
everything in `BucketNotification`.  `elastic-notify` has the same function, and
`ElasticNotify` the loop around it.  `must` and `may` follow, from the event on, which
bindings the bucket had all the time, for the event's rule, and at some time, for a rule
with its name: whoever is in `must` gets the event (`NothingMissed`) and whoever is not in
`may` does not (`NothingFalse`).  Errors of the preloads are dropped.  Targets whose events
cannot be read match nothing (`ReadFails`); targets whose filters cannot be read have the
pattern `*` and get every event of the name (`FiltersFail`), which is why `may` knows the
rule and `NothingFalse` names the case.  `Topics.Resource.Endpoints` is preloaded and
`Queues.Resource.Endpoints` is not, so a topic that a QueueConfiguration names gets
nothing (`OutletsLoaded`); `NothingMissed` excepts it.  Both properties are
about events whose bucket name is whole: in a host name the code cuts it
at the last hyphen (`BucketName`), and such an event reaches the targets of the
bucket whose name is the tail.  A copy that the store refused sends an event like
one that worked (`notification.go:358`): an event stands for an answer, not for a
change.

### EventRules

The rules are functions from patterns to sequences of resources, as the code's maps.
A behaviour builds a configuration step by step, and each state is checked:
`Match` gives a resource once for each event name that covers the event
(`DeliveriesAreAsked`), where the reference definition (`Wants`, `Asked`) splits
the object name into prefix, middle and suffix and knows nothing of rules.  Three
things it shows of the code: prefix and suffix do not share letters
(`ab*b` does not match `ab`); overlapping event names of one target
(`s3:ObjectCreated:*` and `s3:ObjectCreated:Put`) deliver twice; the last rule of a
name wins.  `?` stands for a letter, against the comment of `MatchSimple`, and
panics when no letter is left; `sendEvent` then reaches nobody.

The loops of the code are recursive functions over positions: `MatchSimple` over the
symbols and the letters that are left, `AddNames` over the event names, `ToRulesMap` over
the targets.  `Places` are the turns of the two loops of `Match` that append a resource, so
that a delivery is counted and not only found; `OneRule` is the map of one pattern that
`add` unites with the rules of each name.

### OpsLog

`log[n]` is the log object of a bucket and an hour, its lines named for their
requests.  `Answered` fixes the name, `AppendLine` comes later (the goroutine first
asks radosgw-admin for the user).  A run of the dumper lists the objects (`Stat`
with the test of the hour), then `Read`, `Send`, `Delete`; its hour is taken once
at the start and is local, while the hour in a name is that of the Date header, in
GMT.  A run takes an object for that of a past hour when the two differ, so
appending to it between `Stat` and `Delete` loses the line.  `atRisk`, `refused`
and `again` record the lines to which something of that kind has happened (`again`: a run
stopped or failed to delete after sending them, or a second run has read them too), and
again TLC finds a violation without any one of the cases.  A failing Read is
harmless only because a bulk request without lines is an error.  Object sizes
are counted in lines; two runs that overlap can cut a longer line in two, which is
left out.

### ElasticNotify, MetadataSearch, MetadataServices

`MetadataIndex` is Elasticsearch as the two programs rely on it: `index` is the order in
which hits that rank alike come, and a document that is written again moves to its end;
`changes` numbers what happens to objects and says how (through the proxy by a PUT, a
copy or parts, directly at another gateway, metadata, removal).

`ElasticNotify`: `at` is where `main` is, `address` which address it has in hand.
`RegisterFlag` is `flag.String` (line 63), which panics the second time; systemd starts
the process anew (`Start`).  A connection delivers to `stream`; when the other side
stops it is `closed`, and read to its end, or `silent`, and nobody notices, because
`ReadMessage` has no deadline.  Changes while there is no connection are never heard of.
`sendEvent` is one step, since `EventDispatch` has its statements.  `HeardIsTold`: what
has been heard is told, once and in order, but for what was on a connection or in a
process that ended.  `ToldByOneSource`: with one of the two sources on, only uploads in
parts are told twice, for which the proxy has no flag.  `Reconnects`: with the first
address up, the process is connected to it again and again; the restarts that the flag
forces are what makes it come back, and why no other address is ever heard.

`SearchQuery`: a text is a sequence of tokens, and `Matches`, `Preferred` and `Groups`
are the regular expression of line 146 with its greedy name and ordered alternatives.
`Accepts` is the gate of each field and `Selects` the query that is built.  A word has a
form, how it is written (`FormOf`), and the two sides read forms each in its own way: the
handler by its expressions, `time.Parse` and `Atoi` (`IsDuration`, `IsDate`, `IsSize`), the
reference by the error messages (`Documented`, lines 84-87 and per field).  They part at
named values: `Overlooked` are documented and refused (a length of time with a leading
zero, the first minute of year 1, a size beyond `MaxInt`, a hash in upper case), `Beyond`
are taken and not documented (an hour of one digit, and the bar in `[s|m|...]` of line 188,
for which Elasticsearch refuses the search and the handler panics: `Panic`, line 340).
`Means` is what the client means.  `Ambiguous` names the texts that can be read in two ways: an
operator and a value that together look like another operator, and a value of custom
metadata that holds an operator.

`MetadataSearch`: a client asks page by page from the number of hits it has, since the
answer always says that nothing is truncated.  `steady` are the documents it means that
stay in the index unchanged, `shifted` that a document it had got went or moved.
`PagesAreWhole` fails when it is dropped, for pages are cut by position.  A document of
the moment of the search is left out by `lt now` (line 195), hence the exception for it.

The two services share the index and nothing else; `MetadataServices` has both and
looks at behaviours with one of them, which loses nothing because neither writes the
index.

## 3. Runs

| Run | Configuration | Shows |
|---|---|---|
| `queue` | 2 clients, 3 events, 2 queues in turn, cap 2 (10 in the code), 1 fault | order and no duplicates per client in every interleaving, with failing calls, lost answers and restarts; exactly-once delivery and `QueueService` until the first race or fault; what outlives a queue |
| `store` | 2 requests at once, 1 account, 1 name, both services, 3 rows, 1 listing, 1 fault | a listing is true; duplicates are bounded by the requests in progress; a row goes only in a request for it; `ResourceRegistry` until a mishap |
| `move` | a swap and a third move, 2 workers, 2 faults | jobs are handled once, no object is lost, what is reported is true, the answer comes |
| `move_escaped` | an escaped copy source | finding 1 |
| `nfs` | 2 handlers and the migration, 3 users of whom one may own no buckets and one is odd (`MaxOdd`), any of them exported at first, 1 id, 2 requests, 1 fault | which overlap or fault spoils what; `NfsRegistry` until a mishap; which exports the migration leaves, and what it dies of |
| `nfs_rewrite` | 2 handlers | finding 2 |
| `updater` | 2 users with names of their own, one name, or one too long, 2 ids, 3 seconds, 3 changes, pieces of 1 entry, 1 fault | the copy is the list, the exports are those of the listed users, except after what the properties name; they converge |
| `notification` | 2 buckets, 2 queues, 2 rules, 4 bodies, 3 PUTs two at a time, 1 fault | PUTs bind what they name, once, and touch no other bucket, except after named mishaps |
| `dispatch` | 2 buckets, a queue and a topic with 2 endpoints, 3 rules of 2 names, 3 bodies (one with a QueueConfiguration that names the topic), 2 PUTs one after the other, 1 event, 1 fault | who was bound all the time gets the event, and who was not does not |
| `rules` | 2 resources, 3 event names, 4 values, 15 object names, 5 parts | the merged rules deliver what the targets ask for |
| `opslog` | 2 requests, a bucket with a dot and one without, 2 hours, 2 dumpers, 1 fault | lines are neither lost nor doubled except after what the properties name; past hours are emptied |
| `metadata` | 2 addresses, 3 settings of the flags, 4 documents, 2 changes, 41 queries, pages of 1, 2 clients, 1 fault | heard is told, by one source; the process reconnects; the search accepts, selects and pages as documented |

**Bounds.**  `MaxSent`, `MaxRows`, `MaxUuids`, `MaxRequests` and `MaxFaults`
bound counters that only grow.  Two concurrent actors are what each race needs;
three events are more than a full batch of the reduced cap, so a list can be longer
than, as long as, and shorter than what a request asks for, and two queues are the one
that leaves something and its successor; three rows allow a
name that is created, deleted and created again, and a duplicate of it next to
it; the requests of `queue` meet every branch of `BatchSize`.  Three jobs with
a swap let two workers work on each other's keys, and two faults let a copy and
the delete that undoes it both go wrong.  Two admin requests, on
top of users that are exported at first, let a user be deleted and created, or
two users overlap while a third is in the list; with three (and no odd user) the same
properties were checked too; a single id is reused after a delete,
picked by two users at once, and missing for the next user, who gets none.  Next to a
listing the other client rests, unless there is one row and no fault yet (`BesideListing`).

Three seconds give the daemon a change before, in and after the second of its copy,
and a list of two pieces can change between them.  Three PUTs create a
configuration, delete it and come back to it, or bind a target anew, next to a
concurrent one.  In `dispatch` a PUT runs its statements against the five reads of
one event; two PUTs at once (with one bucket and three requests) were checked too
and show that `NothingFalse` needs its exception for a race.  Five parts are two
targets that share a resource, an event or a pattern, with filters of a prefix and a
suffix, and names of three letters are longer than any two values overlap.  In
`opslog` a second run costs the fault, so an overlap is not combined with others.
In `metadata` one fault stops an address, the process or a call; two changes move a
document that was got and one that was not; the queries have each field with operators
that are right, wrong and ambiguous, and a value of each form on both sides of the checks, and the fourth document is in another bucket.

**Deadlock** is checked except where a run must stop: a request to move objects
ends, and `MaxRequests`, `MaxPuts`, `MaxEvents`, `MaxChanges`, `MaxTime` and
`MaxSize` end what happens in their runs.

**Fairness.**  Weak fairness of the next call of a handler or goroutine that has
started: Go schedules runnable goroutines, and calls to Redis, RADOS and the
store return or fail after a timeout.  No client, producer, fault or restart
is fair.  Used by `Answered`.  `Reconnects` needs that the process goes on: systemd starts
it (`Restart=always`), a dial returns within the time limit of the handshake, and what a
connection has delivered is read.  An address need not return; the property is about
behaviours in which the first one stays up.
`Converges` also needs that the daemon polls for as long as it runs (line 270: an endless
loop), that a half-done change of a proxy goes on, and that NFS-Ganesha is restarted and
acts on a signal.  That the daemon is started again after it has ended is not assumed, since
no unit does it, and the property says nothing of a daemon that has ended; `PastHoursGo` needs that the dumper is run again and again, which
the repository leaves to whoever installs it.

**Exceptions.**  Most of the hazards in `PROJECT.json` are not avoided by the code: they
happen, and the properties name them.  A property that holds "unless" a mishap is in
`mishaps`, `missed`, `misled`, `atRisk` or the like does not catch that mishap, it tells that
nothing else breaks it: that the list and the objects of the NFS exports, say, go apart after
two handlers of one user, a stale list or a fault and after no other interleaving.  Not
every behaviour with a mishap ends badly.

**Variants.**  Operators marked `Variant` are plausible bugs (a dropped cap, a
missing `continue`, a condition left out).  No specification uses them; for
each property of each passing run, `PROJECT.json` ("mutants") names a variant
that breaks it when it takes the place of the operator it varies.

## 4. Findings

1. `move_escaped`: objects.go:143 says "Delete source after successfully copy it
   to destination".  For a copy source with an escape (`a%20b`) the store copies
   the unescaped key and the handler deletes the escaped text, so a job is
   reported as moved while its source remains.
2. `nfs_rewrite`: ganesha.go:164 says "remove target export and write back", but
   the write back also drops an entry that was appended after the size of the list was
   taken: the trace of the run ends in the write that drops it, for a user whose DELETE was
   answered with 404 ("even if user is not exists", ganesha.go:274).

## 5. What is proved

TLAPS proves the following for all values of the constants that satisfy the
assumptions stated in the modules (`BatchAssumption`, `BoundAssumption`,
`NameAssumption`, `ClientsAssumption`: a server has finitely many requests at once).

`MessageQueue` and `QueueService`:

- `TypeCorrect` and `ListCorrect`: `Spec => []TypeOK`, `Spec => []ListIsUntrimmed`.
  `ListInv`, their conjunction, is inductive; the work is in `DropProperties` and
  `TakeProperties`, which say what LTRIM and LRANGE do to a sequence.
- `ClientOrderHolds`: `Spec => [](ClientOrder /\ TrimCoversRead)`.  `ClientOrder`
  alone is not inductive.  `OrderInv` adds what a client in each phase of a
  receive has in hand: in its window the messages read are increasing, lie
  within what the trim will remove (`WindowOK`) and above everything the client
  has received before (`HistoryOK`); after the trim they lie below `trimmed`.
- `ServiceHolds`: `Spec => ServiceUntilRace`.  `HeadRead` says that while there
  is no race, a handler in its window has read exactly the head of the list, so
  its `Trim` is a `Take` of `QueueService` and every other step a `Send` or a
  stutter.  `CleanRefinement` says the same of whole behaviours: those without a
  race or a fault (`CleanSpec`) are behaviours of `QueueService` (`QueueSpec`).
- `ServiceCorrect`: `QueueService` loses nothing, gives nothing twice, and gives
  each client its events in order.  Its invariant `ServiceInv` partitions
  `1 .. sent` into the queue and the events taken.
- `ExactlyOnce`: `Spec => []ExactlyOnceIfClean`, from the two before: while
  `clean` holds, the invariant of the abstract queue holds under the mapping.

`ResourceStore`:

- `LookupsHold`: `Spec => [](TypeOK /\ LookupStaysRight /\ SubscriptionsHaveTopics)`.
  `StoreInv` is inductive.  It adds to the three what a request in progress knows
  (`RequestOK`), above all that a Subscribe that writes has found a row; every step
  keeps the rows and what names them (`RowsKept`), so what a request knows stays
  true while others run.
- `DeletesHold`: `Spec => DeletesOnlyItsRow`, from `StoreInv`.
- `DuplicatesHold`: `Spec => []DuplicatesBounded`.  A lookup lets a create go on
  only when its name has no row, an insert turns a pending create into a row, and
  nothing else makes either sum grow.
- `RefinesRegistry`: `Spec => RegistryUntilMishap`.  The mapping needs two more
  invariants: until a mishap a name has one row (`OneRowUntilMishap`), so the row
  that a Delete marks is all there is of its name; and no two subscriptions, made
  or about to be made, have one uuid (`UuidsDiffer`).

`QueueLifetime` and `ResourceListing`:

- `LeftoversHold`: `LifeSpec => []OnlyLeftoversOutlive`, from `RowInv`: each event in
  the list, and the row an event is about to be pushed for, is of the row there is or in
  `left`.  `LifetimeIsQueue`: `LifeSpec => Spec`, so that the theorems about
  `MessageQueue` hold of a queue that comes and goes.
- `ListingsHold`: `ListingSpec => []ListingIsTrue`, from `ListingInv`: a subscription
  that was there all the time has been read, is of a topic still to be read, or of
  one that could not be.  It rests on `OnlyGoes`: no statement brings a row back
  or moves a subscription to another topic.

`MoveObjects`, for any jobs, workers, refused calls and lost answers:

- `EveryJobOnce`: `Spec => [](TypeOK /\ OneCopyOfEachJob)`, from `PlaceInv`: the jobs
  sent so far are split among the channel, the workers, the results and the answer.
- `ObjectsAreKept` (`NoObjectLost`) and `ReportsAreTrue` (`ReportIsTrue`), from
  `MoveInv`.  It says of a job that shares no key with another what the store
  has of it in each of its phases (`WorkOK`) and once it is reported (`ReportOK`).  Jobs
  that share keys have no such invariant, and the two properties except them.

`NfsExport` and `NfsMigration`, for any number of users and handlers, with the proxy's
handlers and the migration interleaved:

- `ObjectsAreRight`, `ListIsRight`, `IdsAreDifferent`, `SubusersAreGone`
  (`MigrationSpec => []...`), `DiesOnlyOfRemoval` (`MigrationSpec => DiesOfRemoval`).
  Their invariant `NfsInv` is a conjunction of parts, each under the mishaps that it
  does not survive: what an object is while a goroutine works on its user, who is then
  alone (`AloneOK`); that an entry is there exactly when its user is to be exported and
  never without an object (`EntryOK`); that at most one id is on its way to an attribute
  (`IdsOK`); and that the migration is still to come to every export for a subuser
  that it takes (`OldOK`).
- `NfsIsRegistry`: `MigrationSpec => ExportsUntilMishap`.  Until the first mishap the
  append of an entry is an `Export`, its removal an `Unexport`, and all else a stutter.

`NfsUpdater`, for any number of users, changes, failing calls and restarts, and whatever
the size of the pieces in which the list is read:

- `CopyIsListHolds`, `ListedIsExportedHolds`, `ExportedIsListedHolds` (`Spec => []...`).
  Their invariant says of each phase of an update what it has come to: what is read is a
  prefix of the list, which is newer than the copy for as long as it is read (`UpdateOK`,
  `CopyOK`); the paths loaded cover the list and what is to be removed is none of it
  (`AdditionsOK`); what is exported and not listed is still to be removed (`RemovalsOK`).
  The last two hold while nothing is recorded in `missed` that they do not survive.  The
  work is in `ListBecomesDoes`: a list that is written at any moment gives the daemon a
  reason to read it again or is recorded, and in `DisableKeeps`: the export removed by id
  is the one that was found, because no other has that id (`GaneshaOK`).  Nothing is
  assumed of who is called what: users may share a name.  TLC checks the
  parts of the invariant on the instance of `updater`.

`OpsLog`, for any number of requests and of dumpers that overlap:

- `LinesAreKept`: `Spec => [](TypeOK /\ NothingLost)`.  `LossInv` says of each run what
  the lines of its object are that it has not in hand: at risk, refused, indexed, or
  about to be sent (`RunOK`), and that behind a line that is too long all are at risk.
- `LinesAreIndexedOnce`: `Spec => []IndexedOnce`.  `OnceInv`: a line is in one object, the
  runs that hold it are of that object, and unless it is in `again` one run holds it at
  most, which deletes the object when it has sent it.  The proof made a hole in the model
  visible: a line was put in `again` when the second run sent it, which is too late
  when the first one has sent it before.

`MetadataServices`:

- `HeardIsToldHolds` and `ToldOnce` (`ServicesSpec => []...`), from `NotifyInv`:
  what is told comes before what is on the connection, both increase, and together with
  what was given up they are all the writes so far.
- `DocumentedIsAccepted`: `ServicesSpec => []AcceptsTheDocumented`, where what is documented
  and what is accepted are defined apart.  The work is in
  `SearchQuery`: for a text that is not ambiguous the expression's greedy name and ordered
  alternatives give back the field, the operator and the value it was written from
  (`GroupsAreWritten`), whatever tokens these consist of.  `IsQuery` is the shape of a
  query and an assumption on `Queries`; the attributes of documents are assumed to have
  the types Elasticsearch is given.
- `SelectedIsMeant` and `MeantIsSelected`: what such a query selects is what it means, and
  what it means is selected but for documents of the moment of the search.
- `AnswersHold` (`ServicesSpec => []AnswersAreMeant`) and `PagesHold` (`ServicesSpec =>
  PagesAreWhole`), from `SearchInv`: what has been got comes first among the hits of the
  query (`ComesFirst`) unless `shifted`, so the next page goes on where the last ended, and
  what was meant and never changed is still in the index (`PlaceOK`).  That the hits are
  what is selected, each once, is `AmongIs`: the places that are selected are numbered
  without gaps, because as many numbers are given as there are places.

`BucketNotification` and `EventDispatch`, for any number of buckets, bodies, requests,
restarts and failing statements:

- `OneTargetHolds`, `NamedIsBoundHolds` (`Spec => []...`), `OnlyItsOwnPutHolds` and
  `AcceptedIsDoneHolds` (`Spec => ...`, action properties).  `PutsInv` has nine parts.
  `TablesInv`: what a request has found is what its item names, the rows of a first PUT
  are its own, and the configuration it knows is its bucket's unless it went on without
  one.  `RaceInv`, `RepeatedInv`: what the history says of requests in progress.
  `UniqueInv`: when a request is about to create a target there is none like it, which no
  statement of another request can change unless it is for the same bucket.  `OneOfAnArn`,
  `BoundInv`: an ARN had one resource, and what is not pending is bound to it.  `LiveInv`:
  the configuration of a PUT that found it stays.  `DoneInv`: the items gone over are bound.
  `NewRowsInv`: what is new in a bucket since a PUT for it began is as the PUT says.
- `NothingFalseHolds` (`EventSpec => []NothingFalse`) and `NothingMissedHolds` (`EventSpec
  => NothingMissed`).  `EventInv` adds to `PutsInv` what an event at each of its reads still
  can come to have (`MayAt`: no row that it may still read is of a binding outside `may`, nor
  one for another rule of the name unless a filter could not be read)
  and what it has not passed over (`MustAt`: each resource in `must` is still to be read,
  has been read, is to be sent to, or has been).  The first needs that the rows of a bucket
  change only while its configuration is live, which is where the race with a deletion is
  excepted (`RowsOfLive`).

`EventRules`, for configurations of any size, any letters and any values with or without
wildcards:

- `MatchSimpleIs`: `MatchSimple` says yes exactly when the pattern fits the name, that is,
  when its symbols can be laid along the name one after the other, a star over any letters
  and each other symbol over one (`Fits`: there is a path of positions).  The code tries a
  star with no letter first, and a panic there keeps it from trying more; the proof shows that
  this hides no match, because a rest of the pattern that panics fits no shorter rest of the
  name either.  It panics only over a pattern that has a question mark.
- `DeliveriesHold`: `RulesSpec => []DeliveriesAreAsked`.  The inductive invariant is small
  (`RulesTyped`: targets with listed names and values); the work is in what the functions
  compute.  `ReplaceDoubledIs`: of doubled stars only one behind another is dropped, which
  takes nothing that the first could not.  `NewPatternCovers` and `FilterIs`: a prefix that
  is opened with a star and a suffix that is opened with one take exactly the names
  that begin with what the prefix takes and end, behind it, with what the suffix takes, which
  is `Wants`.  `PlacesOfUnion`: when rules are united, the places of a resource are those of
  the one and those of the other, shifted behind, and none is lost or merged.  From these
  `TargetRulesIs` counts the deliveries of a target name by name and `RulesMapIs` those of
  all targets, one by one.

Both are inductions over data.  The induction theorems of the library cannot be used, for
they take an operator; instead what is to be shown of each number up to `n` is put as a set
of numbers (`UpFrom`, from the least element of its complement), and a function defined by
recursion is shown to exist by extending it from one number to the next (`Recursion`), after
which its definition can be used.

## 6. What is only model-checked

- Liveness (`Answered`, `Converges`, `PastHoursGo`, `Reconnects`), which TLAPS does not
  reach; so ENABLED.
- The two findings, which are violations.

## 7. Where the project stands

The model has every component of section 1 that keeps state or decides something.  Each
safety property of each passing run is stated by a theorem for all values of the constants;
section 6 lists what TLC alone shows.

## 8. Not modelled

- Bucket permission (`PatchBucketPermission`): one call on the mounted file system,
  after checks of its parameters; it keeps no state and nothing waits for it.
- `updateNfsExport`, `setupPermission` and `InheritNfsPermission`: nothing calls them.
- The SNS worker: one POST per task; the broker holds the state, and Celery's retries
  are not used.
- GET `?notification`, `ListQueues`, `ListTopics`: one read of what the models have.
- Configuration, authentication, response formatting: a request that is refused changes
  nothing.
- Vendored code, except as far as its callers see it (gorm's conditions, MinIO's
  wildcard match, the RADOS client's calls).
