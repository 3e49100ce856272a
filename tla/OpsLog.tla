-------------------------------- MODULE OpsLog --------------------------------
(***************************************************************************)
(* The operation log.  For every answer of the object store a goroutine of *)
(* the proxy appends a line to the log object of the bucket and the hour   *)
(* (LoggingOps in pkg/controllers/ops_logging.go), and a program that is   *)
(* run from time to time sends the lines of all log objects but those of   *)
(* the current hour to Elasticsearch and deletes the objects               *)
(* (opslog/opslog_dumper.go).                                              *)
(*                                                                         *)
(* The hour in a name is that of the Date header, which is in GMT, or the  *)
(* local one when the header does not parse; the current hour of the       *)
(* dumper is local.  An object that has no lines does not exist.           *)
(***************************************************************************)
EXTENDS Integers, Sequences, SequencesExt

CONSTANTS Requests,
          Longs,      \* the sets of requests whose lines may be longer than a
                      \* Scanner reads
          Buckets,
          Dotted,     \* those whose name parseLogName does not match
          Dumpers,    \* runs of the dumper at once
          Offsets,    \* the time zones, in hours ahead of GMT
          NoName,     \* no log object
          MaxHour,    \* bound: hours
          MaxFaults   \* bound: failing calls, and runs that begin during another

ASSUME SubsetAssumption == Longs \subseteq SUBSET Requests /\ Dotted \subseteq Buckets
ASSUME OffsetAssumption == Offsets \subseteq Int
ASSUME BoundAssumption == MaxHour \in Nat /\ MaxFaults \in Nat

Hours == {h + o : h \in 0 .. MaxHour, o \in Offsets \union {0}}
Names == [bucket : Buckets, hour : Hours]

VARIABLES hour,     \* the hour it is, in GMT
          offset,   \* the time zone of the hosts
          long,     \* the requests whose lines are too long
          log,      \* log[n]: the lines of the object n, each named for its request
          request,  \* request[r]: its log object from the answer to the append
          dumper,   \* dumper[d]: what run d of the dumper is doing
          indexed,  \* indexed[r]: how often Elasticsearch has the line
          appended, \* history: the lines written so far
          atRisk,   \* history: those written where or when a run may drop lines
          refused,  \* history: those that Elasticsearch has refused
          again,    \* history: those a run has left after sending them, or two have read
          faults    \* history: faults so far

lines == <<log, request, appended, atRisk>>
results == <<indexed, refused, again>>
setting == <<offset, long>>
vars == <<hour, setting, lines, dumper, results, faults>>

NotYet == [at |-> "none"]
Done == [at |-> "done"]
Off == [at |-> "off"]

Init ==
    /\ hour = 0
    /\ offset \in Offsets
    /\ long \in Longs
    /\ log = [n \in Names |-> <<>>]
    /\ request = [r \in Requests |-> NotYet]
    /\ dumper = [d \in Dumpers |-> Off]
    /\ indexed = [r \in Requests |-> 0]
    /\ appended = {} /\ atRisk = {} /\ refused = {} /\ again = {}
    /\ faults = 0

NoFault == UNCHANGED faults
Fault == faults < MaxFaults /\ faults' = faults + 1

LocalHour == hour + offset

Tick ==
    /\ hour < MaxHour
    /\ hour' = hour + 1
    /\ UNCHANGED <<setting, lines, dumper, results, faults>>

-----------------------------------------------------------------------------
(* LoggingOps. *)

\* The name has the hour of the Date header, or of time.Now().
Answered(r, b, h) ==
    /\ request[r] = NotYet
    /\ h \in {hour, LocalHour}
    /\ request' = [request EXCEPT
          ![r] = [at |-> "answered", name |-> [bucket |-> b, hour |-> h]]]
    /\ UNCHANGED <<hour, setting, log, appended, atRisk, dumper, results, faults>>

\* The object is not that of the current hour, or not for the dumper; a run is on
\* its way that has begun in another hour; or a line is too long for the dumper.
AtRisk(r, n) ==
    \/ n.bucket \in Dotted \/ n.hour # LocalHour
    \/ \E d \in Dumpers : dumper[d] # Off /\ dumper[d].now # LocalHour
    \/ (ToSet(log[n]) \union {r}) \intersect long # {}

\* The append comes whenever radosgw-admin has told who the user is.
AppendLine(r) ==
    /\ request[r].at = "answered"
    /\ LET n == request[r].name
       IN  /\ log' = [log EXCEPT ![n] = Append(@, r)]
           /\ atRisk' = atRisk \union (IF AtRisk(r, n) THEN {r} ELSE {})
    /\ request' = [request EXCEPT ![r] = Done]
    /\ appended' = appended \union {r}
    /\ UNCHANGED <<hour, setting, dumper, results, faults>>

\* Without a user, or when the append fails, there is no line.
NoLine(r) ==
    /\ request[r].at = "answered"
    /\ request' = [request EXCEPT ![r] = Done]
    /\ UNCHANGED <<hour, setting, log, appended, atRisk, dumper, results, faults>>

-----------------------------------------------------------------------------
(* The dumper. *)

At(d, at) == dumper[d].at = at
Becomes(d, state) == dumper' = [dumper EXCEPT ![d] = state]
Existing == {n \in Names : log[n] # <<>>}
Passed(d) == [dumper[d] EXCEPT !.at = "list", !.name = NoName, !.size = 0, !.data = <<>>]

\* dumper[d].left: the objects that were there when the listing began and have not
\* been listed; .seen: those that have been.
Start(d) ==
    /\ At(d, "off")
    /\ Becomes(d, [at |-> "list", now |-> LocalHour, left |-> Existing, seen |-> {},
                   name |-> NoName, size |-> 0, data |-> <<>>])
    /\ IF \E e \in Dumpers : dumper[e] # Off THEN Fault ELSE NoFault
    /\ UNCHANGED <<hour, setting, lines, results>>

\* Variants: no hour is spared; all but one are.
SparesNone(n, now) == FALSE
SparesOthers(n, now) == n.hour # now

\* parseLogName, and the test of the hour.
Spares(n, now) == n.bucket \notin Dotted /\ n.hour = now

\* An object is listed.  One that appears during the listing may be listed or not,
\* one that another run has deleted has no Stat.
Stat(d, n) ==
    /\ At(d, "list") /\ n \notin dumper[d].seen
    /\ n \in dumper[d].left \union Existing
    /\ LET listed == [dumper[d] EXCEPT !.left = @ \ {n}, !.seen = @ \union {n}]
           takes == log[n] # <<>> /\ ~Spares(n, dumper[d].now)
       IN  Becomes(d, IF takes
                      THEN [listed EXCEPT !.at = "read", !.name = n, !.size = Len(log[n])]
                      ELSE listed)
    /\ UNCHANGED <<hour, setting, lines, results>> /\ NoFault

Least(m, n) == IF m < n THEN m ELSE n

ReadByOther(d, n) == \E e \in Dumpers \ {d} :
    dumper[e].at \in {"send", "delete"} /\ dumper[e].name = n

\* As many bytes as Stat has told.
Read(d) ==
    /\ At(d, "read")
    /\ LET n == dumper[d].name
           data == SubSeq(log[n], 1, Least(dumper[d].size, Len(log[n])))
       IN  /\ Becomes(d, [dumper[d] EXCEPT !.at = "send", !.data = data])
           /\ again' = IF ReadByOther(d, n) THEN again \union ToSet(data) ELSE again
    /\ UNCHANGED <<hour, setting, lines, indexed, refused>> /\ NoFault

\* The buffer keeps its zeros, which are no line.
ReadFails(d) ==
    /\ At(d, "read")
    /\ Becomes(d, [dumper[d] EXCEPT !.at = "send"])
    /\ UNCHANGED <<hour, setting, lines, results>> /\ Fault

\* The Scanner ends at a line that is too long.
Scanned(d) ==
    LET IsLong(r) == r \in long
        i == SelectInSeq(dumper[d].data, IsLong)
    IN  {dumper[d].data[k] : k \in 1 .. IF i = 0 THEN Len(dumper[d].data) ELSE i - 1}

Index(taken) == indexed' = [r \in Requests |->
                               IF r \in taken THEN indexed[r] + 1 ELSE indexed[r]]

\* The bulk request, which is an error without lines.
Send(d) ==
    /\ At(d, "send")
    /\ Index(Scanned(d))
    /\ Becomes(d, IF Scanned(d) = {} THEN Passed(d)
                  ELSE [dumper[d] EXCEPT !.at = "delete"])
    /\ UNCHANGED <<hour, setting, lines, refused, again>> /\ NoFault

\* Elasticsearch answers 200 and has refused some of the lines.
SendRefused(d) ==
    /\ At(d, "send")
    /\ \E some \in (SUBSET Scanned(d)) \ {{}} :
          Index(Scanned(d) \ some) /\ refused' = refused \union some
    /\ Becomes(d, [dumper[d] EXCEPT !.at = "delete"])
    /\ UNCHANGED <<hour, setting, lines, again>> /\ Fault

\* The request fails, or its answer is lost.
SendFails(d) ==
    /\ At(d, "send")
    /\ \E taken \in {{}, Scanned(d)} : Index(taken) /\ again' = again \union taken
    /\ Becomes(d, Passed(d))
    /\ UNCHANGED <<hour, setting, lines, refused>> /\ Fault

\* Variant: nothing is deleted.
DeleteNothing(d) ==
    /\ At(d, "delete")
    /\ Becomes(d, Passed(d))
    /\ UNCHANGED <<hour, setting, lines, results>> /\ NoFault

Delete(d) ==
    /\ At(d, "delete")
    /\ log' = [log EXCEPT ![dumper[d].name] = <<>>]
    /\ Becomes(d, Passed(d))
    /\ UNCHANGED <<hour, setting, request, appended, atRisk, results>> /\ NoFault

DeleteFails(d) ==
    /\ At(d, "delete")
    /\ Becomes(d, Passed(d))
    /\ again' = again \union Scanned(d)
    /\ UNCHANGED <<hour, setting, lines, indexed, refused>> /\ Fault

Ends(d) ==
    /\ At(d, "list") /\ dumper[d].left = {}
    /\ Becomes(d, Off)
    /\ UNCHANGED <<hour, setting, lines, results>> /\ NoFault

Crash(d) ==
    /\ ~At(d, "off")
    /\ Becomes(d, Off)
    /\ again' = IF At(d, "delete") THEN again \union Scanned(d) ELSE again
    /\ UNCHANGED <<hour, setting, lines, indexed, refused>> /\ Fault

-----------------------------------------------------------------------------
LoggingOps ==
    \/ \E r \in Requests, b \in Buckets, h \in Hours : Answered(r, b, h)
    \/ \E r \in Requests : AppendLine(r) \/ NoLine(r)

Dump(d) ==
    \/ Start(d) \/ (\E n \in Names : Stat(d, n)) \/ Read(d) \/ Send(d) \/ Delete(d)
    \/ Ends(d)

DumpFails(d) ==
    ReadFails(d) \/ SendRefused(d) \/ SendFails(d) \/ DeleteFails(d) \/ Crash(d)

Next == Tick \/ LoggingOps \/ \E d \in Dumpers : Dump(d) \/ DumpFails(d)

Spec == Init /\ [][Next]_vars /\ \A d \in Dumpers : WF_vars(Dump(d))
-----------------------------------------------------------------------------
(* Properties. *)

\* A line is in its log object or in Elasticsearch, whatever fails or stops, except when
\* it was refused there, or when it was appended to an object that the dumper does not
\* take for that of the current hour, during a run of an earlier hour, or behind a line
\* that is too long: the deletion takes what was appended since Stat (lines 92-127).
NothingLost ==
    \A r \in appended \ (atRisk \union refused) :
        indexed[r] > 0 \/ \E n \in Names : r \in ToSet(log[n])

\* A line is in Elasticsearch once, unless a run has not deleted what it had sent, or
\* two runs have read the object at the same time: the ids are new each time (108, 117).
IndexedOnce == \A r \in Requests \ again : indexed[r] <= 1

\* The dumper is run again and again and the calls stop failing: only the current hour is
\* left, and objects that begin with a line that is too long, which no run ever deletes.
PastHoursGo ==
    <>[](\A n \in Existing : n.hour = LocalHour \/ Head(log[n]) \in long)
=============================================================================
