---------------------------- MODULE ElasticNotify ----------------------------
(***************************************************************************)
(* elastic-notify (elastic-notify/main.go): a process that listens to the  *)
(* changes of the index over a web socket and sends an event for each      *)
(* object written, as the proxy does for what goes through it.             *)
(*                                                                         *)
(* The process goes through the addresses of the feed for ever, but the    *)
(* flag `addr' may be registered once: at the second attempt, to whatever  *)
(* address, flag.String panics.  systemd starts the process again.         *)
(*                                                                         *)
(* sendEvent is one step here: EventDispatch has its statements.  Changes  *)
(* are named by their number.                                              *)
(***************************************************************************)
EXTENDS MetadataIndex

CONSTANTS Addresses,   \* the number of addresses in CHANGES_ADDR
          Settings,    \* settings of the flags create, copy and elastic
          MaxFaults    \* bound: faults in one behaviour

ASSUME AddressesAssumption == Addresses \in Nat \ {0} /\ MaxFaults \in Nat
ASSUME SettingsAssumption == Settings \subseteq [create : BOOLEAN, copy : BOOLEAN, elastic : BOOLEAN]

VARIABLES enabled,     \* the flags: ENABLE_KAOLIANG_CREATE, _COPY, ENABLE_ELASTIC_CREATE
          up,          \* up[a]: address a answers
          at,          \* where the process is; it may not be installed at all
          address,     \* the address it is at
          registered,  \* the flag is registered
          stream,      \* changes the connection has delivered and nobody has read
          proxyTold,   \* history: the writes the proxy has sent an event for
          told,        \* history: those this process has sent an event for, in order
          unheard,     \* history: the changes that never got to sendEvent, or were not
                       \* sent because a call failed
          faults       \* history: faults so far

processVars == <<at, address, registered>>
notifyVars == <<indexVars, enabled, up, processVars, stream, proxyTold, told, unheard, faults>>

Init ==
    /\ IndexInit
    /\ enabled \in Settings
    /\ up = [a \in 1 .. Addresses |-> TRUE]
    /\ at \in {"down", "absent"} /\ address = 1 /\ registered = FALSE
    /\ stream = <<>>
    /\ proxyTold = {} /\ told = <<>> /\ unheard = {}
    /\ faults = 0

Connected == at = "reading"

\* There is a connection, which the other side may have closed, or left without a word.
Open == at \in {"reading", "closed", "silent"}

-----------------------------------------------------------------------------
(* The objects. *)

\* The proxy sends an event of its own (ReverseProxy, modifyResponse).
ProxyTells(cause) ==
    \/ cause = "put" /\ enabled.create
    \/ cause = "copy" /\ enabled.copy
    \/ cause = "multipart"

\* The index tells whoever is connected to it.
ObjectChanges(d) ==
    /\ Change(d)
    /\ LET n == Len(changes')
       IN  /\ proxyTold' = IF ProxyTells(changes'[n]) THEN proxyTold \union {n} ELSE proxyTold
           /\ IF Connected THEN stream' = Append(stream, n) /\ UNCHANGED unheard
                           ELSE unheard' = unheard \union {n} /\ UNCHANGED stream
    /\ UNCHANGED <<enabled, up, processVars, told, faults>>

-----------------------------------------------------------------------------
(* The process. *)

\* The process ends; what it has not read is lost.
Dies ==
    /\ at' = "down" /\ address' = 1 /\ registered' = FALSE
    /\ stream' = <<>>
    /\ unheard' = unheard \union Range(stream)

\* systemd starts it.
Start ==
    /\ at = "down" /\ at' = "next"
    /\ UNCHANGED <<indexVars, enabled, up, address, registered, stream, proxyTold, told, unheard, faults>>

NextAddress == IF address = Addresses THEN 1 ELSE address + 1

\* flag.String; the second time it panics.
RegisterFlag ==
    /\ at = "next"
    /\ IF registered THEN Dies
       ELSE /\ at' = "dialing" /\ registered' = TRUE
            /\ UNCHANGED <<address, stream, unheard>>
    /\ UNCHANGED <<indexVars, enabled, up, proxyTold, told, faults>>

\* Dial; when it fails the loop goes on to the next address, or begins again.
Dial ==
    /\ at = "dialing"
    /\ IF up[address] THEN at' = "reading" /\ UNCHANGED address
                      ELSE at' = "next" /\ address' = NextAddress
    /\ UNCHANGED <<indexVars, enabled, up, registered, stream, proxyTold, told, unheard, faults>>

\* Variant: the flag is the proxy's.
QualifiesForProxy(n) == enabled.create /\ changes[n] # "removal"

\* Variant: the flag is forgotten.
QualifiesAlways(n) == changes[n] # "removal"

\* CREATE or INDEX, with the flag on: a change of metadata is an INDEX like a write.
Qualifies(n) == enabled.elastic /\ changes[n] # "removal"

\* The next message has been dealt with.
TakeChange(newTold) ==
    /\ Open /\ stream # <<>>
    /\ stream' = Tail(stream)
    /\ told' = newTold
    /\ UNCHANGED <<indexVars, enabled, up, processVars, proxyTold>>

\* ReadMessage, and sendEvent to its end.
ReadChange ==
    /\ TakeChange(IF Qualifies(Head(stream)) THEN Append(told, Head(stream)) ELSE told)
    /\ UNCHANGED <<unheard, faults>>

\* Variant: the loop over the messages goes on after an error.
ReadFailsAgain == at = "closed" /\ stream = <<>> /\ UNCHANGED notifyVars

\* ReadMessage fails when the other side has closed and all is read: the loop ends, and
\* with it the turn of this address.  It has no deadline: a side that is gone without a
\* word is waited for.
ReadFails ==
    /\ at = "closed" /\ stream = <<>>
    /\ at' = "next" /\ address' = NextAddress
    /\ UNCHANGED <<indexVars, enabled, up, registered, stream, proxyTold, told, unheard, faults>>

-----------------------------------------------------------------------------
(* Faults. *)

Fault == faults < MaxFaults /\ faults' = faults + 1

\* An address stops.  A connection to it is closed, with or without what is on its way,
\* or falls silent.
Outage(a) ==
    /\ up[a] /\ Fault
    /\ up' = [up EXCEPT ![a] = FALSE]
    /\ IF Connected /\ a = address
       THEN /\ at' \in {"closed", "silent"}
            /\ \/ UNCHANGED <<stream, unheard>>
               \/ stream' = <<>> /\ unheard' = unheard \union Range(stream)
       ELSE UNCHANGED <<at, stream, unheard>>
    /\ UNCHANGED <<indexVars, enabled, address, registered, proxyTold, told>>

Returns(a) ==
    /\ ~up[a]
    /\ up' = [up EXCEPT ![a] = TRUE]
    /\ UNCHANGED <<indexVars, enabled, processVars, stream, proxyTold, told, unheard, faults>>

\* sendEvent cannot read the configuration of the bucket: its error is dropped.
SendFails ==
    /\ TakeChange(told) /\ Qualifies(Head(stream))
    /\ unheard' = unheard \union {Head(stream)}
    /\ Fault

\* The process is stopped, or the pattern of a filter panics (EventRules).
Crash ==
    /\ at \notin {"down", "absent"} /\ Dies /\ Fault
    /\ UNCHANGED <<indexVars, enabled, up, proxyTold, told>>

-----------------------------------------------------------------------------
ProcessStep == Start \/ RegisterFlag \/ Dial \/ ReadChange \/ ReadFails

FaultStep == SendFails \/ Crash \/ \E a \in 1 .. Addresses : Outage(a) \/ Returns(a)

\* Read again and again, dialled within the time limit of the handshake, started again.
Fairness == WF_notifyVars(ProcessStep)

-----------------------------------------------------------------------------
(* Properties. *)

WritesSoFar == {n \in 1 .. Len(changes) : changes[n] \in Writes}

\* Each write that the process has heard of is told, once and in order, whatever
\* connections and processes come and go (main.go:77-100).
HeardIsTold ==
    /\ \A i, j \in 1 .. Len(told) : i < j => told[i] < told[j]
    /\ enabled.elastic => WritesSoFar \subseteq Range(told) \union Range(stream) \union unheard

\* With one of the two sources switched on, no write is told twice, except one from
\* parts, for which the proxy has no flag (notification.go:360, main.go:98).
ToldByOneSource ==
    ~(enabled.elastic /\ (enabled.create \/ enabled.copy)) =>
        \A n \in proxyTold \intersect Range(told) : changes[n] = "multipart"

\* When the first address stays up and did not fall silent, the process is connected to
\* it again and again.  Of the others it never hears (main.go:62-63).
Reconnects ==
    <>[](up[1] /\ at \notin {"absent", "silent"}) => []<>(Connected /\ address = 1)
=============================================================================
