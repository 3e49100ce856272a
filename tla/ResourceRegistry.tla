-------------------------- MODULE ResourceRegistry --------------------------
(***************************************************************************)
(* What a client expects of the queues, topics and subscriptions: a set of *)
(* names, and subscriptions that belong to one of them.  Each operation is *)
(* one step and touches what it names.                                     *)
(***************************************************************************)
CONSTANTS Keys,   \* the queues and topics: service, account and name
          Uuids   \* names of subscriptions

VARIABLES names,  \* the keys that exist
          subs    \* the subscriptions [key, uuid] of the keys that exist

registryVars == <<names, subs>>

SubsOf(k) == {s \in subs : s.key = k}

Init == names = {} /\ subs = {}

\* CreateQueue, CreateTopic
Create(k) ==
    /\ k \notin names
    /\ names' = names \union {k}
    /\ UNCHANGED subs

\* DeleteQueue, DeleteTopic: the subscriptions go with the topic.
Delete(k) ==
    /\ k \in names
    /\ names' = names \ {k}
    /\ subs' = subs \ SubsOf(k)

\* Subscribe gives a new name.
Subscribe(k, u) ==
    /\ k \in names
    /\ \A s \in subs : s.uuid # u
    /\ subs' = subs \union {[key |-> k, uuid |-> u]}
    /\ UNCHANGED names

Unsubscribe(s) ==
    /\ s \in subs
    /\ subs' = subs \ {s}
    /\ UNCHANGED names

Next ==
    \/ \E k \in Keys : Create(k) \/ Delete(k) \/ \E u \in Uuids : Subscribe(k, u)
    \/ \E s \in subs : Unsubscribe(s)

Spec == Init /\ [][Next]_registryVars
=============================================================================
