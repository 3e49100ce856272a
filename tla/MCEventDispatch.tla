-------------------------- MODULE MCEventDispatch --------------------------
(* A bucket and one whose name ends in the name of the first after a hyphen;  *)
(* a queue and a topic; bodies with a QueueConfiguration that names the topic *)
(* and a TopicConfiguration, with another for the queue, and empty.           *)
EXTENDS EventDispatch, TLC

CONSTANTS logs, myLogs, q, t, i1, i2, x, y, z, p1

MCTailOf == [b \in {logs, myLogs} |-> logs]

\* Two rules for one name, with different filters.
MCNameOf == [rule \in {x, y, z} |-> IF rule = z THEN "removed" ELSE "created"]

To(kind, ident, arn, rule) ==
    [kind |-> kind, ident |-> ident, arn |-> arn, rule |-> rule]

MCBodies == {
    <<>>,
    <<To("queue", i1, t, x), To("topic", i2, t, y)>>,
    <<To("queue", i2, q, z)>>}
=============================================================================
