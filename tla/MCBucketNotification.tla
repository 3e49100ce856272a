------------------------ MODULE MCBucketNotification ------------------------
(* PUT requests for two buckets: nothing; one queue; two queues, the first in   *)
(* place of another and with other events; two without Ids of which one does    *)
(* not parse.                                                                    *)
EXTENDS BucketNotification, TLC

CONSTANTS b1, b2, q1, q2, i1, i2, x, y, p1, p2

To(ident, arn, rule) == [kind |-> "queue", ident |-> ident, arn |-> arn, rule |-> rule]

MCBodies == {
    <<>>,
    <<To(i1, q1, x)>>,
    <<To(i1, q2, y), To(i2, q1, x)>>,
    <<To(NoIdent, q1, x), To(NoIdent, Malformed, x)>>}

Symmetry == Permutations({p1, p2}) \union Permutations({b1, b2})
=============================================================================
