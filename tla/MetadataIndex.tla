---------------------------- MODULE MetadataIndex ----------------------------
(***************************************************************************)
(* The Elasticsearch index in which the object store keeps the metadata of *)
(* its objects.  It is not in the repository: this is what elastic-notify, *)
(* which listens to its changes, and the metadata search, which queries    *)
(* it, rely on.  A document that is written again is a new one to the      *)
(* index and comes last among equal hits.                                  *)
(***************************************************************************)
EXTENDS Integers, Sequences, FiniteSets, SequencesExt

CONSTANTS Documents,
          Initially,   \* the documents at first, in the order of the index
          MaxChanges   \* bound: changes in one behaviour

ASSUME ChangesAssumption ==
    MaxChanges \in Nat /\ Initially \in Seq(Documents) /\ IsInjective(Initially)

VARIABLES index,    \* the documents, in the order of a search that ranks all equal
          changes   \* history: what has happened to objects (Causes), in order

indexVars == <<index, changes>>

\* An object is written: put, copied or completed from parts through the proxy, or put
\* through another gateway; its metadata change; it is removed.
Writes == {"put", "copy", "multipart", "direct"}
Causes == Writes \union {"metadata", "removal"}

IndexInit == index = Initially /\ changes = <<>>

Indexed == Range(index)

\* Those of the documents that are in the ranking, in its order.
Among(documents, ranking) ==
    LET places == {i \in DOMAIN ranking : ranking[i] \in documents}
        Nth(n) == CHOOSE i \in places : Cardinality({j \in places : j <= i}) = n
    IN  [n \in 1 .. Cardinality(places) |-> ranking[Nth(n)]]

Without(d) == Among(Documents \ {d}, index)

Changed(cause, newIndex) ==
    /\ Len(changes) < MaxChanges
    /\ changes' = Append(changes, cause)
    /\ index' = newIndex

Write(d, cause) == Changed(cause, Append(Without(d), d))
ChangeMetadata(d) == d \in Indexed /\ Changed("metadata", Append(Without(d), d))
RemoveObject(d) == d \in Indexed /\ Changed("removal", Without(d))

Change(d) == \/ \E cause \in Writes : Write(d, cause)
             \/ ChangeMetadata(d) \/ RemoveObject(d)
=============================================================================
