--------------------------- MODULE MetadataServices ---------------------------
(***************************************************************************)
(* The two services that use the metadata index: a change of an object is  *)
(* a message to elastic-notify, and moves the hits of a search in progress.*)
(* They share the index and nothing else, and neither writes it, so it is  *)
(* enough to look at behaviours in which one of them is there.             *)
(***************************************************************************)
EXTENDS ElasticNotify, MetadataSearch

allVars == <<notifyVars, searchVars>>

ServicesInit ==
    /\ Init /\ SearchInit
    /\ at = "absent" <=> search.at # "absent"

ServicesNext ==
    \/ \E d \in Documents : ObjectChanges(d) /\ Watch
    \/ at # "absent" /\ (ProcessStep \/ FaultStep) /\ UNCHANGED searchVars
    \/ SearchStep /\ UNCHANGED notifyVars

ServicesSpec ==
    ServicesInit /\ [][ServicesNext]_allVars /\ Fairness
=============================================================================
