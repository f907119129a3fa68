--------------------------- MODULE SolrCollections ---------------------------
(***************************************************************************)
(* internal/controller/solr/solr.go: the two requests of Solr's            *)
(* collections API that the operator makes, and the set of collections     *)
(* Solr has.  The operator never creates one: applications do, under the   *)
(* name they find in the config map.                                       *)
(*                                                                         *)
(* Both requests are GETs, so unlike a POST's their status is checked:     *)
(* whatever Solr refuses is an error to the caller.                        *)
(***************************************************************************)
EXTENDS Faults

CONSTANT Names       \* names of collections

ASSUME NamesAssumption == NONE \notin Names

VARIABLE inSolr      \* the collections that exist

(* LIST, which comes back or does not; it changes nothing.                 *)
ListCollections(ok) ==
    /\ IF ok THEN Calm ELSE Disrupt("solrError")
    /\ UNCHANGED inSolr

CollectionExists(n) == n \in inSolr

(* DELETE of a collection that is not there is an error.                   *)
DeleteCollection(n, o) ==
    /\ \/ o = "done" /\ CollectionExists(n) /\ Calm
       \/ o = "failed" /\ ~CollectionExists(n) /\ Calm
       \/ o \in {"failed", "lost"} /\ CollectionExists(n) /\ Disrupt("solrError")
    /\ inSolr' = IF Applied(o) THEN inSolr \ {n} ELSE inSolr
=============================================================================
