----------------------- MODULE CollectionRequirements -----------------------
(***************************************************************************)
(* What the collection controller has to get right.                        *)
(***************************************************************************)
EXTENDS CollectionController

(* The collection name an application finds in the Collection's config map. *)
Published(c) ==
    IF MapOf[c] = NONE \/ configMap[MapOf[c]] = NONE THEN NONE
    ELSE configMap[MapOf[c]].name

HasFinalizer(obj) == obj # NONE /\ obj.finalizer

SaysReady(c) == Live(collection[c]) /\ collection[c].status.Available = "Ready"

WorkerSteps == pc' # pc

-----------------------------------------------------------------------------
(* Every variable has its type, in every state the controller, its caches  *)
(* and the other writers can bring about.                                  *)
TypeOK ==
    /\ spent \in 0 .. MaxDisruptions
    /\ ApiTypeOK
    /\ pc \in Labels
    /\ w \in Work

(***************************************************************************)
(* The finalizer's promise (FinalizerLifecycle): between Begin and the end *)
(* of an ensuring pass the worker may make a config map, and while it may  *)
(* the finalizer keeps the Collection, although the pass was decided on a  *)
(* copy that may be old.  The promise is for Collections without another   *)
(* finalizer, which would keep them when ours is off.                      *)
(***************************************************************************)
Phase(obj) ==
    CASE obj = NONE                   -> "absent"
      [] obj # NONE /\ obj.deleting   -> "retiring"
      [] Live(obj) /\ obj.finalizer   -> "guarded"
      [] Live(obj) /\ ~obj.finalizer  -> "new"

OnlyOurs == Collections \ ForeignFinalizers

Lifecycle ==
    INSTANCE FinalizerLifecycle WITH
      Objects <- OnlyOurs,
      NOBODY  <- NONE,
      phase   <- [c \in OnlyOurs |-> Phase(collection[c])],
      busy    <- IF pc \in EnsureLabels /\ w.key \in OnlyOurs THEN w.key ELSE NONE

LifecycleRefined == Lifecycle!LifecycleSpec

(***************************************************************************)
(* A Collection that says it is Ready has a config map with a name in it,  *)
(* and it is the name in its status: an application that reads one and a   *)
(* deletion that goes by the other mean the same collection.  Failed       *)
(* requests and crashes fall between the two writes.                       *)
(***************************************************************************)
ReadyNamesAgree ==
    \A c \in Collections :
      SaysReady(c) => /\ Published(c) # NONE
                      /\ Published(c) = collection[c].status.name

(***************************************************************************)
(* A name that applications may have read from a config map is not         *)
(* replaced by the operator, on any retry and after any restart: their     *)
(* collection would be left to nobody.                                     *)
(***************************************************************************)
NamesAreKept ==
    [][WorkerSteps =>
         \A m \in Maps :
           (configMap[m] # NONE /\ configMap[m].name # NONE)
             => configMap'[m] = configMap[m]]_vars

(***************************************************************************)
(* When the finalizer comes off a Collection whose policy is delete, the   *)
(* collection its status names is gone from Solr, through lost answers,    *)
(* repeated deletions and crashes between the check and the deletion.      *)
(***************************************************************************)
FinalizerRemovalDeletes ==
    [][\A c \in Collections :
         (/\ HasFinalizer(collection[c]) /\ ~HasFinalizer(collection'[c])
          /\ collection[c].policy = "delete")
           => collection[c].status.name \notin inSolr]_vars

(***************************************************************************)
(* The operator deletes from Solr only for a Collection whose deletion was *)
(* requested and whose policy is delete: judged by the stored object as    *)
(* long as the copy the pass decided on is current.                        *)
(***************************************************************************)
DeletesOnlyRetired ==
    [][(WorkerSteps /\ inSolr' # inSolr /\ w.key \in collectionHeld) =>
         collection[w.key].deleting /\ collection[w.key].policy = "delete"]_vars

(***************************************************************************)
(* The finalizer goes on Collections nobody has asked to delete and comes  *)
(* off Collections whose deletion was requested, judged by the stored      *)
(* object and not by the copy the pass was decided on.                     *)
(***************************************************************************)
FinalizerFollowsDeletion ==
    [][\A c \in Collections :
         /\ (~HasFinalizer(collection[c]) /\ HasFinalizer(collection'[c]))
              => Live(collection[c])
         /\ (HasFinalizer(collection[c]) /\ ~HasFinalizer(collection'[c]))
              => collection[c].deleting]_vars

-----------------------------------------------------------------------------
(***************************************************************************)
(* Why the safety properties hold: invariants that every step preserves.   *)
(***************************************************************************)

(* A pass is for a Collection and writes to config maps it may have.       *)
PassConsistent ==
    /\ pc # "idle" => w.key \in Collections
    /\ pc \in {"getMap", "updateMap"} => M \in Maps

(* A copy that is not behind is the stored object; a copy the worker holds *)
(* is a copy of an object that is there, and only the pass's own.          *)
CopiesConsistent ==
    /\ \A c \in Collections \ collectionLag : collectionCache[c] = collection[c]
    /\ \A m \in Maps \ configMapLag : configMapCache[m] = configMap[m]
    /\ collectionHeld \subseteq {w.key}
    /\ \A c \in collectionHeld : collection[c] # NONE

(* Objects that are being deleted are there because of a finalizer.        *)
Held(obj) == obj # NONE /\ obj.deleting => obj.finalizer \/ obj.foreign

NothingOverdue ==
    \A c \in Collections : Held(collection[c]) /\ Held(collectionCache[c])

TypeInv == TypeOK /\ PassConsistent /\ CopiesConsistent /\ NothingOverdue

(* While an Update by the pass would be accepted, the stored Collection is *)
(* still what the pass took it for: one to keep, one to retire, or one to  *)
(* retire together with its collection in Solr.                            *)
DeletionInv ==
    w.key \in collectionHeld =>
      /\ pc = "addFinalizer" => Live(collection[w.key])
      /\ pc \in DeleteLabels => collection[w.key].deleting
      /\ pc \in {"checkExists", "deleteCollection"} =>
           collection[w.key].policy = "delete"

(* The cached Collection may be old, but not so old as to mistake whether  *)
(* our finalizer is on a Collection that is to be kept.                    *)
Kept(obj) == Live(obj) /\ obj.finalizer

Foreign(obj) == obj # NONE /\ obj.foreign

CachesTellFinalizers ==
    \A c \in OnlyOurs :
      /\ ~Foreign(collection[c]) /\ ~Foreign(collectionCache[c])
      /\ Kept(collectionCache[c]) => HasFinalizer(collection[c])
      /\ Kept(collection[c]) =>
           collectionCache[c] = NONE \/ ~collectionCache[c].deleting

FinalizerInv ==
    /\ CachesTellFinalizers
    /\ w.key \in OnlyOurs =>
         /\ pc \in EnsureLabels => HasFinalizer(collection[w.key])
         /\ pc \in DeleteLabels =>
              ~Kept(collectionCache[w.key]) /\ ~Kept(collection[w.key])
         /\ (pc = "addFinalizer" /\ w.key \in collectionHeld) =>
              collectionCache[w.key] = collection[w.key]

(* Every Collection has a config map of its own.  Nothing in the code sees *)
(* to that; it is up to those who write the Collections.                   *)
OwnMaps ==
    \A c, d \in Collections : MapOf[c] = MapOf[d] /\ MapOf[c] # NONE => c = d

(* When a name is about to be put into a config map, there is none in it.  *)
Nameless(m) == configMap[m] = NONE \/ configMap[m].name = NONE

MapNameInv ==
    /\ pc = "getMap" => Nameless(M)
    /\ (pc = "updateMap" /\ M \in configMapHeld) => Nameless(M)

(* A config map is owned by a Collection that names it, and collected only *)
(* after that one has gone.                                                *)
OwnersInv ==
    \A m \in Maps :
      /\ owner[m] # NONE => MapOf[owner[m]] = m
      /\ m \in dangling => owner[m] # NONE /\ collection[owner[m]] = NONE

(* What a pass is about to say of its config map is so.                    *)
AvailabilityInv ==
    /\ pc \in {"createMap", "getMap", "updateMap"} =>
         ~IsTrue(w.status.ConfigMapAvailable)
    /\ pc = "updateMap" => w.status.name # NONE
    /\ (/\ pc = "status" /\ w.key \in collectionHeld
        /\ IsTrue(w.status.ConfigMapAvailable)) =>
         Published(w.key) # NONE /\ Published(w.key) = w.status.name

ReadyInv == ReadyNamesAgree /\ MapNameInv /\ OwnersInv /\ AvailabilityInv

(* A name is in use by one Collection at most: in its config map, in its   *)
(* status, in the copies of both, or in the pass that is at work on it.    *)
InMap(m, n) ==
    \E obj \in {configMap[m], configMapCache[m]} \ {NONE} : obj.name = n

InStatus(c, n) ==
    \E obj \in {collection[c], collectionCache[c]} \ {NONE} : obj.status.name = n

Uses(c, n) ==
    \/ MapOf[c] # NONE /\ InMap(MapOf[c], n)
    \/ InStatus(c, n)
    \/ c = w.key /\ w.status.name = n

NamesInv ==
    /\ \A m \in Maps : \A n \in Names : InMap(m, n) => \E c \in Collections : MapOf[c] = m
    /\ \A n \in Names : \A c, d \in Collections : Uses(c, n) /\ Uses(d, n) => c = d

(* A deleting pass goes by the name in the stored status; when it is about *)
(* to take the finalizer off, the collection of that name is gone.         *)
RetirementInv ==
    (pc \in DeleteLabels /\ w.key \in collectionHeld) =>
      /\ collection[w.key].status = w.status
      /\ (pc = "removeFinalizer" /\ collection[w.key].policy = "delete") =>
           w.status.name \notin inSolr

RemovalInv == NamesInv /\ RetirementInv

-----------------------------------------------------------------------------
(***************************************************************************)
(* A Collection that stays, with a config map it can have, ends up Ready   *)
(* and remains so, its name published, whichever single request fails and  *)
(* wherever the manager crashes.  (A second failure may leave the status   *)
(* as it was, and then nothing starts another pass.)                       *)
(***************************************************************************)
CollectionBecomesReady ==
    \A c \in Collections :
      (MapOf[c] # NONE /\ <>[]Live(collection[c]) /\ [](spent <= 1))
        => <>[](SaysReady(c) /\ Published(c) = collection[c].status.name)

(***************************************************************************)
(* A deletion completes, unless another finalizer, an unknown policy or    *)
(* the absence of the SolrCloud prevents it; one that an unknown policy    *)
(* has stopped goes on when the policy is corrected.                       *)
(***************************************************************************)
DeletionPossible(c) ==
    /\ ~collection[c].foreign
    /\ collection[c].policy # "other"
    /\ cloudKnown

DeletionCompletes ==
    \A c \in Collections :
      (collection[c] # NONE /\ collection[c].deleting /\ DeletionPossible(c))
        ~> (collection[c] = NONE \/ ~DeletionPossible(c))

(***************************************************************************)
(* As long as nothing has failed, a config map the operator made goes with *)
(* its Collection, whenever the deletion is requested: the owner reference *)
(* is in place before the finalizer can come off.                          *)
(***************************************************************************)
MapGoesWithCollection ==
    \A c \in OwnNamespace :
      (MapOf[c] # NONE /\ collection[c] = NONE /\ spent = 0)
        ~> (configMap[MapOf[c]] = NONE \/ spent > 0)

-----------------------------------------------------------------------------
(* Statements the code makes about itself which its behaviour contradicts. *)

(***************************************************************************)
(* "Config map in which to stash values. Will be created if it does not    *)
(* exist." (collection_types.go:31): of every Collection that stays, also  *)
(* of one that leaves the optional namespace of the reference out.         *)
(***************************************************************************)
ConfigMapIsCreated ==
    \A c \in Collections : <>[]Live(collection[c]) => <>(Published(c) # NONE)

(***************************************************************************)
(* "delete" is "to respectively delete ... the underlying collection"      *)
(* (collection_types.go:34): with the Collection gone, no collection of    *)
(* the name it published is left in Solr.                                  *)
(***************************************************************************)
DeletePolicyDeletes ==
    [][\A c \in Collections :
         (/\ collection[c] # NONE /\ collection'[c] = NONE
          /\ collection[c].policy = "delete")
           => Published(c) \notin inSolr]_vars
=============================================================================
