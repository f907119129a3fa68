------------------------ MODULE CollectionController ------------------------
(***************************************************************************)
(* internal/controller/collection_controller.go: the reconciler of         *)
(* Collection objects, one worker whose passes are cut at every request to *)
(* the API server or to Solr.                                              *)
(*                                                                         *)
(* As in UserController, pc names the request made next, and w is what the *)
(* pass keeps between requests: the key, the local copy of the status, and *)
(* whether the config map it is about to update is one it created, so that *)
(* the owner reference is in its copy.                                     *)
(***************************************************************************)
EXTENDS CollectionApi

VARIABLES pc, w

workVars == <<pc, w>>
vars == <<spent, inSolr, apiVars, workVars>>

EnsureLabels ==
    {"initStatus", "observe", "createMap", "getMap", "updateMap", "status"}

DeleteLabels == {"checkExists", "deleteCollection", "removeFinalizer"}

Labels == {"idle", "addFinalizer"} \cup EnsureLabels \cup DeleteLabels

Work ==
    [key : Collections \cup {NONE}, status : Status, created : BOOLEAN]

NoWork == [key |-> NONE, status |-> BlankStatus, created |-> FALSE]

M == MapOf[w.key]

-----------------------------------------------------------------------------
(* How a pass ends and where it goes next.                                 *)
LeavePass ==
    /\ pc' = "idle"
    /\ w' = NoWork
    /\ collectionHeld' = {}
    /\ configMapHeld' = {}

Done == LeavePass /\ UNCHANGED queue

RequeueForgets == LeavePass /\ UNCHANGED queue

Requeue == LeavePass /\ queue' = queue \cup {w.key}

Continue(label, work) ==
    /\ pc' = label
    /\ w' = work
    /\ UNCHANGED <<collectionHeld, queue>>

GoTo(label, st) ==
    Continue(label, [w EXCEPT !.status = st]) /\ UNCHANGED configMapHeld

RetireWhateverPolicy(obj) ==
    IF obj.status.name # NONE THEN "checkExists" ELSE "removeFinalizer"

(* deleteCollection's choice, by the name in the status and the policy.    *)
Retire(obj) ==
    IF obj.status.name # NONE /\ obj.policy = "delete" THEN "checkExists"
    ELSE "removeFinalizer"

RouteWithoutFinalizer(obj) ==
    IF obj.deleting /\ obj.finalizer THEN Retire(obj) ELSE "observe"

RouteIgnoresDeletion(obj) ==
    IF ~obj.finalizer THEN "addFinalizer"
    ELSE IF obj.deleting THEN Retire(obj)
    ELSE "observe"

(* Reconcile's choice: an object that is being deleted without our         *)
(* finalizer is reconciled like one that is to stay.                       *)
Route(obj) ==
    CASE ~obj.deleting /\ ~obj.finalizer -> "addFinalizer"
      [] obj.deleting /\ obj.finalizer   -> Retire(obj)
      [] OTHER                           -> "observe"

CheckMapExists(st) ==
    [st EXCEPT !.ConfigMapAvailable =
       IF IsTrue(st.ConfigMapExists) THEN "Ready" ELSE "NotReady"]

(* checkMapStatus.                                                         *)
CheckMapStatus(st) ==
    [st EXCEPT !.ConfigMapAvailable =
       IF IsTrue(st.ConfigMapExists) /\ IsTrue(st.ConfigMapHasCollection)
         THEN "Ready" ELSE "NotReady"]

ObservedWithoutKey(st, found) ==
    IF found = NONE
      THEN [st EXCEPT !.ConfigMapExists = "ConfigMapDoesNotExist",
                      !.ConfigMapHasCollection = "ConfigMapDoesNotExist"]
      ELSE [st EXCEPT !.ConfigMapExists = "FoundConfigMap",
                      !.ConfigMapHasCollection = "ConfigMapMissingCollection"]

ObservedMixedUp(st, found) ==
    IF found = NONE
      THEN [st EXCEPT !.ConfigMapExists = "ConfigMapDoesNotExist",
                      !.ConfigMapHasCollection = "ConfigMapDoesNotExist"]
      ELSE [st EXCEPT !.ConfigMapExists = "FoundConfigMap",
                      !.ConfigMapHasCollection = found.name]

(* What observeCollection makes of the config map it found, if any.        *)
Observed(st, found) ==
    CASE found = NONE ->
           [st EXCEPT !.ConfigMapExists = "ConfigMapDoesNotExist",
                      !.ConfigMapHasCollection = "ConfigMapDoesNotExist"]
      [] found = EmptyMap ->
           [st EXCEPT !.ConfigMapExists = "FoundConfigMap",
                      !.ConfigMapHasCollection = "ConfigMapMissingCollection"]
      [] OTHER ->
           [st EXCEPT !.ConfigMapExists = "FoundConfigMap",
                      !.ConfigMapHasCollection = "ConfigMapHasCollection",
                      !.name = found.name]

(* What Reconcile does about it.  Whenever ConfigMapAvailable is true the  *)
(* two conditions it is made from are, and there is nothing to update.     *)
AfterObserving(st) ==
    IF IsTrue(st.ConfigMapAvailable) THEN "status"
    ELSE IF IsTrue(st.ConfigMapExists) THEN "getMap"
    ELSE "createMap"

-----------------------------------------------------------------------------
(* Reconcile, up to its first write.                                       *)
ObjectGone(c) ==
    /\ pc = "idle"
    /\ c \in queue
    /\ collectionCache[c] = NONE
    /\ queue' = queue \ {c}
    /\ Calm
    /\ UNCHANGED <<inSolr, collectionVars, configMapVars, ownerVars, cloudKnown,
                   workVars>>

(* The deletion of a named collection fails before its first request: for  *)
(* want of a Solr client, or because the policy is not one of the two.     *)
Stuck(obj) ==
    /\ obj.deleting /\ obj.finalizer /\ obj.status.name # NONE
    /\ \/ obj.policy = "delete" /\ ~cloudKnown
       \/ obj.policy = "other"

CannotDelete(c) ==
    /\ pc = "idle"
    /\ c \in queue
    /\ collectionCache[c] # NONE
    /\ Stuck(collectionCache[c])
    /\ UNCHANGED vars

Begin(c) ==
    /\ pc = "idle"
    /\ c \in queue
    /\ collectionCache[c] # NONE
    /\ ~Stuck(collectionCache[c])
    /\ queue' = queue \ {c}
    /\ collectionHeld' = {c} \ collectionLag
    /\ pc' = Route(collectionCache[c])
    /\ w' = [NoWork EXCEPT !.key = c, !.status = collectionCache[c].status]
    /\ Calm
    /\ UNCHANGED <<inSolr, collection, collectionCache, collectionLag,
                   configMapVars, ownerVars, cloudKnown>>

(* Writes to the Collection; one that changes nothing makes no version.    *)
WriteCollection(obj, o) ==
    /\ ApiWrite(w.key \in collectionHeld, o)
    /\ IF Applied(o) /\ obj # collection[w.key]
         THEN PutCollection(w.key, Reaped(obj))
         ELSE UNCHANGED <<collection, collectionLag, dangling>>
    /\ UNCHANGED <<inSolr, collectionCache, configMap, configMapCache,
                   configMapLag, owner, cloudKnown>>

AddFinalizer ==
    /\ pc = "addFinalizer"
    /\ \E o \in Outcomes :
         /\ WriteCollection([collection[w.key] EXCEPT !.finalizer = TRUE], o)
         /\ IF Failed(o) THEN Requeue ELSE GoTo("initStatus", w.status)

InitStatus ==
    /\ pc = "initStatus"
    /\ LET st == [w.status EXCEPT !.Available = "Reconciling",
                                  !.ConfigMapAvailable = "Reconciling",
                                  !.ConfigMapExists = "Reconciling",
                                  !.ConfigMapHasCollection = "Reconciling"]
       IN  \E o \in Outcomes :
             /\ WriteCollection([collection[w.key] EXCEPT !.status = st], o)
             /\ IF Failed(o) THEN Requeue ELSE GoTo("observe", st)

(* The last request of an ensuring pass, however the config map fared:     *)
(* errors of createCollection are only logged.                             *)
UpdateStatus ==
    /\ pc = "status"
    /\ LET st == [w.status EXCEPT !.Available =
                    IF IsTrue(w.status.ConfigMapAvailable) THEN "Ready"
                    ELSE "NotReady"]
       IN  \E o \in Outcomes :
             /\ WriteCollection([collection[w.key] EXCEPT !.status = st], o)
             /\ IF Failed(o) THEN Requeue ELSE Done

-----------------------------------------------------------------------------
(* observeCollection and createCollection.                                 *)
elsewhere == <<inSolr, collection, collectionCache, collectionLag, cloudKnown>>

ReadMap ==
    /\ IF M \in configMapLag THEN Disrupt("stale") ELSE Calm
    /\ UNCHANGED <<elsewhere, configMap, configMapCache, configMapLag, ownerVars>>

CachedMap == IF M = NONE THEN NONE ELSE configMapCache[M]

Observe ==
    /\ pc = "observe"
    /\ ReadMap
    /\ LET st == CheckMapStatus(Observed(w.status, CachedMap))
       IN  GoTo(AfterObserving(st), st)

(* A generated name: a random suffix that is in use nowhere.               *)
Fresh == {n \in Names \ HumanNames : ~Mentioned(n) /\ n # w.status.name}

(* The name goes into the local status at once, into the config map by the *)
(* next request.                                                           *)
GenerateName(st, created) ==
    \E n \in Generate(Fresh) :
      Continue("updateMap",
               [w EXCEPT !.created = created,
                         !.status = [st EXCEPT
                            !.name = n,
                            !.ConfigMapHasCollection = "GeneratedCollectionName"]])

(* The config map is created empty.                                        *)
CreateMap ==
    /\ pc = "createMap"
    /\ \E o \in Outcomes :
         /\ ApiWrite(M # NONE /\ configMap[M] = NONE, o)
         /\ IF Applied(o) THEN PutMap(M, EmptyMap)
                          ELSE UNCHANGED <<configMap, configMapLag>>
         /\ \/ Failed(o) /\ GoTo("status", w.status)
            \/ /\ ~Failed(o)
               /\ GenerateName([w.status EXCEPT !.ConfigMapExists = "Created"],
                               TRUE)
               /\ configMapHeld' = {M}
    /\ UNCHANGED <<elsewhere, configMapCache, ownerVars>>

(* The config map is read a second time; that it has no name is not looked *)
(* at again.                                                               *)
GetMap ==
    /\ pc = "getMap"
    /\ ReadMap
    /\ \/ CachedMap = NONE /\ GoTo("status", w.status)
       \/ /\ CachedMap # NONE
          /\ GenerateName(w.status, FALSE)
          /\ configMapHeld' = {M} \ configMapLag

SetsOwnerOfFound == ~w.created /\ w.key \in OwnNamespace

(* Name and owner reference go in by the same request; the reference is    *)
(* set only on a config map this pass created in the Collection's own      *)
(* namespace.                                                              *)
SetsOwner == w.created /\ w.key \in OwnNamespace

UpdateMap ==
    /\ pc = "updateMap"
    /\ \E o \in Outcomes :
         /\ ApiWrite(M \in configMapHeld, o)
         /\ IF Applied(o) THEN PutMap(M, [name |-> w.status.name])
                          ELSE UNCHANGED <<configMap, configMapLag>>
         /\ IF Applied(o) /\ SetsOwner
              THEN /\ owner' = [owner EXCEPT ![M] = w.key]
                   /\ dangling' = IF collection[w.key] = NONE THEN dangling \cup {M}
                                                              ELSE dangling
              ELSE UNCHANGED ownerVars
         /\ GoTo("status", IF Failed(o) THEN w.status ELSE CheckMapStatus(w.status))
    /\ UNCHANGED <<elsewhere, configMapCache>>

-----------------------------------------------------------------------------
(* deleteCollection.                                                       *)
kubernetesVars ==
    <<collection, collectionCache, collectionLag, configMap, configMapCache,
      configMapLag, ownerVars, cloudKnown>>

CheckNothing ==
    /\ pc = "checkExists"
    /\ ListCollections(TRUE)
    /\ GoTo("deleteCollection", w.status)
    /\ UNCHANGED kubernetesVars

CheckExists ==
    /\ pc = "checkExists"
    /\ \/ ListCollections(FALSE) /\ Requeue
       \/ /\ ListCollections(TRUE)
          /\ GoTo(IF CollectionExists(w.status.name) THEN "deleteCollection"
                  ELSE "removeFinalizer", w.status)
    /\ UNCHANGED kubernetesVars

DeleteIgnoringErrors ==
    /\ pc = "deleteCollection"
    /\ \E o \in Outcomes : DeleteCollection(w.status.name, o)
    /\ GoTo("removeFinalizer", w.status)
    /\ UNCHANGED kubernetesVars

DeleteFromSolr ==
    /\ pc = "deleteCollection"
    /\ \E o \in Outcomes :
         /\ DeleteCollection(w.status.name, o)
         /\ IF Failed(o) THEN Requeue ELSE GoTo("removeFinalizer", w.status)
    /\ UNCHANGED kubernetesVars

RemoveFinalizer ==
    /\ pc = "removeFinalizer"
    /\ \E o \in Outcomes :
         /\ WriteCollection([collection[w.key] EXCEPT !.finalizer = FALSE], o)
         /\ IF Failed(o) THEN Requeue ELSE Done

-----------------------------------------------------------------------------
(* The manager's process dies and is started again, at any point of a pass. *)
Crash ==
    /\ Disrupt("crash")
    /\ pc' = "idle"
    /\ w' = NoWork
    /\ Relist
    /\ UNCHANGED inSolr

Init ==
    /\ spent = 0
    /\ ApiInit
    /\ pc = "idle"
    /\ w = NoWork

TakeKey == \E c \in Collections : ObjectGone(c) \/ CannotDelete(c) \/ Begin(c)

(* The step the worker makes next in the pass it is in.                    *)
PassStep ==
    \/ AddFinalizer
    \/ InitStatus
    \/ Observe
    \/ CreateMap
    \/ GetMap
    \/ UpdateMap
    \/ UpdateStatus
    \/ CheckExists
    \/ DeleteFromSolr
    \/ RemoveFinalizer

Worker == TakeKey \/ PassStep

(* A Collection is applied again only when no pass for its predecessor of  *)
(* the same name is under way.                                             *)
Environment ==
    /\ \/ Edits
       \/ Informers
       \/ \E c \in Collections \ {w.key} : Apply(c)
    /\ UNCHANGED workVars

Next == Worker \/ Environment \/ Crash

Spec == Init /\ [][Next]_vars

(***************************************************************************)
(* Fairness, on the grounds given in UserController; the garbage collector *)
(* gets to every config map whose owner is gone.                           *)
(***************************************************************************)
Fairness ==
    /\ WF_vars(PassStep)
    /\ \A c \in Collections : /\ WF_vars(ObjectGone(c))
                              /\ SF_vars(Begin(c))
                              /\ WF_vars(Deliver(c) /\ UNCHANGED workVars)
    /\ \A m \in Maps : /\ WF_vars(SyncMap(m) /\ UNCHANGED workVars)
                       /\ WF_vars(CollectMap(m) /\ UNCHANGED workVars)

FairSpec == Spec /\ Fairness
=============================================================================
