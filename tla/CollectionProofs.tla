-------------------------- MODULE CollectionProofs --------------------------
(***************************************************************************)
(* Theorems about CollectionController, for any numbers of Collections,    *)
(* config maps, names and disruptions: types, and what the operator does   *)
(* only to Collections whose deletion was requested.                       *)
(***************************************************************************)
EXTENDS CollectionRequirements, TLAPS

-----------------------------------------------------------------------------
(* The pieces the actions are put together from.                           *)

(* A disruption is counted and never exceeds the bound.                    *)
LEMMA SpentType ==
    ASSUME spent \in 0 .. MaxDisruptions,
           \/ Calm
           \/ \E kind : Disrupt(kind)
    PROVE  spent' \in 0 .. MaxDisruptions
BY DisruptionsAssumption, SMT DEF Calm, Disrupt

LEMMA ReasonsType ==
    /\ TrueReasons \subseteq Reasons
    /\ OtherReasons \subseteq Reasons
BY DEF Reasons

(* Every status update of the code yields a status.                        *)
LEMMA StatusType ==
    ASSUME NEW st \in Status, NEW r \in Reasons
    PROVE  /\ [st EXCEPT !.Available = r] \in Status
           /\ [st EXCEPT !.ConfigMapAvailable = r] \in Status
           /\ [st EXCEPT !.ConfigMapExists = r] \in Status
           /\ [st EXCEPT !.Available = r, !.ConfigMapAvailable = r,
                         !.ConfigMapExists = r,
                         !.ConfigMapHasCollection = r] \in Status
           /\ \A n \in Names \cup {NONE} :
                [st EXCEPT !.name = n, !.ConfigMapHasCollection = r] \in Status
<1>1. [st EXCEPT !.Available = r] \in Status
  BY DEF Status
<1>2. [st EXCEPT !.ConfigMapAvailable = r] \in Status
  BY DEF Status
<1>3. [st EXCEPT !.ConfigMapExists = r] \in Status
  BY DEF Status
<1>4. [st EXCEPT !.Available = r, !.ConfigMapAvailable = r,
                 !.ConfigMapExists = r, !.ConfigMapHasCollection = r] \in Status
  BY DEF Status
<1>5. ASSUME NEW n \in Names \cup {NONE}
      PROVE  [st EXCEPT !.name = n, !.ConfigMapHasCollection = r] \in Status
  BY DEF Status
<1> QED
  BY <1>1, <1>2, <1>3, <1>4, <1>5

LEMMA ObservedType ==
    ASSUME NEW st \in Status, NEW found \in MapObj \cup {NONE}
    PROVE  /\ Observed(st, found) \in Status
           /\ CheckMapStatus(Observed(st, found)) \in Status
<1>1. Observed(st, found) \in Status
  BY DEF Observed, Status, Reasons, TrueReasons, OtherReasons, MapObj
<1>2. ASSUME NEW s2 \in Status
      PROVE  CheckMapStatus(s2) \in Status
  BY <1>2, StatusType DEF CheckMapStatus, Reasons, TrueReasons, OtherReasons
<1> QED
  BY <1>1, <1>2

LEMMA CheckMapStatusType ==
    ASSUME NEW st \in Status
    PROVE  CheckMapStatus(st) \in Status
BY StatusType DEF CheckMapStatus, Reasons, TrueReasons, OtherReasons

LEMMA BlankType ==
    /\ BlankStatus \in Status
    /\ NoWork \in Work
    /\ NoWork.key = NONE
    /\ EmptyMap \in MapObj
    /\ \A c \in Collections : NewCollection(c) \in CollectionObj
<1>1. BlankStatus \in Status
  BY DEF BlankStatus, Status, Reasons
<1>2. NoWork \in Work /\ NoWork.key = NONE
  BY <1>1 DEF NoWork, Work
<1>3. EmptyMap \in MapObj
  BY DEF EmptyMap, MapObj
<1>4. \A c \in Collections : NewCollection(c) \in CollectionObj
  BY <1>1, CollectionApiAssumption DEF NewCollection, CollectionObj
<1> QED
  BY <1>1, <1>2, <1>3, <1>4

-----------------------------------------------------------------------------
(* How a step leaves the worker: it goes on, or its pass ends.             *)

LEMMA GoToType ==
    ASSUME w \in Work, NEW st \in Status, NEW label, GoTo(label, st)
    PROVE  /\ pc' = label
           /\ w' \in Work
           /\ w'.key = w.key
           /\ w'.status = st
           /\ w'.created = w.created
           /\ collectionHeld' = collectionHeld
           /\ configMapHeld' = configMapHeld
           /\ queue' = queue
BY DEF GoTo, Continue, Work

LEMMA LeavePassType ==
    ASSUME LeavePass
    PROVE  /\ pc' = "idle"
           /\ w' = NoWork
           /\ w' \in Work
           /\ collectionHeld' = {}
           /\ configMapHeld' = {}
BY BlankType DEF LeavePass

(* The worker's part of TypeInv.                                           *)
WorkerInv ==
    /\ pc \in Labels
    /\ w \in Work
    /\ queue \subseteq Collections
    /\ collectionHeld \subseteq Collections
    /\ configMapHeld \subseteq Maps
    /\ collectionHeld \subseteq {w.key}
    /\ PassConsistent

LEMMA EndOfPass ==
    ASSUME WorkerInv, pc # "idle", Done \/ Requeue
    PROVE  WorkerInv' /\ pc' = "idle" /\ collectionHeld' = {} /\ configMapHeld' = {}
<1>1. LeavePass /\ queue' \subseteq Collections
  BY DEF WorkerInv, Done, Requeue, PassConsistent
<1> QED
  BY <1>1, LeavePassType DEF WorkerInv, PassConsistent, Labels

(* A step that goes on, to a label that fits the pass.                     *)
LEMMA GoOn ==
    ASSUME WorkerInv, pc # "idle", NEW label \in Labels \ {"idle"},
           NEW st \in Status, GoTo(label, st),
           label \in {"getMap", "updateMap"} => M \in Maps
    PROVE  /\ WorkerInv'
           /\ collectionHeld' = collectionHeld
<1>1. M' = M
  BY GoToType DEF WorkerInv, M
<1> QED
  BY <1>1, GoToType DEF WorkerInv, PassConsistent

(* The step that generates a name and goes on to put it into the map.      *)
LEMMA GenerateNameType ==
    ASSUME WorkerInv, pc # "idle", M \in Maps, NEW st \in Status,
           NEW created \in BOOLEAN, GenerateName(st, created),
           configMapHeld' \subseteq Maps
    PROVE  /\ WorkerInv'
           /\ pc' = "updateMap"
           /\ w'.key = w.key
           /\ w'.created = created
           /\ collectionHeld' = collectionHeld
           /\ queue' = queue
           /\ \E n \in Fresh :
                w'.status = [st EXCEPT
                               !.name = n,
                               !.ConfigMapHasCollection = "GeneratedCollectionName"]
<1> DEFINE new(n) == [st EXCEPT !.name = n,
                        !.ConfigMapHasCollection = "GeneratedCollectionName"]
<1>1. Fresh \in SUBSET Names
  BY DEF Fresh
<1>2. PICK n \in Fresh :
        /\ Continue("updateMap", [w EXCEPT !.created = created, !.status = new(n)])
        /\ n \in Names
  BY <1>1, CollectionApiAssumption DEF GenerateName
<1>3. new(n) \in Status
  BY <1>2, StatusType DEF Reasons, TrueReasons
<1> HIDE DEF new
<1>4. /\ w' \in Work /\ w'.key = w.key /\ w'.created = created
      /\ w'.status = new(n)
  BY <1>2, <1>3 DEF Continue, WorkerInv, Work
<1>5. M' = M
  BY <1>4 DEF M
<1> QED
  BY <1>2, <1>4, <1>5 DEF Continue, WorkerInv, PassConsistent, Labels, EnsureLabels, new

-----------------------------------------------------------------------------
(* The other parts of TypeInv, each of which few actions touch.            *)
CollectionStored ==
    /\ collection \in [Collections -> CollectionObj \cup {NONE}]
    /\ collectionCache \in [Collections -> CollectionObj \cup {NONE}]
    /\ collectionLag \subseteq Collections
    /\ \A c \in Collections \ collectionLag : collectionCache[c] = collection[c]
    /\ NothingOverdue

MapStored ==
    /\ configMap \in [Maps -> MapObj \cup {NONE}]
    /\ configMapCache \in [Maps -> MapObj \cup {NONE}]
    /\ configMapLag \subseteq Maps
    /\ \A m \in Maps \ configMapLag : configMapCache[m] = configMap[m]

OwnersStored ==
    /\ owner \in [Maps -> Collections \cup {NONE}]
    /\ dangling \subseteq Maps

Elsewhere == inSolr \subseteq Names /\ cloudKnown \in BOOLEAN

HeldIsThere == \A c \in collectionHeld : collection[c] # NONE

Parts ==
    /\ spent \in 0 .. MaxDisruptions
    /\ Elsewhere
    /\ CollectionStored
    /\ MapStored
    /\ OwnersStored
    /\ HeldIsThere
    /\ WorkerInv

LEMMA TypeInvIsParts == TypeInv <=> Parts
BY DEF TypeInv, TypeOK, ApiTypeOK, CopiesConsistent, CollectionStored,
       MapStored, OwnersStored, Elsewhere, HeldIsThere, WorkerInv, Parts

LEMMA TypeInvIsPartsNext == TypeInv' <=> Parts'
BY DEF TypeInv, TypeOK, ApiTypeOK, CopiesConsistent, CollectionStored,
       MapStored, OwnersStored, Elsewhere, HeldIsThere, WorkerInv, Parts

(* Only what a part mentions can disturb it.                               *)
LEMMA CollectionStoredKept ==
    ASSUME CollectionStored, UNCHANGED <<collection, collectionCache, collectionLag>>
    PROVE  CollectionStored'
BY DEF CollectionStored, NothingOverdue, Held

LEMMA MapStoredKept ==
    ASSUME MapStored, UNCHANGED <<configMap, configMapCache, configMapLag>>
    PROVE  MapStored'
BY DEF MapStored

LEMMA OwnersStoredKept ==
    ASSUME OwnersStored, UNCHANGED ownerVars
    PROVE  OwnersStored'
BY DEF OwnersStored, ownerVars

LEMMA ElsewhereKept ==
    ASSUME Elsewhere, UNCHANGED <<inSolr, cloudKnown>>
    PROVE  Elsewhere'
BY DEF Elsewhere

LEMMA HeldKept ==
    ASSUME HeldIsThere, collectionHeld' \subseteq collectionHeld, UNCHANGED collection
    PROVE  HeldIsThere'
BY DEF HeldIsThere

LEMMA WorkerKept ==
    ASSUME WorkerInv, UNCHANGED workVars, queue' \subseteq Collections,
           collectionHeld' \subseteq collectionHeld,
           configMapHeld' \subseteq configMapHeld
    PROVE  WorkerInv'
BY DEF WorkerInv, PassConsistent, workVars, M

-----------------------------------------------------------------------------
(* Writes to the stored objects.                                           *)

LEMMA ReapedIsHeld ==
    ASSUME NEW obj \in CollectionObj
    PROVE  /\ Reaped(obj) \in CollectionObj \cup {NONE}
           /\ Held(Reaped(obj))
           /\ Reaped(obj) # NONE => Reaped(obj) = obj
BY DEF Reaped, Held

LEMMA PutCollectionType ==
    ASSUME CollectionStored, OwnersStored, NEW c \in Collections,
           NEW obj \in CollectionObj \cup {NONE}, Held(obj),
           PutCollection(c, obj), UNCHANGED <<collectionCache, owner>>
    PROVE  /\ CollectionStored'
           /\ OwnersStored'
           /\ collection' = [collection EXCEPT ![c] = obj]
<1>1. /\ collection' \in [Collections -> CollectionObj \cup {NONE}]
      /\ collectionLag' \subseteq Collections
      /\ collectionCache' \in [Collections -> CollectionObj \cup {NONE}]
  BY DEF PutCollection, CollectionStored
<1>2. \A d \in Collections \ collectionLag' : collectionCache'[d] = collection'[d]
  BY DEF PutCollection, CollectionStored
<1>3. ASSUME NEW d \in Collections
      PROVE  Held(collection[d])' /\ Held(collectionCache[d])'
  <2>1. CASE d = c
    BY <2>1 DEF PutCollection, CollectionStored, NothingOverdue, Held
  <2>2. CASE d # c
    BY <2>2 DEF PutCollection, CollectionStored, NothingOverdue, Held
  <2> QED
    BY <2>1, <2>2
<1>4. OwnersStored'
  BY DEF PutCollection, OwnersStored
<1> QED
  BY <1>1, <1>2, <1>3, <1>4 DEF CollectionStored, NothingOverdue, PutCollection

LEMMA PutMapType ==
    ASSUME MapStored, NEW m \in Maps, NEW obj \in MapObj \cup {NONE},
           PutMap(m, obj), UNCHANGED configMapCache
    PROVE  MapStored'
BY DEF MapStored, PutMap

(* What a worker's write to its Collection comes to.                       *)
Written(obj) ==
    /\ w.key \in collectionHeld
    /\ collection' = [collection EXCEPT ![w.key] = Reaped(obj)]
    /\ dangling' = IF Reaped(obj) = NONE
                     THEN dangling \cup {m \in Maps : owner[m] = w.key}
                     ELSE dangling

LEMMA WriteCollectionType ==
    ASSUME Parts, pc # "idle", NEW obj, NEW o, WriteCollection(obj, o),
           w.key \in collectionHeld => obj \in CollectionObj
    PROVE  /\ spent' \in 0 .. MaxDisruptions
           /\ Elsewhere' /\ MapStored' /\ CollectionStored' /\ OwnersStored'
           /\ Written(obj) \/ UNCHANGED <<collection, dangling>>
           /\ UNCHANGED <<inSolr, collectionCache, configMap, configMapCache,
                          owner>>
<1>1. /\ ApiWrite(w.key \in collectionHeld, o)
      /\ UNCHANGED <<inSolr, collectionCache, configMap, configMapCache,
                     configMapLag, owner, cloudKnown>>
  BY DEF WriteCollection
<1>2. spent' \in 0 .. MaxDisruptions /\ (Applied(o) => w.key \in collectionHeld)
  BY <1>1, SpentType DEF Parts, ApiWrite, Applied
<1>3. Elsewhere' /\ MapStored'
  BY <1>1, ElsewhereKept, MapStoredKept DEF Parts
<1>4. CASE Applied(o) /\ obj # collection[w.key]
  <2>1. w.key \in Collections /\ obj \in CollectionObj /\ w.key \in collectionHeld
    BY <1>2, <1>4 DEF Parts, WorkerInv, PassConsistent
  <2>2. PutCollection(w.key, Reaped(obj))
    BY <1>4 DEF WriteCollection
  <2>3. /\ CollectionStored' /\ OwnersStored'
    BY <1>1, <2>1, <2>2, ReapedIsHeld, PutCollectionType DEF Parts
  <2>4. Written(obj)
    BY <2>1, <2>2 DEF Written, PutCollection
  <2> QED
    BY <1>1, <1>2, <1>3, <2>3, <2>4
<1>5. CASE ~(Applied(o) /\ obj # collection[w.key])
  <2>1. UNCHANGED <<collection, collectionLag, dangling>>
    BY <1>5 DEF WriteCollection
  <2>2. CollectionStored' /\ OwnersStored'
    BY <1>1, <2>1, CollectionStoredKept, OwnersStoredKept DEF Parts, ownerVars
  <2> QED
    BY <1>1, <1>2, <1>3, <2>1, <2>2
<1> QED
  BY <1>4, <1>5

LEMMA CollectionWritten ==
    ASSUME Parts, pc # "idle", NEW obj, NEW o, WriteCollection(obj, o),
           w.key \in collectionHeld => obj \in CollectionObj,
           WorkerInv', collectionHeld' \subseteq collectionHeld,
           w.key \in collectionHeld' => Reaped(obj) # NONE
    PROVE  Parts'
<1>1. /\ spent' \in 0 .. MaxDisruptions
      /\ Elsewhere' /\ MapStored' /\ CollectionStored' /\ OwnersStored'
      /\ Written(obj) \/ UNCHANGED <<collection, dangling>>
  BY WriteCollectionType
<1>2. collectionHeld \subseteq {w.key} /\ w.key \in Collections
  BY DEF Parts, WorkerInv, PassConsistent
<1>3. HeldIsThere'
  <2>1. CASE UNCHANGED collection
    BY <2>1, HeldKept DEF Parts
  <2>2. CASE Written(obj)
    BY <1>2, <2>2 DEF Written, HeldIsThere, Parts, CollectionStored
  <2> QED
    BY <1>1, <2>1, <2>2
<1> QED
  BY <1>1, <1>3 DEF Parts

(* The object the worker's write starts from.                              *)
LEMMA HeldCollection ==
    ASSUME Parts, w.key \in collectionHeld
    PROVE  /\ w.key \in Collections
           /\ collection[w.key] \in CollectionObj
           /\ Held(collection[w.key])
BY DEF Parts, HeldIsThere, CollectionStored, NothingOverdue, WorkerInv

LEMMA EditedCollection ==
    ASSUME NEW obj \in CollectionObj, NEW st \in Status, NEW b \in BOOLEAN
    PROVE  /\ [obj EXCEPT !.status = st] \in CollectionObj
           /\ [obj EXCEPT !.finalizer = b] \in CollectionObj
           /\ Held(obj) => Reaped([obj EXCEPT !.status = st])
                             = [obj EXCEPT !.status = st]
           /\ Reaped([obj EXCEPT !.finalizer = TRUE])
                = [obj EXCEPT !.finalizer = TRUE]
<1>1. [obj EXCEPT !.status = st] \in CollectionObj
  BY DEF CollectionObj
<1>2. [obj EXCEPT !.finalizer = b] \in CollectionObj
  BY DEF CollectionObj
<1>3. Held(obj) => Reaped([obj EXCEPT !.status = st]) = [obj EXCEPT !.status = st]
  BY <1>1, ObjectAssumption DEF Held, Reaped, CollectionObj
<1>4. Reaped([obj EXCEPT !.finalizer = TRUE]) = [obj EXCEPT !.finalizer = TRUE]
  BY DEF Reaped, CollectionObj
<1> QED
  BY <1>1, <1>2, <1>3, <1>4

LEMMA ObjectsAreThere ==
    /\ \A obj \in CollectionObj : obj # NONE
    /\ \A obj \in MapObj : obj # NONE
BY ObjectAssumption

-----------------------------------------------------------------------------
(* One lemma for each action that writes to the Collection.                *)

LEMMA AddFinalizerType ==
    ASSUME Parts, AddFinalizer
    PROVE  Parts'
<1> DEFINE obj == [collection[w.key] EXCEPT !.finalizer = TRUE]
<1>1. pc = "addFinalizer" /\ w.status \in Status
  BY DEF AddFinalizer, Parts, WorkerInv, Work
<1>2. PICK o \in Outcomes :
        /\ WriteCollection(obj, o)
        /\ IF Failed(o) THEN Requeue ELSE GoTo("initStatus", w.status)
  BY DEF AddFinalizer
<1>3. w.key \in collectionHeld => obj \in CollectionObj /\ Reaped(obj) # NONE
  <2> SUFFICES ASSUME w.key \in collectionHeld
               PROVE  obj \in CollectionObj /\ Reaped(obj) # NONE
    OBVIOUS
  <2>1. collection[w.key] \in CollectionObj
    BY HeldCollection
  <2>2. obj \in CollectionObj /\ Reaped(obj) = obj
    BY <1>1, <2>1, EditedCollection
  <2> QED
    BY <2>2, ObjectsAreThere
<1>4. WorkerInv' /\ collectionHeld' \subseteq collectionHeld
  <2>1. "initStatus" \in Labels \ {"idle"}
    BY DEF Labels, EnsureLabels
  <2> QED
    BY <1>1, <1>2, <2>1, GoOn, EndOfPass DEF Parts
<1> HIDE DEF obj
<1> QED
  BY <1>1, <1>2, <1>3, <1>4, CollectionWritten

InitialStatus ==
    [w.status EXCEPT !.Available = "Reconciling",
                     !.ConfigMapAvailable = "Reconciling",
                     !.ConfigMapExists = "Reconciling",
                     !.ConfigMapHasCollection = "Reconciling"]

FinalStatus ==
    [w.status EXCEPT !.Available =
       IF IsTrue(w.status.ConfigMapAvailable) THEN "Ready" ELSE "NotReady"]

LEMMA StatusesType ==
    ASSUME w \in Work
    PROVE  /\ w.status \in Status
           /\ InitialStatus \in Status
           /\ FinalStatus \in Status
<1>1. w.status \in Status
  BY DEF Work
<1> QED
  BY <1>1, StatusType
     DEF InitialStatus, FinalStatus, Reasons, TrueReasons, OtherReasons

(* A status update leaves the object, whatever else happens to it.         *)
LEMMA StatusWriteType ==
    ASSUME Parts, NEW st \in Status, w.key \in collectionHeld
    PROVE  /\ [collection[w.key] EXCEPT !.status = st] \in CollectionObj
           /\ Reaped([collection[w.key] EXCEPT !.status = st])
                = [collection[w.key] EXCEPT !.status = st]
<1>1. collection[w.key] \in CollectionObj /\ Held(collection[w.key])
  BY HeldCollection
<1> QED
  BY <1>1, EditedCollection

LEMMA StatusWritten ==
    ASSUME Parts, pc # "idle", NEW st \in Status, NEW o,
           WriteCollection([collection[w.key] EXCEPT !.status = st], o),
           WorkerInv', collectionHeld' \subseteq collectionHeld
    PROVE  Parts'
<1> DEFINE obj == [collection[w.key] EXCEPT !.status = st]
<1>1. w.key \in collectionHeld => obj \in CollectionObj /\ Reaped(obj) # NONE
  BY StatusWriteType, ObjectsAreThere
<1>2. WriteCollection(obj, o)
  OBVIOUS
<1> HIDE DEF obj
<1> QED
  BY <1>1, <1>2, CollectionWritten

LEMMA InitStatusType ==
    ASSUME Parts, InitStatus
    PROVE  Parts'
<1>1. pc = "initStatus" /\ InitialStatus \in Status
  BY StatusesType DEF InitStatus, Parts, WorkerInv
<1>2. PICK o \in Outcomes :
        /\ WriteCollection([collection[w.key] EXCEPT !.status = InitialStatus], o)
        /\ IF Failed(o) THEN Requeue ELSE GoTo("observe", InitialStatus)
  BY Zenon DEF InitStatus, InitialStatus
<1>3. WorkerInv' /\ collectionHeld' \subseteq collectionHeld
  <2>1. "observe" \in Labels \ {"idle"}
    BY DEF Labels, EnsureLabels
  <2> QED
    BY <1>1, <1>2, <2>1, GoOn, EndOfPass DEF Parts
<1> QED
  BY <1>1, <1>2, <1>3, StatusWritten

LEMMA UpdateStatusType ==
    ASSUME Parts, UpdateStatus
    PROVE  Parts'
<1>1. pc = "status" /\ FinalStatus \in Status
  BY StatusesType DEF UpdateStatus, Parts, WorkerInv
<1>2. PICK o \in Outcomes :
        /\ WriteCollection([collection[w.key] EXCEPT !.status = FinalStatus], o)
        /\ IF Failed(o) THEN Requeue ELSE Done
  BY Zenon DEF UpdateStatus, FinalStatus
<1>3. WorkerInv' /\ collectionHeld' \subseteq collectionHeld
  BY <1>1, <1>2, EndOfPass DEF Parts
<1> QED
  BY <1>1, <1>2, <1>3, StatusWritten

LEMMA RemoveFinalizerType ==
    ASSUME Parts, RemoveFinalizer
    PROVE  Parts'
<1> DEFINE obj == [collection[w.key] EXCEPT !.finalizer = FALSE]
<1>1. pc = "removeFinalizer"
  BY DEF RemoveFinalizer
<1>2. PICK o \in Outcomes :
        WriteCollection(obj, o) /\ IF Failed(o) THEN Requeue ELSE Done
  BY DEF RemoveFinalizer
<1>3. w.key \in collectionHeld => obj \in CollectionObj
  <2>1. w.key \in collectionHeld => collection[w.key] \in CollectionObj
    BY HeldCollection
  <2> QED
    BY <2>1 DEF CollectionObj
<1>4. WorkerInv' /\ collectionHeld' = {}
  BY <1>1, <1>2, EndOfPass DEF Parts
<1> HIDE DEF obj
<1> QED
  BY <1>1, <1>2, <1>3, <1>4, CollectionWritten

-----------------------------------------------------------------------------
(* The config map is observed, made and named.                             *)

(* A step that leaves the Collections alone.                               *)
LEMMA MapStep ==
    ASSUME Parts, spent' \in 0 .. MaxDisruptions, MapStored', OwnersStored',
           WorkerInv', collectionHeld' \subseteq collectionHeld,
           UNCHANGED <<inSolr, collection, collectionCache, collectionLag,
                       cloudKnown>>
    PROVE  Parts'
<1>1. Elsewhere' /\ CollectionStored' /\ HeldIsThere'
  BY ElsewhereKept, CollectionStoredKept, HeldKept DEF Parts
<1> QED
  BY <1>1 DEF Parts

LEMMA ReadMapType ==
    ASSUME Parts, ReadMap
    PROVE  /\ spent' \in 0 .. MaxDisruptions
           /\ MapStored' /\ OwnersStored'
           /\ UNCHANGED <<inSolr, collection, collectionCache, collectionLag,
                          cloudKnown, configMap, configMapCache, owner, dangling>>
<1>1. spent' \in 0 .. MaxDisruptions
  <2>1. Calm \/ \E kind : Disrupt(kind)
    BY DEF ReadMap
  <2> QED
    BY <2>1, SpentType DEF Parts
<1>2. UNCHANGED <<inSolr, collection, collectionCache, collectionLag, cloudKnown,
                  configMap, configMapCache, configMapLag, owner, dangling>>
  BY DEF ReadMap, elsewhere, ownerVars
<1> QED
  BY <1>1, <1>2, MapStoredKept, OwnersStoredKept DEF Parts, ownerVars

LEMMA CachedMapType ==
    ASSUME Parts, pc # "idle"
    PROVE  /\ M \in Maps \cup {NONE}
           /\ CachedMap \in MapObj \cup {NONE}
           /\ CachedMap # NONE => M \in Maps /\ CachedMap = configMapCache[M]
<1>1. M \in Maps \cup {NONE}
  BY CollectionApiAssumption DEF Parts, WorkerInv, PassConsistent, M
<1> QED
  BY <1>1, CollectionApiAssumption DEF CachedMap, Parts, MapStored

(* What Observe makes of the status and where it goes.                     *)
ObservedStatus == CheckMapStatus(Observed(w.status, CachedMap))

LEMMA ObservedFacts ==
    ASSUME Parts, pc # "idle"
    PROVE  /\ ObservedStatus \in Status
           /\ AfterObserving(ObservedStatus) \in {"status", "getMap", "createMap"}
           /\ IsTrue(ObservedStatus.ConfigMapAvailable)
                <=> AfterObserving(ObservedStatus) = "status"
           /\ AfterObserving(ObservedStatus) = "status" =>
                /\ CachedMap # NONE /\ CachedMap.name # NONE
                /\ ObservedStatus.name = CachedMap.name
           /\ AfterObserving(ObservedStatus) = "getMap" => CachedMap = EmptyMap
           /\ AfterObserving(ObservedStatus) = "createMap" => CachedMap = NONE
           /\ CachedMap = NONE \/ CachedMap = EmptyMap =>
                ObservedStatus.name = w.status.name
<1>1. w.status \in Status /\ CachedMap \in MapObj \cup {NONE}
  BY CachedMapType DEF Parts, WorkerInv, Work
<1>2. ObservedStatus \in Status
  BY <1>1, ObservedType DEF ObservedStatus
<1>3. CASE CachedMap = NONE
  BY <1>1, <1>2, <1>3, ObjectsAreThere, BlankType
     DEF ObservedStatus, Observed, CheckMapStatus, AfterObserving, IsTrue,
         TrueReasons, Status
<1>4. CASE CachedMap = EmptyMap
  BY <1>1, <1>2, <1>4, ObjectsAreThere, BlankType
     DEF ObservedStatus, Observed, CheckMapStatus, AfterObserving, IsTrue,
         TrueReasons, Status
<1>5. CASE CachedMap # NONE /\ CachedMap # EmptyMap
  <2>1. CachedMap.name # NONE
    BY <1>1, <1>5 DEF MapObj, EmptyMap
  <2> QED
    BY <1>1, <1>2, <1>5, <2>1
       DEF ObservedStatus, Observed, CheckMapStatus, AfterObserving, IsTrue,
           TrueReasons, Status
<1> QED
  BY <1>3, <1>4, <1>5

LEMMA ObserveType ==
    ASSUME Parts, Observe
    PROVE  Parts'
<1>1. /\ pc = "observe"
      /\ ReadMap
      /\ GoTo(AfterObserving(ObservedStatus), ObservedStatus)
  BY Zenon DEF Observe, ObservedStatus
<1>2. /\ ObservedStatus \in Status
      /\ AfterObserving(ObservedStatus) \in Labels \ {"idle"}
      /\ AfterObserving(ObservedStatus) \in {"getMap", "updateMap"} => M \in Maps
  <2>1. AfterObserving(ObservedStatus) \in {"status", "getMap", "createMap"}
    BY <1>1, ObservedFacts
  <2>2. AfterObserving(ObservedStatus) = "getMap" => CachedMap # NONE
    BY <1>1, ObservedFacts, BlankType, ObjectsAreThere
  <2>3. AfterObserving(ObservedStatus) = "getMap" => M \in Maps
    BY <1>1, <2>2, CachedMapType
  <2> QED
    BY <1>1, <2>1, <2>3, ObservedFacts DEF Labels, EnsureLabels
<1>3. WorkerInv' /\ collectionHeld' = collectionHeld
  BY <1>1, <1>2, GoOn DEF Parts
<1> QED
  BY <1>1, <1>3, ReadMapType, MapStep

LEMMA CreateMapType ==
    ASSUME Parts, CreateMap
    PROVE  Parts'
<1> DEFINE st == [w.status EXCEPT !.ConfigMapExists = "Created"]
<1>1. PICK o \in Outcomes :
        /\ ApiWrite(M # NONE /\ configMap[M] = NONE, o)
        /\ IF Applied(o) THEN PutMap(M, EmptyMap)
                         ELSE UNCHANGED <<configMap, configMapLag>>
        /\ \/ Failed(o) /\ GoTo("status", w.status)
           \/ /\ ~Failed(o)
              /\ GenerateName(st, TRUE)
              /\ configMapHeld' = {M}
  BY DEF CreateMap
<1>2. /\ pc = "createMap" /\ WorkerInv /\ MapStored
      /\ UNCHANGED <<inSolr, collection, collectionCache, collectionLag,
                     cloudKnown, configMapCache, owner, dangling>>
  BY DEF CreateMap, elsewhere, ownerVars, Parts
<1>3. spent' \in 0 .. MaxDisruptions /\ (Applied(o) => M # NONE)
  BY <1>1, SpentType DEF Parts, ApiWrite, Applied
<1>4. M \in Maps \cup {NONE}
  BY <1>2, CachedMapType
<1>5. MapStored'
  <2>1. CASE Applied(o)
    BY <1>1, <1>2, <1>3, <1>4, <2>1, PutMapType, BlankType
  <2>2. CASE ~Applied(o)
    BY <1>1, <1>2, <2>2, MapStoredKept
  <2> QED
    BY <2>1, <2>2
<1>6. w.status \in Status /\ st \in Status
  <2>1. w.status \in Status
    BY <1>2 DEF WorkerInv, Work
  <2> QED
    BY <2>1, StatusType DEF Reasons, TrueReasons
<1>7. WorkerInv' /\ collectionHeld' = collectionHeld
  <2>1. CASE Failed(o)
    BY <1>1, <1>2, <1>6, <2>1, GoOn DEF Labels, EnsureLabels
  <2>2. CASE ~Failed(o)
    <3>1. M \in Maps
      BY <1>1, <1>3, <1>4, <2>2 DEF ApiWrite, Failed, Applied
    <3> HIDE DEF st
    <3> QED
      BY <1>1, <1>2, <1>6, <2>2, <3>1, GenerateNameType
  <2> QED
    BY <2>1, <2>2
<1>8. OwnersStored'
  BY <1>2, OwnersStoredKept DEF Parts, ownerVars
<1> QED
  BY <1>2, <1>3, <1>5, <1>7, <1>8, MapStep

LEMMA GetMapType ==
    ASSUME Parts, GetMap
    PROVE  Parts'
<1>1. /\ pc = "getMap" /\ ReadMap /\ WorkerInv /\ w.status \in Status
      /\ \/ CachedMap = NONE /\ GoTo("status", w.status)
         \/ /\ CachedMap # NONE
            /\ GenerateName(w.status, FALSE)
            /\ configMapHeld' = {M} \ configMapLag
  BY DEF GetMap, Parts, WorkerInv, Work
<1>2. WorkerInv' /\ collectionHeld' = collectionHeld
  <2>1. CASE GoTo("status", w.status)
    BY <1>1, <2>1, GoOn DEF Labels, EnsureLabels
  <2>2. CASE /\ CachedMap # NONE
             /\ GenerateName(w.status, FALSE)
             /\ configMapHeld' = {M} \ configMapLag
    <3>1. M \in Maps /\ configMapHeld' \subseteq Maps
      BY <1>1, <2>2, CachedMapType
    <3> QED
      BY <1>1, <2>2, <3>1, GenerateNameType
  <2> QED
    BY <1>1, <2>1, <2>2
<1> QED
  BY <1>1, <1>2, ReadMapType, MapStep

LEMMA UpdateMapType ==
    ASSUME Parts, UpdateMap
    PROVE  Parts'
<1>1. PICK o \in Outcomes :
        /\ ApiWrite(M \in configMapHeld, o)
        /\ IF Applied(o) THEN PutMap(M, [name |-> w.status.name])
                         ELSE UNCHANGED <<configMap, configMapLag>>
        /\ IF Applied(o) /\ SetsOwner
             THEN /\ owner' = [owner EXCEPT ![M] = w.key]
                  /\ dangling' = IF collection[w.key] = NONE THEN dangling \cup {M}
                                                             ELSE dangling
             ELSE UNCHANGED ownerVars
        /\ GoTo("status", IF Failed(o) THEN w.status ELSE CheckMapStatus(w.status))
  BY DEF UpdateMap
<1>2. /\ pc = "updateMap" /\ WorkerInv /\ MapStored /\ M \in Maps
      /\ w.status \in Status /\ w.key \in Collections
      /\ UNCHANGED <<inSolr, collection, collectionCache, collectionLag,
                     cloudKnown, configMapCache>>
  BY DEF UpdateMap, elsewhere, Parts, WorkerInv, PassConsistent, Work
<1>3. spent' \in 0 .. MaxDisruptions
  BY <1>1, SpentType DEF Parts, ApiWrite
<1>4. MapStored'
  <2>1. [name |-> w.status.name] \in MapObj
    BY <1>2 DEF MapObj, Status
  <2>2. CASE Applied(o)
    BY <1>1, <1>2, <2>1, <2>2, PutMapType
  <2>3. CASE ~Applied(o)
    BY <1>1, <1>2, <2>3, MapStoredKept
  <2> QED
    BY <2>2, <2>3
<1>5. OwnersStored'
  <2>1. CASE Applied(o) /\ SetsOwner
    BY <1>1, <1>2, <2>1 DEF OwnersStored, Parts
  <2>2. CASE ~(Applied(o) /\ SetsOwner)
    BY <1>1, <2>2, OwnersStoredKept DEF Parts
  <2> QED
    BY <2>1, <2>2
<1>6. WorkerInv' /\ collectionHeld' = collectionHeld
  <2> DEFINE st == IF Failed(o) THEN w.status ELSE CheckMapStatus(w.status)
  <2>1. st \in Status /\ GoTo("status", st)
    BY <1>1, <1>2, CheckMapStatusType
  <2> HIDE DEF st
  <2> QED
    BY <1>2, <2>1, GoOn DEF Labels, EnsureLabels
<1> QED
  BY <1>2, <1>3, <1>4, <1>5, <1>6, MapStep

-----------------------------------------------------------------------------
(* deleteCollection.                                                       *)

LEMMA SolrStep ==
    ASSUME Parts, spent' \in 0 .. MaxDisruptions, inSolr' \subseteq Names,
           WorkerInv', collectionHeld' \subseteq collectionHeld,
           UNCHANGED kubernetesVars
    PROVE  Parts'
<1>1. UNCHANGED <<collection, collectionCache, collectionLag, configMap,
                  configMapCache, configMapLag, owner, dangling, cloudKnown>>
  BY DEF kubernetesVars, ownerVars
<1>2. CollectionStored' /\ MapStored' /\ OwnersStored' /\ HeldIsThere'
  BY <1>1, CollectionStoredKept, MapStoredKept, OwnersStoredKept, HeldKept
     DEF Parts, ownerVars
<1>3. Elsewhere'
  BY <1>1 DEF Elsewhere, Parts
<1> QED
  BY <1>2, <1>3 DEF Parts

LEMMA CheckExistsType ==
    ASSUME Parts, CheckExists
    PROVE  Parts'
<1>1. /\ pc = "checkExists" /\ w.status \in Status /\ WorkerInv
      /\ UNCHANGED kubernetesVars
  BY DEF CheckExists, Parts, WorkerInv, Work
<1>2. spent' \in 0 .. MaxDisruptions /\ inSolr' = inSolr
  <2>1. /\ Calm \/ \E kind : Disrupt(kind)
        /\ inSolr' = inSolr
    BY DEF CheckExists, ListCollections
  <2> QED
    BY <2>1, SpentType DEF Parts
<1>3. WorkerInv' /\ collectionHeld' \subseteq collectionHeld
  <2>1. CASE Requeue
    BY <1>1, <2>1, EndOfPass
  <2>2. CASE GoTo("deleteCollection", w.status)
    BY <1>1, <2>2, GoOn DEF Labels, DeleteLabels
  <2>3. CASE GoTo("removeFinalizer", w.status)
    BY <1>1, <2>3, GoOn DEF Labels, DeleteLabels
  <2> QED
    BY <2>1, <2>2, <2>3 DEF CheckExists
<1> QED
  BY <1>1, <1>2, <1>3, SolrStep DEF Parts, Elsewhere

LEMMA DeleteFromSolrType ==
    ASSUME Parts, DeleteFromSolr
    PROVE  Parts'
<1>1. PICK o \in Outcomes :
        /\ DeleteCollection(w.status.name, o)
        /\ IF Failed(o) THEN Requeue ELSE GoTo("removeFinalizer", w.status)
  BY DEF DeleteFromSolr
<1>2. /\ pc = "deleteCollection" /\ w.status \in Status /\ WorkerInv
      /\ UNCHANGED kubernetesVars
  BY DEF DeleteFromSolr, Parts, WorkerInv, Work
<1>3. spent' \in 0 .. MaxDisruptions /\ inSolr' \subseteq Names
  <2>1. /\ Calm \/ \E kind : Disrupt(kind)
        /\ inSolr' \subseteq inSolr
    BY <1>1 DEF DeleteCollection
  <2> QED
    BY <2>1, SpentType DEF Parts, Elsewhere
<1>4. WorkerInv' /\ collectionHeld' \subseteq collectionHeld
  BY <1>1, <1>2, GoOn, EndOfPass DEF Labels, DeleteLabels
<1> QED
  BY <1>2, <1>3, <1>4, SolrStep

-----------------------------------------------------------------------------
(* The worker takes a key; the manager dies.                               *)

LEMMA BeginType ==
    ASSUME Parts, NEW c \in Collections, Begin(c)
    PROVE  Parts'
<1>1. /\ WorkerInv /\ pc = "idle"
      /\ collectionCache[c] \in CollectionObj
      /\ collectionCache[c].status \in Status
      /\ UNCHANGED <<inSolr, collection, collectionCache, collectionLag,
                     cloudKnown, configMap, configMapCache, configMapLag,
                     configMapHeld, owner, dangling>>
  BY DEF Begin, Parts, CollectionStored, CollectionObj, configMapVars, ownerVars
<1>2. spent' \in 0 .. MaxDisruptions
  BY DEF Begin, Calm, Parts
<1>3. Elsewhere' /\ CollectionStored' /\ MapStored' /\ OwnersStored'
  BY <1>1, ElsewhereKept, CollectionStoredKept, MapStoredKept, OwnersStoredKept
     DEF Parts, ownerVars
<1>4. HeldIsThere'
  BY <1>1 DEF Begin, HeldIsThere, Parts, CollectionStored
<1>5. w' \in Work /\ w'.key = c /\ w'.status = collectionCache[c].status
  BY <1>1, BlankType DEF Begin, Work, NoWork
<1>6. pc' \in {"addFinalizer", "observe", "checkExists", "removeFinalizer"}
  BY DEF Begin, Route, Retire
<1>7. WorkerInv'
  BY <1>1, <1>5, <1>6
     DEF Begin, WorkerInv, PassConsistent, Labels, EnsureLabels, DeleteLabels
<1> QED
  BY <1>2, <1>3, <1>4, <1>7 DEF Parts

LEMMA ObjectGoneType ==
    ASSUME Parts, NEW c \in Collections, ObjectGone(c)
    PROVE  Parts'
<1>1. /\ spent' \in 0 .. MaxDisruptions
      /\ UNCHANGED <<inSolr, collection, collectionCache, collectionLag,
                     collectionHeld, configMap, configMapCache, configMapLag,
                     configMapHeld, owner, dangling, cloudKnown, workVars>>
  BY DEF ObjectGone, Calm, Parts, collectionVars, configMapVars, ownerVars
<1>2. WorkerInv'
  BY <1>1, WorkerKept DEF ObjectGone, Parts, WorkerInv
<1> QED
  BY <1>1, <1>2, SolrStep DEF kubernetesVars, ownerVars, Parts, Elsewhere

LEMMA CrashType ==
    ASSUME Parts, Crash
    PROVE  Parts'
<1>1. spent' \in 0 .. MaxDisruptions
  BY SpentType DEF Crash, Parts
<1>2. Elsewhere' /\ CollectionStored' /\ MapStored' /\ OwnersStored' /\ HeldIsThere'
  BY DEF Crash, Relist, Parts, Elsewhere, CollectionStored, NothingOverdue,
         Held, MapStored, OwnersStored, HeldIsThere, ownerVars
<1>3. WorkerInv'
  BY BlankType DEF Crash, Relist, WorkerInv, PassConsistent, Labels
<1> QED
  BY <1>1, <1>2, <1>3 DEF Parts

-----------------------------------------------------------------------------
(* Everybody else.                                                         *)

LEMMA EditCollectionType ==
    ASSUME Parts, NEW c \in Collections, NEW obj \in CollectionObj \cup {NONE},
           Held(obj), EditCollection(c, obj),
           Calm \/ \E kind : Disrupt(kind), UNCHANGED workVars
    PROVE  Parts'
<1>1. /\ UNCHANGED <<inSolr, collectionCache, configMap, configMapCache,
                     configMapLag, configMapHeld, owner, cloudKnown, queue>>
      /\ PutCollection(c, obj)
      /\ collectionHeld' = collectionHeld \ {c}
  BY DEF EditCollection, configMapVars
<1>2. spent' \in 0 .. MaxDisruptions
  BY SpentType DEF Parts
<1>3. Elsewhere' /\ MapStored'
  BY <1>1, ElsewhereKept, MapStoredKept DEF Parts
<1>4. /\ CollectionStored' /\ OwnersStored'
      /\ collection' = [collection EXCEPT ![c] = obj]
  BY <1>1, PutCollectionType DEF Parts
<1>5. HeldIsThere'
  BY <1>1, <1>4 DEF HeldIsThere, Parts, CollectionStored, WorkerInv
<1>6. WorkerInv'
  BY <1>1, WorkerKept DEF Parts, WorkerInv
<1> QED
  BY <1>2, <1>3, <1>4, <1>5, <1>6 DEF Parts

LEMMA EditMapType ==
    ASSUME Parts, NEW m \in Maps, NEW obj \in MapObj \cup {NONE},
           EditMap(m, obj), Calm \/ \E kind : Disrupt(kind), UNCHANGED workVars
    PROVE  Parts'
<1>1. /\ UNCHANGED <<inSolr, collection, collectionCache, collectionLag,
                     collectionHeld, configMapCache, cloudKnown, queue>>
      /\ PutMap(m, obj)
      /\ configMapHeld' = configMapHeld \ {m}
  BY DEF EditMap, collectionVars
<1>2. spent' \in 0 .. MaxDisruptions
  BY SpentType DEF Parts
<1>3. MapStored'
  BY <1>1, PutMapType DEF Parts
<1>4. OwnersStored'
  BY DEF EditMap, Parts, OwnersStored, ownerVars
<1>5. WorkerInv'
  BY <1>1, WorkerKept DEF Parts, WorkerInv
<1> QED
  BY <1>1, <1>2, <1>3, <1>4, <1>5, MapStep

(* What people do to Collections: each is the edit of one object.          *)
Edited(c, obj) ==
    /\ collection[c] # NONE
    /\ EditCollection(c, obj)
    /\ Calm \/ \E kind : Disrupt(kind)

LEMMA CollectionEdits ==
    ASSUME Parts, NEW c \in Collections,
           RequestDelete(c) \/ DropForeign(c) \/ ChangePolicy(c)
    PROVE  \E obj \in CollectionObj :
             /\ Edited(c, Reaped(obj))
             /\ obj.status = collection[c].status
             /\ obj.finalizer = collection[c].finalizer
             /\ collection[c].deleting => obj.deleting
             /\ ~collection[c].foreign => ~obj.foreign
<1>1. /\ collection[c] \in CollectionObj
      /\ Held(collection[c])
  BY DEF Parts, CollectionStored, NothingOverdue, RequestDelete, DropForeign,
         ChangePolicy, Live
<1>2. CASE RequestDelete(c)
  <2> DEFINE obj == [collection[c] EXCEPT !.deleting = TRUE]
  <2>1. /\ obj \in CollectionObj
        /\ obj.status = collection[c].status
        /\ obj.finalizer = collection[c].finalizer
        /\ obj.deleting
        /\ obj.foreign = collection[c].foreign
    BY <1>1 DEF CollectionObj
  <2>2. Edited(c, Reaped(obj))
    BY <1>2 DEF RequestDelete, Edited, Live
  <2> HIDE DEF obj
  <2> QED
    BY <2>1, <2>2
<1>3. CASE DropForeign(c)
  <2> DEFINE obj == [collection[c] EXCEPT !.foreign = FALSE]
  <2>1. /\ obj \in CollectionObj
        /\ obj.status = collection[c].status
        /\ obj.finalizer = collection[c].finalizer
        /\ obj.deleting = collection[c].deleting
        /\ ~obj.foreign
    BY <1>1 DEF CollectionObj
  <2>2. Edited(c, Reaped(obj))
    BY <1>3 DEF DropForeign, Edited
  <2> HIDE DEF obj
  <2> QED
    BY <2>1, <2>2
<1>4. CASE ChangePolicy(c)
  <2>1. PICK p \in Policies \ {collection[c].policy} :
          EditCollection(c, [collection[c] EXCEPT !.policy = p])
    BY <1>4 DEF ChangePolicy
  <2> DEFINE obj == [collection[c] EXCEPT !.policy = p]
  <2>2. /\ obj \in CollectionObj
        /\ obj.status = collection[c].status
        /\ obj.finalizer = collection[c].finalizer
        /\ obj.deleting = collection[c].deleting
        /\ obj.foreign = collection[c].foreign
    BY <1>1 DEF CollectionObj
  <2>3. Reaped(obj) = obj
    BY <1>1, <2>2, ObjectsAreThere DEF Held, Reaped
  <2>4. Edited(c, obj)
    BY <1>4, <2>1 DEF ChangePolicy, Edited
  <2> HIDE DEF obj
  <2> QED
    BY <2>2, <2>3, <2>4
<1> QED
  BY <1>2, <1>3, <1>4

LEMMA CollectionEditsType ==
    ASSUME Parts, NEW c \in Collections, UNCHANGED workVars,
           Apply(c) \/ RequestDelete(c) \/ DropForeign(c) \/ ChangePolicy(c)
    PROVE  Parts'
<1>1. CASE Apply(c)
  <2>1. NewCollection(c) \in CollectionObj /\ Held(NewCollection(c))
    BY BlankType DEF NewCollection, Held
  <2> QED
    BY <1>1, <2>1, EditCollectionType DEF Apply
<1>2. CASE ~Apply(c)
  <2>1. PICK obj \in CollectionObj : Edited(c, Reaped(obj))
    BY <1>2, CollectionEdits
  <2>2. Reaped(obj) \in CollectionObj \cup {NONE} /\ Held(Reaped(obj))
    BY ReapedIsHeld
  <2> QED
    BY <2>1, <2>2, EditCollectionType DEF Edited
<1> QED
  BY <1>1, <1>2

LEMMA ChosenType ==
    ASSUME Parts, NEW m \in Maps
    PROVE  Chosen(m) \subseteq Names \cup {NONE}
<1>1. \A c \in Collections :
        collection[c] # NONE => collection[c].status.name \in Names \cup {NONE}
  BY DEF Parts, CollectionStored, CollectionObj, Status
<1> QED
  BY <1>1, CollectionApiAssumption DEF Chosen

(* What others do to a config map: each is one edit of it.                 *)
LEMMA MapEdits ==
    ASSUME Parts, NEW m \in Maps,
           BringMap(m) \/ RenameInMap(m) \/ DropMap(m) \/ CollectMap(m)
    PROVE  \E obj \in MapObj \cup {NONE} :
             EditMap(m, obj) /\ (Calm \/ \E kind : Disrupt(kind))
<1>1. CASE BringMap(m)
  BY <1>1, ChosenType DEF BringMap, MapObj
<1>2. CASE RenameInMap(m)
  BY <1>2, ChosenType DEF RenameInMap, MapObj
<1>3. CASE DropMap(m) \/ CollectMap(m)
  BY <1>3 DEF DropMap, CollectMap
<1> QED
  BY <1>1, <1>2, <1>3

LEMMA MapEditsType ==
    ASSUME Parts, NEW m \in Maps, UNCHANGED workVars,
           BringMap(m) \/ RenameInMap(m) \/ DropMap(m) \/ CollectMap(m)
    PROVE  Parts'
BY MapEdits, EditMapType

LEMMA SolrEditsType ==
    ASSUME Parts, UNCHANGED workVars,
           \/ \E m \in Maps : ApplicationCreates(m)
           \/ \E n \in Names : ApplicationDrops(n)
           \/ CloudChange
    PROVE  Parts'
<1>1. /\ Calm \/ \E kind : Disrupt(kind)
      /\ inSolr' \subseteq Names /\ cloudKnown' \in BOOLEAN
      /\ UNCHANGED <<collectionVars, configMapVars, ownerVars, queue>>
  <2>1. CASE \E m \in Maps : ApplicationCreates(m)
    <3>1. PICK m \in Maps : ApplicationCreates(m)
      BY <2>1
    <3>2. configMap[m] \in MapObj
      BY <3>1 DEF ApplicationCreates, Parts, MapStored
    <3>3. configMap[m].name \in Names
      BY <3>1, <3>2 DEF ApplicationCreates, MapObj
    <3> QED
      BY <3>1, <3>3 DEF ApplicationCreates, Parts, Elsewhere, apiVars
  <2>2. CASE \E n \in Names : ApplicationDrops(n)
    BY <2>2 DEF ApplicationDrops, Parts, Elsewhere, apiVars
  <2>3. CASE CloudChange
    BY <2>3 DEF CloudChange, Parts, Elsewhere
  <2> QED
    BY <2>1, <2>2, <2>3
<1>2. UNCHANGED <<collection, collectionCache, collectionLag, collectionHeld,
                  configMap, configMapCache, configMapLag, configMapHeld, queue>>
  BY <1>1 DEF collectionVars, configMapVars
<1>3. CollectionStored' /\ MapStored' /\ OwnersStored' /\ HeldIsThere'
  BY <1>1, <1>2, CollectionStoredKept, MapStoredKept, OwnersStoredKept, HeldKept
     DEF Parts
<1>4. WorkerInv'
  BY <1>2, WorkerKept DEF Parts, WorkerInv
<1> QED
  BY <1>1, <1>3, <1>4, SpentType DEF Parts, Elsewhere

LEMMA DeliverType ==
    ASSUME Parts, NEW c \in Collections, UNCHANGED workVars, Deliver(c) \/ Resync(c)
    PROVE  Parts'
<1>1. /\ spent' \in 0 .. MaxDisruptions
      /\ UNCHANGED <<inSolr, collection, collectionHeld, configMap,
                     configMapCache, configMapLag, configMapHeld, ownerVars,
                     cloudKnown>>
      /\ queue' = queue \cup {c}
  BY SpentType DEF Deliver, Resync, Calm, Parts, collectionVars, configMapVars
<1>2. CollectionStored'
  <2>1. CASE Deliver(c)
    BY <2>1 DEF Deliver, Parts, CollectionStored, NothingOverdue, Held
  <2>2. CASE Resync(c)
    BY <2>2, CollectionStoredKept DEF Resync, Parts, collectionVars
  <2> QED
    BY <2>1, <2>2
<1>3. Elsewhere' /\ MapStored' /\ OwnersStored' /\ HeldIsThere'
  BY <1>1, ElsewhereKept, MapStoredKept, OwnersStoredKept, HeldKept DEF Parts
<1>4. WorkerInv'
  BY <1>1, WorkerKept DEF Parts, WorkerInv
<1> QED
  BY <1>1, <1>2, <1>3, <1>4 DEF Parts

LEMMA SyncMapType ==
    ASSUME Parts, NEW m \in Maps, UNCHANGED workVars, SyncMap(m)
    PROVE  Parts'
<1>1. /\ spent' \in 0 .. MaxDisruptions
      /\ UNCHANGED <<inSolr, collection, collectionCache, collectionLag,
                     collectionHeld, configMap, configMapHeld, ownerVars,
                     cloudKnown, queue>>
  BY DEF SyncMap, Calm, Parts, collectionVars
<1>2. MapStored'
  BY DEF SyncMap, Parts, MapStored
<1>3. OwnersStored' /\ WorkerInv'
  BY <1>1, OwnersStoredKept, WorkerKept DEF Parts, WorkerInv
<1> QED
  BY <1>1, <1>2, <1>3, MapStep

LEMMA StutterType ==
    ASSUME Parts, UNCHANGED vars
    PROVE  Parts'
<1>1. /\ UNCHANGED <<spent, inSolr, pc, w, queue, collectionHeld, configMapHeld>>
      /\ UNCHANGED kubernetesVars
  BY DEF vars, apiVars, workVars, collectionVars, configMapVars, ownerVars,
         kubernetesVars
<1>2. WorkerInv'
  BY <1>1, WorkerKept DEF Parts, WorkerInv, workVars
<1> QED
  BY <1>1, <1>2, SolrStep DEF Parts, Elsewhere

-----------------------------------------------------------------------------
(* TypeInv is inductive.                                                   *)
LEMMA InitParts == Init => Parts
<1> SUFFICES ASSUME Init
             PROVE  Parts
  OBVIOUS
<1>1. spent \in 0 .. MaxDisruptions /\ Elsewhere
  BY DisruptionsAssumption DEF Init, ApiInit, Elsewhere
<1>2. CollectionStored
  BY BlankType DEF Init, ApiInit, CollectionStored, NothingOverdue, Held,
                   NewCollection
<1>3. MapStored /\ OwnersStored /\ HeldIsThere
  BY DEF Init, ApiInit, MapStored, OwnersStored, HeldIsThere
<1>4. WorkerInv
  BY BlankType DEF Init, ApiInit, WorkerInv, PassConsistent, Labels
<1> QED
  BY <1>1, <1>2, <1>3, <1>4 DEF Parts

LEMMA PassStepParts ==
    ASSUME Parts, PassStep
    PROVE  Parts'
BY AddFinalizerType, InitStatusType, ObserveType, CreateMapType, GetMapType,
   UpdateMapType, UpdateStatusType, CheckExistsType, DeleteFromSolrType,
   RemoveFinalizerType
   DEF PassStep

LEMMA EnvironmentParts ==
    ASSUME Parts, Environment
    PROVE  Parts'
BY CollectionEditsType, MapEditsType, SolrEditsType, DeliverType, SyncMapType
   DEF Environment, Edits, Informers

LEMMA NextParts ==
    ASSUME Parts, [Next]_vars
    PROVE  Parts'
<1>1. CASE TakeKey
  BY <1>1, ObjectGoneType, StutterType, BeginType DEF TakeKey, CannotDelete
<1>2. CASE PassStep
  BY <1>2, PassStepParts
<1>3. CASE Environment
  BY <1>3, EnvironmentParts
<1>4. CASE Crash
  BY <1>4, CrashType
<1>5. CASE UNCHANGED vars
  BY <1>5, StutterType
<1> QED
  BY <1>1, <1>2, <1>3, <1>4, <1>5 DEF Next, Worker

(***************************************************************************)
(* Spec => []TypeInv: every variable has its type, a pass writes only to   *)
(* config maps it may have, copies that are not behind are the stored      *)
(* objects, and nothing that is being deleted is left without a finalizer. *)
(***************************************************************************)
THEOREM CollectionTypeInvariant == Spec => []TypeInv
<1>1. Init => TypeInv
  BY InitParts, TypeInvIsParts
<1>2. TypeInv /\ [Next]_vars => TypeInv'
  BY NextParts, TypeInvIsParts, TypeInvIsPartsNext
<1> QED
  BY <1>1, <1>2, PTL DEF Spec

(***************************************************************************)
(* Spec => []TypeOK: the type invariant that the runs check.               *)
(***************************************************************************)
THEOREM CollectionTypeCorrect == Spec => []TypeOK
<1>1. TypeInv => TypeOK
  BY DEF TypeInv
<1> QED
  BY <1>1, CollectionTypeInvariant, PTL

-----------------------------------------------------------------------------
(***************************************************************************)
(* What a step of a pass does to the stored Collections, and to the pass.  *)
(***************************************************************************)
PassGoesOn ==
    \/ pc' = "idle" /\ collectionHeld' = {} /\ configMapHeld' = {}
    \/ /\ w'.key = w.key
       /\ collectionHeld' = collectionHeld
       /\ \/ pc \in EnsureLabels \cup {"addFinalizer"} /\ pc' \in EnsureLabels
          \/ pc = "checkExists" /\ pc' \in {"deleteCollection", "removeFinalizer"}
          \/ pc = "deleteCollection" /\ pc' = "removeFinalizer"

WithStatus(st) == [collection[w.key] EXCEPT !.status = st]

WithFinalizer(b) == [collection[w.key] EXCEPT !.finalizer = b]

WritesAsItShould ==
    \/ UNCHANGED collection
    \/ pc = "initStatus" /\ Written(WithStatus(InitialStatus))
    \/ pc = "status" /\ Written(WithStatus(FinalStatus)) /\ pc' = "idle"
    \/ pc = "addFinalizer" /\ Written(WithFinalizer(TRUE))
    \/ pc = "removeFinalizer" /\ Written(WithFinalizer(FALSE)) /\ pc' = "idle"

LEMMA WithFinalizerFacts ==
    ASSUME Parts, w.key \in collectionHeld, NEW b \in BOOLEAN
    PROVE  /\ WithFinalizer(b) \in CollectionObj
           /\ b => Reaped(WithFinalizer(b)) = WithFinalizer(b)
           /\ WithFinalizer(b).deleting = collection[w.key].deleting
           /\ WithFinalizer(b).policy = collection[w.key].policy
           /\ WithFinalizer(b).status = collection[w.key].status
           /\ WithFinalizer(b).foreign = collection[w.key].foreign
           /\ WithFinalizer(b).finalizer = b
<1>1. collection[w.key] \in CollectionObj
  BY HeldCollection
<1> QED
  BY <1>1 DEF WithFinalizer, CollectionObj, Reaped

LEMMA WithStatusFacts ==
    ASSUME Parts, w.key \in collectionHeld, NEW st \in Status
    PROVE  /\ WithStatus(st) \in CollectionObj
           /\ Reaped(WithStatus(st)) = WithStatus(st)
           /\ WithStatus(st).deleting = collection[w.key].deleting
           /\ WithStatus(st).policy = collection[w.key].policy
           /\ WithStatus(st).finalizer = collection[w.key].finalizer
           /\ WithStatus(st).foreign = collection[w.key].foreign
           /\ WithStatus(st).status = st
<1>1. /\ collection[w.key] \in CollectionObj
      /\ Reaped(WithStatus(st)) = WithStatus(st)
  BY HeldCollection, StatusWriteType DEF WithStatus
<1> QED
  BY <1>1 DEF WithStatus, CollectionObj

LEMMA GoToGoesOn ==
    ASSUME w \in Work, NEW st \in Status, NEW label, GoTo(label, st)
    PROVE  /\ pc' = label
           /\ w'.key = w.key
           /\ collectionHeld' = collectionHeld
BY GoToType

LEMMA GenerateNameGoesOn ==
    ASSUME Parts, NEW st, NEW created, GenerateName(st, created)
    PROVE  /\ pc' = "updateMap"
           /\ w'.key = w.key
           /\ collectionHeld' = collectionHeld
<1>1. PICK n : Continue("updateMap",
                 [w EXCEPT !.created = created,
                           !.status = [st EXCEPT !.name = n,
                              !.ConfigMapHasCollection = "GeneratedCollectionName"]])
  BY DEF GenerateName
<1> QED
  BY <1>1 DEF Continue, Parts, WorkerInv, Work

LEMMA EndGoesOn ==
    ASSUME Done \/ Requeue
    PROVE  pc' = "idle" /\ collectionHeld' = {} /\ configMapHeld' = {}
BY DEF Done, Requeue, LeavePass

(* The config maps of a Collection that goes away become dangling.         *)
DanglingFollows ==
    \/ UNCHANGED dangling
    \/ /\ w.key \in Collections
       /\ collection'[w.key] = NONE
       /\ dangling' = dangling \cup {m \in Maps : owner[m] = w.key}

LEMMA WrittenDangling ==
    ASSUME Parts, NEW obj, Written(obj) \/ UNCHANGED <<collection, dangling>>
    PROVE  DanglingFollows
BY HeldCollection DEF DanglingFollows, Written, Parts, CollectionStored

(* The steps that write to the Collection.                                 *)
LEMMA WritingSteps ==
    ASSUME Parts, AddFinalizer \/ InitStatus \/ UpdateStatus \/ RemoveFinalizer
    PROVE  /\ PassGoesOn
           /\ pc' \in {"idle", "initStatus", "observe"}
           /\ WritesAsItShould
           /\ DanglingFollows
           /\ UNCHANGED <<inSolr, collectionCache, configMap, configMapCache, owner>>
<1>1. /\ w \in Work /\ w.status \in Status
      /\ InitialStatus \in Status /\ FinalStatus \in Status
  BY StatusesType DEF Parts, WorkerInv
<1>2. CASE AddFinalizer
  <2>1. PICK o \in Outcomes :
          /\ WriteCollection(WithFinalizer(TRUE), o)
          /\ IF Failed(o) THEN Requeue ELSE GoTo("initStatus", w.status)
    BY <1>2 DEF AddFinalizer, WithFinalizer
  <2>2. /\ pc = "addFinalizer"
        /\ w.key \in collectionHeld => WithFinalizer(TRUE) \in CollectionObj
    BY <1>2, WithFinalizerFacts DEF AddFinalizer
  <2>3. PassGoesOn
    BY <1>1, <2>1, <2>2, GoToGoesOn, EndGoesOn DEF PassGoesOn, EnsureLabels
  <2>4. /\ DanglingFollows
        /\ pc' \in {"idle", "initStatus", "observe"}
    BY <1>1, <2>1, <2>2, WriteCollectionType, WrittenDangling, GoToGoesOn, EndGoesOn
  <2>5. /\ Written(WithFinalizer(TRUE)) \/ UNCHANGED collection
        /\ UNCHANGED <<inSolr, collectionCache, configMap, configMapCache, owner>>
    BY <2>1, <2>2, WriteCollectionType
  <2> QED
    BY <2>2, <2>3, <2>4, <2>5 DEF WritesAsItShould
<1>3. CASE InitStatus
  <2>1. PICK o \in Outcomes :
          /\ WriteCollection(WithStatus(InitialStatus), o)
          /\ IF Failed(o) THEN Requeue ELSE GoTo("observe", InitialStatus)
    BY <1>3, Zenon DEF InitStatus, InitialStatus, WithStatus
  <2>2. /\ pc = "initStatus"
        /\ w.key \in collectionHeld => WithStatus(InitialStatus) \in CollectionObj
    BY <1>1, <1>3, WithStatusFacts DEF InitStatus
  <2>3. PassGoesOn
    BY <1>1, <2>1, <2>2, GoToGoesOn, EndGoesOn DEF PassGoesOn, EnsureLabels
  <2>4. /\ DanglingFollows
        /\ pc' \in {"idle", "initStatus", "observe"}
    BY <1>1, <2>1, <2>2, WriteCollectionType, WrittenDangling, GoToGoesOn, EndGoesOn
  <2>5. /\ Written(WithStatus(InitialStatus)) \/ UNCHANGED collection
        /\ UNCHANGED <<inSolr, collectionCache, configMap, configMapCache, owner>>
    BY <2>1, <2>2, WriteCollectionType
  <2> QED
    BY <2>2, <2>3, <2>4, <2>5 DEF WritesAsItShould
<1>4. CASE UpdateStatus
  <2>1. PICK o \in Outcomes :
          /\ WriteCollection(WithStatus(FinalStatus), o)
          /\ IF Failed(o) THEN Requeue ELSE Done
    BY <1>4, Zenon DEF UpdateStatus, FinalStatus, WithStatus
  <2>2. /\ pc = "status"
        /\ w.key \in collectionHeld => WithStatus(FinalStatus) \in CollectionObj
    BY <1>1, <1>4, WithStatusFacts DEF UpdateStatus
  <2>3. PassGoesOn /\ pc' = "idle"
    BY <2>1, EndGoesOn DEF PassGoesOn
  <2>4. DanglingFollows
    BY <2>1, <2>2, WriteCollectionType, WrittenDangling
  <2>5. /\ Written(WithStatus(FinalStatus)) \/ UNCHANGED collection
        /\ UNCHANGED <<inSolr, collectionCache, configMap, configMapCache, owner>>
    BY <2>1, <2>2, WriteCollectionType
  <2> QED
    BY <2>2, <2>3, <2>4, <2>5 DEF WritesAsItShould
<1>5. CASE RemoveFinalizer
  <2>1. PICK o \in Outcomes :
          /\ WriteCollection(WithFinalizer(FALSE), o)
          /\ IF Failed(o) THEN Requeue ELSE Done
    BY <1>5 DEF RemoveFinalizer, WithFinalizer
  <2>2. /\ pc = "removeFinalizer"
        /\ w.key \in collectionHeld => WithFinalizer(FALSE) \in CollectionObj
    BY <1>5, WithFinalizerFacts DEF RemoveFinalizer
  <2>3. PassGoesOn /\ pc' = "idle"
    BY <2>1, EndGoesOn DEF PassGoesOn
  <2>4. DanglingFollows
    BY <2>1, <2>2, WriteCollectionType, WrittenDangling
  <2>5. /\ Written(WithFinalizer(FALSE)) \/ UNCHANGED collection
        /\ UNCHANGED <<inSolr, collectionCache, configMap, configMapCache, owner>>
    BY <2>1, <2>2, WriteCollectionType
  <2> QED
    BY <2>2, <2>3, <2>4, <2>5 DEF WritesAsItShould
<1> QED
  BY <1>2, <1>3, <1>4, <1>5

(* The steps that do not.                                                  *)
LEMMA OtherSteps ==
    ASSUME Parts, \/ Observe \/ CreateMap \/ GetMap \/ UpdateMap
                  \/ CheckExists \/ DeleteFromSolr
    PROVE  /\ PassGoesOn
           /\ UNCHANGED <<collection, collectionCache>>
<1>1. w \in Work /\ w.status \in Status
  BY DEF Parts, WorkerInv, Work
<1>2. CASE Observe
  <2>1. /\ pc = "observe"
        /\ UNCHANGED <<collection, collectionCache>>
        /\ GoTo(AfterObserving(ObservedStatus), ObservedStatus)
    BY <1>2, Zenon DEF Observe, ObservedStatus, ReadMap, elsewhere
  <2>2. /\ AfterObserving(ObservedStatus) \in {"status", "getMap", "createMap"}
        /\ ObservedStatus \in Status
    BY <2>1, ObservedFacts
  <2> QED
    BY <1>1, <2>1, <2>2, GoToGoesOn DEF PassGoesOn, EnsureLabels
<1>3. CASE CreateMap
  <2>1. /\ pc = "createMap"
        /\ UNCHANGED <<collection, collectionCache>>
        /\ \/ GoTo("status", w.status)
           \/ GenerateName([w.status EXCEPT !.ConfigMapExists = "Created"], TRUE)
    BY <1>3 DEF CreateMap, elsewhere
  <2> QED
    BY <1>1, <2>1, GoToGoesOn, GenerateNameGoesOn DEF PassGoesOn, EnsureLabels
<1>4. CASE GetMap
  <2>1. /\ pc = "getMap"
        /\ UNCHANGED <<collection, collectionCache>>
        /\ GoTo("status", w.status) \/ GenerateName(w.status, FALSE)
    BY <1>4 DEF GetMap, ReadMap, elsewhere
  <2> QED
    BY <1>1, <2>1, GoToGoesOn, GenerateNameGoesOn DEF PassGoesOn, EnsureLabels
<1>5. CASE UpdateMap
  <2>1. PICK o \in Outcomes :
          GoTo("status", IF Failed(o) THEN w.status ELSE CheckMapStatus(w.status))
    BY <1>5 DEF UpdateMap
  <2>2. /\ pc = "updateMap"
        /\ UNCHANGED <<collection, collectionCache>>
    BY <1>5 DEF UpdateMap, elsewhere
  <2> DEFINE st == IF Failed(o) THEN w.status ELSE CheckMapStatus(w.status)
  <2>3. st \in Status /\ GoTo("status", st)
    BY <1>1, <2>1, CheckMapStatusType
  <2> HIDE DEF st
  <2> QED
    BY <1>1, <2>2, <2>3, GoToGoesOn DEF PassGoesOn, EnsureLabels
<1>6. CASE CheckExists
  <2>1. /\ pc = "checkExists"
        /\ UNCHANGED <<collection, collectionCache>>
        /\ \/ Requeue
           \/ GoTo("deleteCollection", w.status)
           \/ GoTo("removeFinalizer", w.status)
    BY <1>6 DEF CheckExists, kubernetesVars
  <2> QED
    BY <1>1, <2>1, GoToGoesOn, EndGoesOn DEF PassGoesOn
<1>7. CASE DeleteFromSolr
  <2>1. /\ pc = "deleteCollection"
        /\ UNCHANGED <<collection, collectionCache>>
        /\ Requeue \/ GoTo("removeFinalizer", w.status)
    BY <1>7 DEF DeleteFromSolr, kubernetesVars
  <2> QED
    BY <1>1, <2>1, GoToGoesOn, EndGoesOn DEF PassGoesOn
<1> QED
  BY <1>2, <1>3, <1>4, <1>5, <1>6, <1>7

LEMMA PassStepEffect ==
    ASSUME Parts, PassStep
    PROVE  /\ PassGoesOn
           /\ WritesAsItShould
           /\ UNCHANGED collectionCache
<1>1. CASE AddFinalizer \/ InitStatus \/ UpdateStatus \/ RemoveFinalizer
  BY <1>1, WritingSteps
<1>2. CASE \/ Observe \/ CreateMap \/ GetMap \/ UpdateMap
           \/ CheckExists \/ DeleteFromSolr
  BY <1>2, OtherSteps DEF WritesAsItShould
<1> QED
  BY <1>1, <1>2 DEF PassStep

(* A step that changes the stored Collections writes the pass's own, which *)
(* its copy is current of; obj is what it sends.                           *)
WriteOf(obj) ==
    /\ w.key \in collectionHeld
    /\ w.key \in Collections
    /\ collection[w.key] \in CollectionObj
    /\ collection' = [collection EXCEPT ![w.key] = Reaped(obj)]
    /\ collection'[w.key] = Reaped(obj)
    /\ \A c \in Collections \ {w.key} : collection'[c] = collection[c]
    /\ obj.deleting = collection[w.key].deleting
    /\ obj.policy = collection[w.key].policy
    /\ obj.foreign = collection[w.key].foreign
    /\ \/ /\ pc \in {"initStatus", "status"}
          /\ obj.finalizer = collection[w.key].finalizer
          /\ Reaped(obj) = obj
          /\ pc = "initStatus" => obj.status = InitialStatus
          /\ pc = "status" => obj.status = FinalStatus /\ pc' = "idle"
       \/ /\ pc = "addFinalizer"
          /\ obj.finalizer
          /\ Reaped(obj) = obj
          /\ obj.status = collection[w.key].status
       \/ /\ pc = "removeFinalizer"
          /\ pc' = "idle"
          /\ ~obj.finalizer
          /\ obj.status = collection[w.key].status

LEMMA WriteEffect ==
    ASSUME Parts, PassStep, ~UNCHANGED collection
    PROVE  \E obj \in CollectionObj : WriteOf(obj)
<1>1. WritesAsItShould
  BY PassStepEffect
<1>2. w.key \in collectionHeld
  BY <1>1 DEF WritesAsItShould, Written
<1>3. /\ w.key \in Collections /\ collection[w.key] \in CollectionObj
      /\ collection \in [Collections -> CollectionObj \cup {NONE}]
      /\ InitialStatus \in Status /\ FinalStatus \in Status
  BY <1>2, HeldCollection, StatusesType
     DEF Parts, WorkerInv, CollectionStored
<1>4. ASSUME NEW obj, Written(obj)
      PROVE  /\ collection' = [collection EXCEPT ![w.key] = Reaped(obj)]
             /\ collection'[w.key] = Reaped(obj)
             /\ \A c \in Collections \ {w.key} : collection'[c] = collection[c]
  BY <1>3, <1>4 DEF Written
<1>5. CASE pc = "initStatus" /\ Written(WithStatus(InitialStatus))
  <2> DEFINE obj == WithStatus(InitialStatus)
  <2>1. WriteOf(obj) /\ obj \in CollectionObj
    BY <1>2, <1>3, <1>4, <1>5, WithStatusFacts DEF WriteOf
  <2> QED
    BY <2>1
<1>6. CASE pc = "status" /\ Written(WithStatus(FinalStatus)) /\ pc' = "idle"
  <2> DEFINE obj == WithStatus(FinalStatus)
  <2>1. WriteOf(obj) /\ obj \in CollectionObj
    BY <1>2, <1>3, <1>4, <1>6, WithStatusFacts DEF WriteOf
  <2> QED
    BY <2>1
<1>7. CASE pc = "addFinalizer" /\ Written(WithFinalizer(TRUE))
  <2> DEFINE obj == WithFinalizer(TRUE)
  <2>1. WriteOf(obj) /\ obj \in CollectionObj
    BY <1>2, <1>3, <1>4, <1>7, WithFinalizerFacts DEF WriteOf
  <2> QED
    BY <2>1
<1>8. CASE pc = "removeFinalizer" /\ Written(WithFinalizer(FALSE)) /\ pc' = "idle"
  <2> DEFINE obj == WithFinalizer(FALSE)
  <2>1. WriteOf(obj) /\ obj \in CollectionObj
    BY <1>2, <1>3, <1>4, <1>8, WithFinalizerFacts DEF WriteOf
  <2> QED
    BY <2>1
<1> QED
  BY <1>1, <1>5, <1>6, <1>7, <1>8 DEF WritesAsItShould

(* A pass that goes on after addFinalizer leaves the finalizer on.         *)
LEMMA GoesOnWithFinalizer ==
    ASSUME Parts, PassStep, pc = "addFinalizer", pc' # "idle"
    PROVE  w.key \in collectionHeld /\ HasFinalizer(collection'[w.key])
<1>1. AddFinalizer
  BY DEF PassStep, InitStatus, Observe, CreateMap, GetMap, UpdateMap,
         UpdateStatus, CheckExists, DeleteFromSolr, RemoveFinalizer
<1>2. PICK o \in Outcomes :
        /\ WriteCollection(WithFinalizer(TRUE), o)
        /\ ~Failed(o)
  BY <1>1 DEF AddFinalizer, WithFinalizer, Requeue, LeavePass
<1>3. w.key \in collectionHeld /\ Applied(o)
  BY <1>2 DEF WriteCollection, ApiWrite, Failed, Applied
<1>4. /\ collection[w.key] \in CollectionObj /\ w.key \in Collections
      /\ collection \in [Collections -> CollectionObj \cup {NONE}]
      /\ WithFinalizer(TRUE).finalizer
      /\ Reaped(WithFinalizer(TRUE)) = WithFinalizer(TRUE)
      /\ WithFinalizer(TRUE) \in CollectionObj
  BY <1>3, HeldCollection, WithFinalizerFacts DEF Parts, CollectionStored
<1>5. collection'[w.key] = WithFinalizer(TRUE)
  <2>1. CASE WithFinalizer(TRUE) # collection[w.key]
    <3>1. collection' = [collection EXCEPT ![w.key] = Reaped(WithFinalizer(TRUE))]
      BY <1>2, <1>3, <2>1 DEF WriteCollection, PutCollection
    <3> QED
      BY <1>4, <3>1
  <2>2. CASE WithFinalizer(TRUE) = collection[w.key]
    BY <1>2, <2>2 DEF WriteCollection
  <2> QED
    BY <2>1, <2>2
<1> QED
  BY <1>3, <1>4, <1>5, ObjectsAreThere DEF HasFinalizer

(* The labels are what their names say.                                    *)
LEMMA LabelsApart ==
    /\ "idle" \notin EnsureLabels \cup DeleteLabels
    /\ "addFinalizer" \notin EnsureLabels \cup DeleteLabels
    /\ EnsureLabels \cap DeleteLabels = {}
    /\ {"checkExists", "deleteCollection", "removeFinalizer"} = DeleteLabels
    /\ {"initStatus", "observe", "createMap", "getMap", "updateMap", "status"}
         = EnsureLabels
BY DEF EnsureLabels, DeleteLabels

-----------------------------------------------------------------------------
(***************************************************************************)
(* The finalizer follows the deletion, and so does what is deleted.        *)
(***************************************************************************)
FollowsDeletion(c) ==
    /\ (~HasFinalizer(collection[c]) /\ HasFinalizer(collection'[c]))
         => Live(collection[c])
    /\ (HasFinalizer(collection[c]) /\ ~HasFinalizer(collection'[c]))
         => collection[c].deleting

LEMMA PassStepDeletion ==
    ASSUME Parts, DeletionInv, PassStep
    PROVE  DeletionInv' /\ \A c \in Collections : FollowsDeletion(c)
<1>1. PassGoesOn
  BY PassStepEffect
<1>2. CASE UNCHANGED collection
  BY <1>1, <1>2, LabelsApart DEF PassGoesOn, DeletionInv, FollowsDeletion
<1>3. CASE ~UNCHANGED collection
  <2>1. PICK obj \in CollectionObj : WriteOf(obj)
    BY <1>3, WriteEffect
  <2>2. /\ w.key \in collectionHeld
        /\ collection'[w.key] = Reaped(obj)
        /\ \A c \in Collections \ {w.key} : collection'[c] = collection[c]
    BY <2>1 DEF WriteOf
  <2>3. collection[w.key] # NONE /\ obj # NONE
    BY <2>1, ObjectsAreThere DEF WriteOf
  <2>4. \A c \in Collections \ {w.key} : FollowsDeletion(c)
    BY <2>2 DEF FollowsDeletion
  <2>5. FollowsDeletion(w.key)
    <3>1. CASE /\ obj.finalizer = collection[w.key].finalizer
               /\ Reaped(obj) = obj
      BY <2>2, <2>3, <3>1 DEF FollowsDeletion, HasFinalizer
    <3>2. CASE pc = "addFinalizer" /\ obj.finalizer /\ Reaped(obj) = obj
      BY <2>2, <2>3, <3>2 DEF FollowsDeletion, HasFinalizer, DeletionInv
    <3>3. CASE pc = "removeFinalizer" /\ ~obj.finalizer
      <4>1. collection[w.key].deleting
        BY <2>2, <3>3, LabelsApart DEF DeletionInv
      <4>2. ~HasFinalizer(collection'[w.key])
        BY <2>2, <3>3 DEF HasFinalizer, Reaped
      <4> QED
        BY <4>1, <4>2 DEF FollowsDeletion
    <3> QED
      BY <2>1, <3>1, <3>2, <3>3 DEF WriteOf
  <2>6. DeletionInv'
    <3>1. CASE pc' = "idle"
      BY <3>1, LabelsApart DEF DeletionInv
    <3>2. CASE pc' # "idle"
      BY <1>1, <2>1, <2>2, <2>3, <3>2, LabelsApart
         DEF PassGoesOn, DeletionInv, Live, WriteOf
    <3> QED
      BY <3>1, <3>2
  <2> QED
    BY <2>4, <2>5, <2>6
<1> QED
  BY <1>2, <1>3

LEMMA EditedDeletion ==
    ASSUME Parts, DeletionInv, NEW c \in Collections, NEW obj, EditCollection(c, obj),
           UNCHANGED workVars,
           HasFinalizer(obj) <=> HasFinalizer(collection[c])
    PROVE  DeletionInv' /\ \A d \in Collections : FollowsDeletion(d)
<1>1. /\ collection' = [collection EXCEPT ![c] = obj]
      /\ collectionHeld' = collectionHeld \ {c}
      /\ collection \in [Collections -> CollectionObj \cup {NONE}]
      /\ collectionHeld \subseteq Collections
  BY DEF EditCollection, PutCollection, Parts, CollectionStored, WorkerInv
<1>2. \A d \in Collections \ {c} : collection'[d] = collection[d]
  BY <1>1
<1>3. collection'[c] = obj
  BY <1>1
<1>4. \A d \in Collections : FollowsDeletion(d)
  BY <1>2, <1>3 DEF FollowsDeletion
<1>5. DeletionInv'
  BY <1>1, <1>2 DEF DeletionInv, workVars
<1> QED
  BY <1>4, <1>5

LEMMA CollectionEditsDeletion ==
    ASSUME Parts, DeletionInv, NEW c \in Collections, UNCHANGED workVars,
           Apply(c) \/ RequestDelete(c) \/ DropForeign(c) \/ ChangePolicy(c)
    PROVE  DeletionInv' /\ \A d \in Collections : FollowsDeletion(d)
<1>1. CASE Apply(c)
  BY <1>1, EditedDeletion DEF Apply, NewCollection, HasFinalizer
<1>2. CASE ~Apply(c)
  <2>1. PICK obj \in CollectionObj :
          /\ Edited(c, Reaped(obj))
          /\ obj.finalizer = collection[c].finalizer
    BY <1>2, CollectionEdits
  <2>2. HasFinalizer(Reaped(obj)) <=> HasFinalizer(collection[c])
    BY <2>1, ObjectsAreThere DEF HasFinalizer, Reaped, Edited
  <2> QED
    BY <2>1, <2>2, EditedDeletion DEF Edited
<1> QED
  BY <1>1, <1>2

(* Nothing else touches the stored Collections.                            *)
LEMMA OtherEnvironment ==
    ASSUME Environment,
           ~ \E c \in Collections : \/ Apply(c) \/ RequestDelete(c)
                                    \/ DropForeign(c) \/ ChangePolicy(c)
    PROVE  /\ UNCHANGED <<collection, collectionHeld, pc, w>>
           /\ UNCHANGED collectionCache \/ \E c \in Collections : Deliver(c)
BY DEF Environment, Edits, Informers, BringMap, RenameInMap, DropMap, CollectMap,
       EditMap, ApplicationCreates, ApplicationDrops, CloudChange, Deliver,
       Resync, SyncMap, apiVars, collectionVars, workVars

LEMMA NextDeletion ==
    ASSUME Parts, DeletionInv, [Next]_vars
    PROVE  DeletionInv' /\ \A c \in Collections : FollowsDeletion(c)
<1>1. CASE PassStep
  BY <1>1, PassStepDeletion
<1>2. CASE \E c \in Collections : Begin(c)
  <2>1. PICK c \in Collections : Begin(c)
    BY <1>2
  <2>2. /\ w'.key = c /\ UNCHANGED collection
        /\ collectionHeld' = {c} \ collectionLag
        /\ pc' = Route(collectionCache[c])
        /\ collectionCache[c] # NONE
    BY <2>1 DEF Begin, NoWork
  <2>3. c \in collectionHeld' => collectionCache[c] = collection[c]
    BY <2>2 DEF Parts, CollectionStored
  <2> QED
    BY <2>2, <2>3, LabelsApart
       DEF DeletionInv, FollowsDeletion, Route, Retire, Live
<1>3. CASE \/ UNCHANGED vars
           \/ \E c \in Collections : ObjectGone(c) \/ CannotDelete(c)
  <2>1. UNCHANGED <<collection, collectionHeld, pc, w>>
    BY <1>3 DEF ObjectGone, CannotDelete, vars, apiVars, collectionVars, workVars
  <2> QED
    BY <2>1 DEF DeletionInv, FollowsDeletion
<1>4. CASE Environment
  <2>1. CASE \E c \in Collections : \/ Apply(c) \/ RequestDelete(c)
                                    \/ DropForeign(c) \/ ChangePolicy(c)
    BY <1>4, <2>1, CollectionEditsDeletion DEF Environment
  <2>2. CASE UNCHANGED <<collection, collectionHeld, pc, w>>
    BY <2>2 DEF DeletionInv, FollowsDeletion
  <2> QED
    BY <1>4, <2>1, <2>2, OtherEnvironment
<1>5. CASE Crash
  BY <1>5 DEF Crash, Relist, DeletionInv, FollowsDeletion
<1> QED
  BY <1>1, <1>2, <1>3, <1>4, <1>5 DEF Next, Worker, TakeKey

LEMMA InitDeletion == Init => DeletionInv
BY DEF Init, ApiInit, DeletionInv

(***************************************************************************)
(* Spec => FinalizerFollowsDeletion: the finalizer goes on Collections     *)
(* nobody has asked to delete and comes off Collections whose deletion was *)
(* requested, although every pass decides on a cached copy: while its      *)
(* Update would be accepted, the stored Collection is what it took it for. *)
(***************************************************************************)
THEOREM CollectionDeletionIsFollowed == Spec => FinalizerFollowsDeletion
<1>1. Init => TypeInv /\ DeletionInv
  BY InitParts, TypeInvIsParts, InitDeletion
<1>2. TypeInv /\ DeletionInv /\ [Next]_vars => TypeInv' /\ DeletionInv'
  BY NextParts, NextDeletion, TypeInvIsParts, TypeInvIsPartsNext
<1>3. TypeInv /\ DeletionInv /\ [Next]_vars =>
        \A c \in Collections : FollowsDeletion(c)
  BY NextDeletion, TypeInvIsParts
<1>4. TypeInv /\ DeletionInv /\ [Next]_vars =>
        [\A c \in Collections :
           /\ (~HasFinalizer(collection[c]) /\ HasFinalizer(collection'[c]))
                => Live(collection[c])
           /\ (HasFinalizer(collection[c]) /\ ~HasFinalizer(collection'[c]))
                => collection[c].deleting]_vars
  BY <1>3 DEF FollowsDeletion
<1> QED
  BY <1>1, <1>2, <1>4, PTL DEF Spec, FinalizerFollowsDeletion

(* Only one step of the worker takes a collection from Solr.               *)
LEMMA WorkerDeletes ==
    ASSUME [Next]_vars, pc' # pc, inSolr' # inSolr
    PROVE  pc = "deleteCollection"
<1>1. ~Environment /\ ~Crash /\ ~UNCHANGED vars
  BY DEF Environment, workVars, Crash, vars
<1>2. CASE TakeKey
  BY <1>2 DEF TakeKey, ObjectGone, CannotDelete, Begin, vars
<1>3. CASE PassStep
  <2>1. ASSUME NEW obj, NEW o, WriteCollection(obj, o)
        PROVE  FALSE
    BY <2>1 DEF WriteCollection
  <2>2. ~ReadMap
    BY DEF ReadMap, elsewhere
  <2> QED
    BY <1>3, <2>1, <2>2
       DEF PassStep, AddFinalizer, InitStatus, Observe, CreateMap, GetMap,
           UpdateMap, UpdateStatus, CheckExists, ListCollections,
           DeleteFromSolr, RemoveFinalizer, elsewhere
<1> QED
  BY <1>1, <1>2, <1>3 DEF Next, Worker

(***************************************************************************)
(* Spec => DeletesOnlyRetired: Solr loses a collection to the operator     *)
(* only when the stored Collection is being deleted and says so, unless    *)
(* somebody has written to it since the pass read it.                      *)
(***************************************************************************)
THEOREM OnlyRetiredAreDeleted == Spec => DeletesOnlyRetired
<1>1. Init => TypeInv /\ DeletionInv
  BY InitParts, TypeInvIsParts, InitDeletion
<1>2. TypeInv /\ DeletionInv /\ [Next]_vars => TypeInv' /\ DeletionInv'
  BY NextParts, NextDeletion, TypeInvIsParts, TypeInvIsPartsNext
<1>3. TypeInv /\ DeletionInv /\ [Next]_vars =>
        [(WorkerSteps /\ inSolr' # inSolr /\ w.key \in collectionHeld) =>
           collection[w.key].deleting /\ collection[w.key].policy = "delete"]_vars
  BY WorkerDeletes, LabelsApart DEF WorkerSteps, DeletionInv
<1> QED
  BY <1>1, <1>2, <1>3, PTL DEF Spec, DeletesOnlyRetired

=============================================================================
