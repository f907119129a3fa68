---------------------------- MODULE CollectionApi ----------------------------
(***************************************************************************)
(* The Kubernetes side of the collection controller: the stored Collection *)
(* objects and config maps, the caches they are read from, the work queue, *)
(* and everybody else who writes: people, the garbage collector, and the   *)
(* applications that create collections in Solr under the names the        *)
(* config maps tell them.                                                  *)
(*                                                                         *)
(* As in UserApi, xLag is the set of objects whose cached copy is behind,  *)
(* and xHeld the set of those an Update by the worker would be accepted    *)
(* for.  Config maps are cached, because the worker reads them through the *)
(* manager's client, but not watched: a change of one enqueues nothing.    *)
(***************************************************************************)
EXTENDS SolrCollections, ApiServer

CONSTANTS
    Collections,
    Maps,
    MapOf,              \* spec.map; NONE when it names no namespace, which
                        \* is not defaulted: no such config map can exist
    OwnNamespace,       \* Collections in the namespace of their config map
    RemovalPolicy,      \* spec.removalPolicy, as it is first applied
    ForeignFinalizers,  \* Collections with somebody else's finalizer too
    HumanNames,         \* names people choose; no generator comes up with them
    Generate(_)         \* which of a set of unused names a generator of
                        \* random suffixes may come up with

(* The API takes any string; "other" is every one the code does not know.  *)
Policies == {"delete", "retain", "other"}

ASSUME CollectionApiAssumption ==
    /\ NONE \notin Collections
    /\ NONE \notin Maps
    /\ MapOf \in [Collections -> Maps \cup {NONE}]
    /\ HumanNames \subseteq Names
    /\ OwnNamespace \subseteq Collections
    /\ RemovalPolicy \in [Collections -> Policies]
    /\ \A F \in SUBSET Names : Generate(F) \subseteq F

VARIABLES
    collection, collectionCache, collectionLag, collectionHeld,
    configMap, configMapCache, configMapLag, configMapHeld,
    owner,              \* of each config map, the Collection it belongs to
    dangling,           \* config maps whose owner is gone
    cloudKnown,         \* the SolrCloud and its admin secret can be read
    queue               \* the work queue

collectionVars == <<collection, collectionCache, collectionLag, collectionHeld>>
configMapVars  == <<configMap, configMapCache, configMapLag, configMapHeld>>
ownerVars      == <<owner, dangling>>
apiVars == <<collectionVars, configMapVars, ownerVars, cloudKnown, queue>>

-----------------------------------------------------------------------------
TrueReasons ==
    {"Ready", "FoundConfigMap", "ConfigMapHasCollection", "Created",
     "GeneratedCollectionName"}

OtherReasons ==
    {"Reconciling", "NotReady", "ConfigMapDoesNotExist",
     "ConfigMapLookupFailed", "ConfigMapMissingCollection"}

(* A condition that has never been set has no reason.                      *)
ASSUME ReasonsAssumption == NONE \notin TrueReasons \cup OtherReasons

Reasons == TrueReasons \cup OtherReasons \cup {NONE}

IsTrue(reason) == reason \in TrueReasons

Status ==
    [name                   : Names \cup {NONE},
     Available              : Reasons,
     ConfigMapAvailable     : Reasons,
     ConfigMapExists        : Reasons,
     ConfigMapHasCollection : Reasons]

BlankStatus ==
    [name |-> NONE, Available |-> NONE, ConfigMapAvailable |-> NONE,
     ConfigMapExists |-> NONE, ConfigMapHasCollection |-> NONE]

CollectionObj ==
    [deleting : BOOLEAN, finalizer : BOOLEAN, foreign : BOOLEAN,
     policy : Policies, status : Status]

(* A config map by its key collectionName.                                 *)
MapObj == [name : Names \cup {NONE}]

EmptyMap == [name |-> NONE]

ASSUME ObjectAssumption == NONE \notin CollectionObj /\ NONE \notin MapObj

(* A name that Solr, a config map or a status mentions.                    *)
Mentioned(n) ==
    \/ n \in inSolr
    \/ \E m \in Maps : \E obj \in {configMap[m], configMapCache[m]} \ {NONE} :
         obj.name = n
    \/ \E c \in Collections :
         \E obj \in {collection[c], collectionCache[c]} \ {NONE} :
           obj.status.name = n

-----------------------------------------------------------------------------
(* Writes to the API server.                                               *)
PutCollection(c, obj) ==
    /\ collection' = [collection EXCEPT ![c] = obj]
    /\ collectionLag' = collectionLag \cup {c}
    /\ dangling' = IF obj = NONE THEN dangling \cup {m \in Maps : owner[m] = c}
                                 ELSE dangling

PutMap(m, obj) ==
    /\ configMap' = [configMap EXCEPT ![m] = obj]
    /\ configMapLag' = configMapLag \cup {m}

-----------------------------------------------------------------------------
(* Somebody else's writes.  A copy the worker holds is then out of date.   *)
EditCollection(c, obj) ==
    /\ PutCollection(c, obj)
    /\ collectionHeld' = collectionHeld \ {c}
    /\ UNCHANGED <<inSolr, collectionCache, configMapVars, owner, cloudKnown,
                   queue>>

EditMap(m, obj) ==
    /\ PutMap(m, obj)
    /\ configMapHeld' = configMapHeld \ {m}
    /\ IF obj = NONE
         THEN owner' = [owner EXCEPT ![m] = NONE] /\ dangling' = dangling \ {m}
         ELSE UNCHANGED ownerVars
    /\ UNCHANGED <<inSolr, collectionVars, configMapCache, cloudKnown, queue>>

NewCollection(c) ==
    [deleting |-> FALSE, finalizer |-> FALSE,
     foreign |-> c \in ForeignFinalizers, policy |-> RemovalPolicy[c],
     status |-> BlankStatus]

Apply(c) ==
    /\ collection[c] = NONE
    /\ Disrupt("apply")
    /\ EditCollection(c, NewCollection(c))

RequestDelete(c) ==
    /\ Live(collection[c])
    /\ EditCollection(c, Reaped([collection[c] EXCEPT !.deleting = TRUE]))
    /\ Calm

DropForeign(c) ==
    /\ collection[c] # NONE
    /\ collection[c].foreign
    /\ EditCollection(c, Reaped([collection[c] EXCEPT !.foreign = FALSE]))
    /\ Calm

ChangePolicy(c) ==
    /\ collection[c] # NONE
    /\ Disrupt("policy")
    /\ \E p \in Policies \ {collection[c].policy} :
         EditCollection(c, [collection[c] EXCEPT !.policy = p])

(* People know the names they choose, and the one in the status; they do   *)
(* not give the collection of one Collection to another.                   *)
Chosen(m) ==
    LET Others == {configMap[k].name : k \in {k \in Maps \ {m} : configMap[k] # NONE}}
        Named(own) == {collection[c].status.name :
                         c \in {c \in Collections : /\ collection[c] # NONE
                                                    /\ (MapOf[c] = m) = own}}
    IN  {NONE} \cup ((HumanNames \cup Named(TRUE)) \ (Others \cup Named(FALSE)))

(* The config map is supplied by hand, with a name or without.             *)
BringMap(m) ==
    /\ configMap[m] = NONE
    /\ Disrupt("bring")
    /\ \E n \in Chosen(m) : EditMap(m, [name |-> n])

RenameInMap(m) ==
    /\ configMap[m] # NONE
    /\ Disrupt("rename")
    /\ \E n \in Chosen(m) \ {configMap[m].name} : EditMap(m, [name |-> n])

DropMap(m) ==
    /\ configMap[m] # NONE
    /\ Disrupt("dropMap")
    /\ EditMap(m, NONE)

(* The garbage collector.                                                  *)
CollectMap(m) ==
    /\ m \in dangling
    /\ EditMap(m, NONE)
    /\ Calm

CloudChange ==
    /\ Disrupt("cloud")
    /\ cloudKnown' = ~cloudKnown
    /\ UNCHANGED <<inSolr, collectionVars, configMapVars, ownerVars, queue>>

-----------------------------------------------------------------------------
(* An application creates the collection it finds in a config map; one     *)
(* that comes after the Collection has gone, or is about to, is late.      *)
Wanted(m) == \E c \in Collections : MapOf[c] = m /\ Live(collection[c])

ApplicationCreates(m) ==
    /\ configMap[m] # NONE
    /\ configMap[m].name # NONE
    /\ configMap[m].name \notin inSolr
    /\ IF Wanted(m) THEN Calm ELSE Disrupt("lateApplication")
    /\ inSolr' = inSolr \cup {configMap[m].name}
    /\ UNCHANGED apiVars

ApplicationDrops(n) ==
    /\ n \in inSolr
    /\ Disrupt("drop")
    /\ inSolr' = inSolr \ {n}
    /\ UNCHANGED apiVars

-----------------------------------------------------------------------------
(* Informers.                                                              *)
Deliver(c) ==
    /\ c \in collectionLag
    /\ collectionCache' = [collectionCache EXCEPT ![c] = collection[c]]
    /\ collectionLag' = collectionLag \ {c}
    /\ queue' = queue \cup {c}
    /\ Calm
    /\ UNCHANGED <<inSolr, collection, collectionHeld, configMapVars, ownerVars,
                   cloudKnown>>

SyncMap(m) ==
    /\ m \in configMapLag
    /\ configMapCache' = [configMapCache EXCEPT ![m] = configMap[m]]
    /\ configMapLag' = configMapLag \ {m}
    /\ Calm
    /\ UNCHANGED <<inSolr, collectionVars, configMap, configMapHeld, ownerVars,
                   cloudKnown, queue>>

Resync(c) ==
    /\ collectionCache[c] # NONE
    /\ Disrupt("resync")
    /\ queue' = queue \cup {c}
    /\ UNCHANGED <<inSolr, collectionVars, configMapVars, ownerVars, cloudKnown>>

(* A restarted manager lists everything before it starts its workers.      *)
Relist ==
    /\ collectionCache' = collection
    /\ collectionLag' = {}
    /\ collectionHeld' = {}
    /\ configMapCache' = configMap
    /\ configMapLag' = {}
    /\ configMapHeld' = {}
    /\ queue' = {c \in Collections : collection[c] # NONE}
    /\ UNCHANGED <<collection, configMap, ownerVars, cloudKnown>>

-----------------------------------------------------------------------------
(* The Collections have just been applied and there is no config map yet.  *)
ApiInit ==
    /\ inSolr = {}
    /\ collection = [c \in Collections |-> NewCollection(c)]
    /\ collectionCache = [c \in Collections |-> NONE]
    /\ collectionLag = Collections
    /\ collectionHeld = {}
    /\ configMap = [m \in Maps |-> NONE]
    /\ configMapCache = [m \in Maps |-> NONE]
    /\ configMapLag = {}
    /\ configMapHeld = {}
    /\ owner = [m \in Maps |-> NONE]
    /\ dangling = {}
    /\ cloudKnown = TRUE
    /\ queue = {}

ApiTypeOK ==
    /\ inSolr \subseteq Names
    /\ collection \in [Collections -> CollectionObj \cup {NONE}]
    /\ collectionCache \in [Collections -> CollectionObj \cup {NONE}]
    /\ collectionLag \subseteq Collections
    /\ collectionHeld \subseteq Collections
    /\ configMap \in [Maps -> MapObj \cup {NONE}]
    /\ configMapCache \in [Maps -> MapObj \cup {NONE}]
    /\ configMapLag \subseteq Maps
    /\ configMapHeld \subseteq Maps
    /\ owner \in [Maps -> Collections \cup {NONE}]
    /\ dangling \subseteq Maps
    /\ cloudKnown \in BOOLEAN
    /\ queue \subseteq Collections

Edits ==
    \/ \E c \in Collections : RequestDelete(c) \/ DropForeign(c) \/ ChangePolicy(c)
    \/ \E m \in Maps : \/ BringMap(m)
                       \/ RenameInMap(m)
                       \/ DropMap(m)
                       \/ CollectMap(m)
                       \/ ApplicationCreates(m)
    \/ \E n \in Names : ApplicationDrops(n)
    \/ CloudChange

Informers ==
    \/ \E c \in Collections : Deliver(c) \/ Resync(c)
    \/ \E m \in Maps : SyncMap(m)
=============================================================================
