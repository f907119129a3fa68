------------------------------ MODULE UserApi -------------------------------
(***************************************************************************)
(* The Kubernetes side of the user controller: the stored User and Secret  *)
(* objects and the SolrCloud, the caches the manager's client reads from,  *)
(* the events that fill the work queue, and everybody else who edits those *)
(* objects.                                                                *)
(*                                                                         *)
(* Resource versions are not counted.  What the code depends on is whether *)
(* a copy is still at the stored version, and that is a set of objects:    *)
(*   xLag   the cache's copy is behind the stored object,                  *)
(*   xHeld  the copy the worker took is at the stored version, so that an  *)
(*          Update sent with it is accepted.                               *)
(* A cache that is behind catches up in one step: the versions in between  *)
(* are skipped.                                                            *)
(***************************************************************************)
EXTENDS SolrClient, ApiServer

CONSTANTS
    Users,
    Secrets,
    SecretOf,           \* [Users -> Secrets]: spec.secret after getNamespace
    NsExplicit,         \* users whose references name their namespace
    ForeignFinalizers,  \* users that carry somebody else's finalizer too
    Endpoints,          \* internal URLs the SolrCloud may have
    OwnerOf,            \* [Names -> Users \cup {"human"}]: the user whose
                        \* namespace and name a generated username carries
    Generate(_)         \* which of a set of unused names a generator of
                        \* random suffixes may come up with

ASSUME UserApiAssumption ==
    /\ NONE \notin Users
    /\ NONE \notin Secrets
    /\ NONE \notin Endpoints
    /\ SecretOf \in [Users -> Secrets]
    /\ NsExplicit \subseteq Users
    /\ OwnerOf \in [Names -> Users \cup {"human"}]
    /\ "human" \notin Users
    /\ \A F \in SUBSET Names : Generate(F) \subseteq F

VARIABLES
    user, userCache, userLag, userHeld,
    secret, secretCache, secretLag, secretHeld,
    secretEvent,        \* secrets with an undelivered metadata event
    cloud, cloudCache,  \* its endpoint; NONE: no SolrCloud or admin secret
    cloudEvent,         \* TRUE: an undelivered metadata event
    queue               \* the work queue

userVars   == <<user, userCache, userLag, userHeld>>
secretVars == <<secret, secretCache, secretLag, secretHeld, secretEvent>>
cloudVars  == <<cloud, cloudCache, cloudEvent>>
apiVars    == <<userVars, secretVars, cloudVars, queue>>

-----------------------------------------------------------------------------
(* A condition of the status is its reason; a reason says which of True,   *)
(* False and Unknown the condition is.                                     *)
TrueReasons ==
    {"ReconcileSuccess", "Exists", "Created", "Ready", "InSecret",
     "GeneratedUsername", "GeneratedPassword", "SetEndpoint",
     "EndpointAlreadySet", "UserInConfig", "CreateUser", "UpdatedPassword",
     "PasswordUpToDate", "UserHasRoles", "AddededRoles"}

OtherReasons ==
    {"Reconciling", "ReconciliationFailed", "FailedLoad", "FailedCreation",
     "NotInSecret", "Error", "PasswordDifferent", "UserNotInConfig",
     "FailedPasswordCheck", "UserMissingRoles"}

(* A condition that has never been set has no reason.                      *)
ASSUME ReasonsAssumption == NONE \notin TrueReasons \cup OtherReasons

Reasons == TrueReasons \cup OtherReasons \cup {NONE}

IsTrue(reason) == reason \in TrueReasons

(* SecretEndpoint stands for SecretEndpointHostname too: the host name is  *)
(* a function of the endpoint and is checked and set along with it.        *)
Status ==
    [username         : Names \cup {NONE},
     Available        : Reasons,
     Exists           : Reasons,
     PasswordUpToDate : Reasons,
     HasRoles         : Reasons,
     SecretExists     : Reasons,
     SecretUsername   : Reasons,
     SecretPassword   : Reasons,
     SecretEndpoint   : Reasons,
     SecretAvailable  : Reasons]

BlankStatus ==
    [username |-> NONE, Available |-> NONE, Exists |-> NONE,
     PasswordUpToDate |-> NONE, HasRoles |-> NONE, SecretExists |-> NONE,
     SecretUsername |-> NONE, SecretPassword |-> NONE,
     SecretEndpoint |-> NONE, SecretAvailable |-> NONE]

UserObj ==
    [deleting : BOOLEAN, finalizer : BOOLEAN, foreign : BOOLEAN,
     status : Status]

SecretObj ==
    [username : Names \cup {NONE},
     password : Passwords \cup {NONE},
     endpoint : Endpoints \cup {NONE}]

ASSUME ObjectAssumption == NONE \notin UserObj /\ NONE \notin SecretObj

EmptySecret == [username |-> NONE, password |-> NONE, endpoint |-> NONE]

(* A name that Solr, a secret or a status mentions.                        *)
Mentioned(n) ==
    \/ account[n] # NONE \/ roles[n] # {}
    \/ \E s \in Secrets : \E sec \in {secret[s], secretCache[s]} \ {NONE} :
         sec.username = n
    \/ \E u \in Users : \E obj \in {user[u], userCache[u]} \ {NONE} :
         obj.status.username = n

-----------------------------------------------------------------------------
(* Writes to the API server.                                               *)
PutUser(u, obj) ==
    /\ user' = [user EXCEPT ![u] = obj]
    /\ userLag' = userLag \cup {u}

PutSecret(s, obj) ==
    /\ secret' = [secret EXCEPT ![s] = obj]
    /\ secretLag' = secretLag \cup {s}
    /\ secretEvent' = secretEvent \cup {s}

-----------------------------------------------------------------------------
(* Somebody else's writes.  A copy the worker holds is then out of date.   *)
EditUser(u, obj) ==
    /\ PutUser(u, obj)
    /\ userHeld' = userHeld \ {u}
    /\ UNCHANGED <<solrVars, userCache, secretVars, cloudVars, queue>>

EditSecret(s, obj) ==
    /\ PutSecret(s, obj)
    /\ secretHeld' = secretHeld \ {s}
    /\ UNCHANGED <<solrVars, userVars, secretCache, cloudVars, queue>>

NewUser(u) ==
    [deleting |-> FALSE, finalizer |-> FALSE,
     foreign |-> u \in ForeignFinalizers, status |-> BlankStatus]

Apply(u) ==
    /\ user[u] = NONE
    /\ Disrupt("apply")
    /\ EditUser(u, NewUser(u))

RequestDelete(u) ==
    /\ Live(user[u])
    /\ EditUser(u, Reaped([user[u] EXCEPT !.deleting = TRUE]))
    /\ Calm

DropForeign(u) ==
    /\ user[u] # NONE
    /\ user[u].foreign
    /\ EditUser(u, Reaped([user[u] EXCEPT !.foreign = FALSE]))
    /\ Calm

RotatePassword(s) ==
    /\ secret[s] # NONE
    /\ Disrupt("rotate")
    /\ \E p \in Passwords \ {secret[s].password} :
         EditSecret(s, [secret[s] EXCEPT !.password = p])

(* A key is removed from the secret, say by applying a manifest without it. *)
StripSecret(s) ==
    /\ secret[s] # NONE
    /\ Disrupt("strip")
    /\ \E key \in {"username", "password"} :
         /\ secret[s][key] # NONE
         /\ EditSecret(s, [secret[s] EXCEPT ![key] = NONE])

(* By hand, or by the garbage collector: a secret the operator created is  *)
(* owned by the User it was created for.                                   *)
DropSecret(s) ==
    /\ secret[s] # NONE
    /\ Disrupt("dropSecret")
    /\ EditSecret(s, NONE)

(* The secret is supplied by hand, with some of its keys or none.          *)
BringSecret(s) ==
    /\ secret[s] = NONE
    /\ Disrupt("bring")
    /\ \E n \in {NONE} \cup {m \in Names : OwnerOf[m] = "human"},
          p \in {NONE} \cup Passwords :
         EditSecret(s, [EmptySecret EXCEPT !.username = n, !.password = p])

(* The SolrCloud changes its address, goes away, or comes (back).          *)
CloudChange ==
    /\ Disrupt("cloud")
    /\ \E e \in (Endpoints \cup {NONE}) \ {cloud} : cloud' = e
    /\ cloudEvent' = TRUE
    /\ UNCHANGED <<solrVars, userVars, secretVars, cloudCache, queue>>

-----------------------------------------------------------------------------
(* Informers.  The typed User informer both refreshes the cache and        *)
(* enqueues.  Secrets and the SolrCloud are watched by metadata-only       *)
(* informers, which enqueue, while Get is served by typed informers of     *)
(* their own, which do not: either may be ahead of the other.              *)
Deliver(u) ==
    /\ u \in userLag
    /\ userCache' = [userCache EXCEPT ![u] = user[u]]
    /\ userLag' = userLag \ {u}
    /\ queue' = queue \cup {u}
    /\ Calm
    /\ UNCHANGED <<solrVars, user, userHeld, secretVars, cloudVars>>

SyncSecret(s) ==
    /\ s \in secretLag
    /\ secretCache' = [secretCache EXCEPT ![s] = secret[s]]
    /\ secretLag' = secretLag \ {s}
    /\ Calm
    /\ UNCHANGED <<solrVars, userVars, secret, secretHeld, secretEvent,
                   cloudVars, queue>>

SyncCloud ==
    /\ cloudCache # cloud
    /\ cloudCache' = cloud
    /\ Calm
    /\ UNCHANGED <<solrVars, userVars, secretVars, cloud, cloudEvent, queue>>

WatchingNothing(s) == {}

(* The two mapping functions compare the namespace written in the          *)
(* reference, which is empty when the user left it to default.             *)
Watching(s) == {u \in NsExplicit : userCache[u] # NONE /\ SecretOf[u] = s}

WatchingCloudNot == {}

WatchingCloud == {u \in NsExplicit : userCache[u] # NONE}

DeliverSecretEvent(s) ==
    /\ s \in secretEvent
    /\ secretEvent' = secretEvent \ {s}
    /\ queue' = queue \cup Watching(s)
    /\ Calm
    /\ UNCHANGED <<solrVars, userVars, secret, secretCache, secretLag,
                   secretHeld, cloudVars>>

DeliverCloudEvent ==
    /\ cloudEvent
    /\ cloudEvent' = FALSE
    /\ queue' = queue \cup WatchingCloud
    /\ Calm
    /\ UNCHANGED <<solrVars, userVars, secretVars, cloud, cloudCache>>

(* The informers replay what they hold every ten hours; a model counts     *)
(* that as a disruption to keep it from happening all the time.            *)
Resync(u) ==
    /\ userCache[u] # NONE
    /\ Disrupt("resync")
    /\ queue' = queue \cup {u}
    /\ UNCHANGED <<solrVars, userVars, secretVars, cloudVars>>

(* A restarted manager lists everything before it starts its workers.      *)
Relist ==
    /\ userCache' = user
    /\ userLag' = {}
    /\ userHeld' = {}
    /\ secretCache' = secret
    /\ secretLag' = {}
    /\ secretHeld' = {}
    /\ secretEvent' = {}
    /\ cloudCache' = cloud
    /\ cloudEvent' = FALSE
    /\ queue' = {u \in Users : user[u] # NONE}
    /\ UNCHANGED <<user, secret, cloud>>

-----------------------------------------------------------------------------
(* The users have just been applied, no secret exists, and the SolrCloud   *)
(* is up and known.                                                        *)
ApiInit ==
    /\ user = [u \in Users |-> NewUser(u)]
    /\ userCache = [u \in Users |-> NONE]
    /\ userLag = Users
    /\ userHeld = {}
    /\ secret = [s \in Secrets |-> NONE]
    /\ secretCache = [s \in Secrets |-> NONE]
    /\ secretLag = {}
    /\ secretHeld = {}
    /\ secretEvent = {}
    /\ cloud \in Endpoints
    /\ cloudCache = cloud
    /\ cloudEvent = FALSE
    /\ queue = {}

ApiTypeOK ==
    /\ user \in [Users -> UserObj \cup {NONE}]
    /\ userCache \in [Users -> UserObj \cup {NONE}]
    /\ userLag \subseteq Users
    /\ userHeld \subseteq Users
    /\ secret \in [Secrets -> SecretObj \cup {NONE}]
    /\ secretCache \in [Secrets -> SecretObj \cup {NONE}]
    /\ secretLag \subseteq Secrets
    /\ secretHeld \subseteq Secrets
    /\ secretEvent \subseteq Secrets
    /\ cloud \in Endpoints \cup {NONE}
    /\ cloudCache \in Endpoints \cup {NONE}
    /\ cloudEvent \in BOOLEAN
    /\ queue \subseteq Users

UserEdits ==
    \/ \E u \in Users : Apply(u) \/ RequestDelete(u) \/ DropForeign(u)
    \/ \E s \in Secrets : \/ RotatePassword(s)
                          \/ StripSecret(s)
                          \/ DropSecret(s)
                          \/ BringSecret(s)
    \/ CloudChange

Informers ==
    \/ \E u \in Users : Deliver(u) \/ Resync(u)
    \/ \E s \in Secrets : SyncSecret(s) \/ DeliverSecretEvent(s)
    \/ SyncCloud
    \/ DeliverCloudEvent
=============================================================================
