--------------------------- MODULE UserController ---------------------------
(***************************************************************************)
(* internal/controller/user_controller.go: the reconciler of User objects, *)
(* one worker (MaxConcurrentReconciles is left at its default of 1) whose  *)
(* passes are cut at every request to the API server or to Solr.           *)
(*                                                                         *)
(* pc names the request the worker makes next; what the code computes      *)
(* between two requests belongs to the step of the earlier one.  w is the  *)
(* pass's local state: the key, the ensure_exists_state argument, the      *)
(* local copy of the status (status.username included), the SolrCloud's    *)
(* endpoint, the local copy of the secret with its dirty flag, and the     *)
(* roles UpsertRoles read.                                                 *)
(***************************************************************************)
EXTENDS UserApi

VARIABLES pc, w

workVars == <<pc, w>>
vars == <<spent, solrVars, apiVars, workVars>>

EnsureLabels ==
    {"addFinalizer", "initStatus", "createSecret", "createUser", "updateUser",
     "getRoles", "upsertRoles", "updateSecret", "okStatus", "failStatus"}

DeleteLabels == {"deleteRoles", "deleteUser", "removeFinalizer"}

SharedLabels == {"getSecret", "checkExistence", "checkUser", "hasRoles"}

Labels == {"idle"} \cup EnsureLabels \cup DeleteLabels \cup SharedLabels

Work ==
    [key      : Users \cup {NONE},
     ensure   : BOOLEAN,
     status   : Status,
     endpoint : Endpoints \cup {NONE},
     secret   : SecretObj \cup {NONE},
     dirty    : BOOLEAN,
     roles    : SUBSET Roles]

NoWork ==
    [key |-> NONE, ensure |-> TRUE, status |-> BlankStatus, endpoint |-> NONE,
     secret |-> NONE, dirty |-> FALSE, roles |-> {}]

OneSecretForAll == CHOOSE s \in Secrets : TRUE

S == SecretOf[w.key]

(* creds.Username and creds.Password.  The status is the fallback for the  *)
(* name; when there is a secret to fill, reconcileSecret has given it a    *)
(* name of its own by the time the name is used.                           *)
Username == IF w.secret # NONE THEN w.secret.username ELSE w.status.username
PasswordMixedUp == IF w.secret # NONE THEN w.secret.username ELSE NONE

Password == IF w.secret # NONE THEN w.secret.password ELSE NONE

-----------------------------------------------------------------------------
(* How a pass ends and where it goes next.                                 *)
LeavePass ==
    /\ pc' = "idle"
    /\ w' = NoWork
    /\ userHeld' = {}
    /\ secretHeld' = {}

Done    == LeavePass /\ UNCHANGED queue

Requeue == LeavePass /\ queue' = queue \cup {w.key}

GoTo(label, st) ==
    /\ pc' = label
    /\ w' = [w EXCEPT !.status = st]
    /\ UNCHANGED <<userHeld, secretHeld, queue>>

FailSwallowed(st)  == IF w.ensure THEN GoTo("okStatus", st) ELSE Requeue
FailGoesOn(st) ==
    IF w.ensure THEN GoTo("failStatus", st) ELSE GoTo("removeFinalizer", st)
FailGivesUp(st) == IF w.ensure THEN GoTo("failStatus", st) ELSE Done

(* reconcileUser returned an error.                                        *)
Fail(st) == IF w.ensure THEN GoTo("failStatus", st) ELSE Requeue

(* Reconcile's choice on the object it read: a deleted object goes to the  *)
(* deleting branch only while it has our finalizer.                        *)
Ensures(obj) == ~(obj.deleting /\ obj.finalizer)

RouteToSecret(obj) == "getSecret"
RouteIgnoresDeletion(obj) ==
    IF ~obj.finalizer THEN "addFinalizer" ELSE "getSecret"

Route(obj) ==
    IF ~obj.deleting /\ ~obj.finalizer THEN "addFinalizer" ELSE "getSecret"

AfterRolesInverted == IF w.dirty THEN "okStatus" ELSE "updateSecret"

AfterRoles == IF w.dirty THEN "updateSecret" ELSE "okStatus"

SecretBeforeRoles(st) ==
    IF w.dirty \/ IsTrue(st.HasRoles) THEN AfterRoles ELSE "getRoles"

AfterUser(st) == IF IsTrue(st.HasRoles) THEN AfterRoles ELSE "getRoles"

AfterRevokeInverted(st) ==
    IF IsTrue(st.Exists) THEN "removeFinalizer" ELSE "deleteUser"

AfterRevoke(st) == IF IsTrue(st.Exists) THEN "deleteUser" ELSE "removeFinalizer"

(* The username is noted in the status once the account is known to exist. *)
Noted(st) == [st EXCEPT !.username = Username]

-----------------------------------------------------------------------------
(* Reconcile, up to its first write.                                       *)
ObjectGone(u) ==
    /\ pc = "idle"
    /\ u \in queue
    /\ userCache[u] = NONE
    /\ queue' = queue \ {u}
    /\ Calm
    /\ UNCHANGED <<solrVars, userVars, secretVars, cloudVars, workVars>>

(* getClient needs the SolrCloud and its admin secret whatever the pass is *)
(* for; without them the key goes back to the queue.                       *)
NoClient(u) ==
    /\ pc = "idle"
    /\ u \in queue
    /\ userCache[u] # NONE
    /\ cloudCache = NONE
    /\ UNCHANGED vars

Begin(u) ==
    /\ pc = "idle"
    /\ u \in queue
    /\ userCache[u] # NONE
    /\ cloudCache # NONE
    /\ IF cloudCache = cloud THEN Calm ELSE Disrupt("stale")
    /\ queue' = queue \ {u}
    /\ userHeld' = {u} \ userLag
    /\ pc' = Route(userCache[u])
    /\ w' = [NoWork EXCEPT !.key = u,
                           !.ensure = Ensures(userCache[u]),
                           !.status = userCache[u].status,
                           !.endpoint = cloudCache]
    /\ UNCHANGED <<solrVars, user, userCache, userLag, secretVars, cloudVars>>

(* Writes to the User.  A status update leaves the rest of the object      *)
(* alone, an update leaves the status alone; one that changes nothing      *)
(* makes no new version.                                                   *)
WriteUser(obj, o) ==
    /\ ApiWrite(w.key \in userHeld, o)
    /\ IF Applied(o) /\ obj # user[w.key]
         THEN PutUser(w.key, Reaped(obj))
         ELSE UNCHANGED <<user, userLag>>
    /\ UNCHANGED <<solrVars, userCache, secret, secretCache, secretLag,
                   secretEvent, cloudVars>>

AddFinalizer ==
    /\ pc = "addFinalizer"
    /\ \E o \in Outcomes :
         /\ WriteUser([user[w.key] EXCEPT !.finalizer = TRUE], o)
         /\ IF Failed(o) THEN Requeue ELSE GoTo("initStatus", w.status)

InitStatus ==
    /\ pc = "initStatus"
    /\ LET st == [w.status EXCEPT !.Available = "Reconciling",
                                  !.Exists = "Reconciling",
                                  !.HasRoles = "Reconciling",
                                  !.PasswordUpToDate = "Reconciling"]
       IN  \E o \in Outcomes :
             /\ WriteUser([user[w.key] EXCEPT !.status = st], o)
             /\ IF Failed(o) THEN Requeue ELSE GoTo("getSecret", st)

OkStatus ==
    /\ pc = "okStatus"
    /\ LET st == [w.status EXCEPT !.Available = "ReconcileSuccess"]
       IN  \E o \in Outcomes :
             /\ WriteUser([user[w.key] EXCEPT !.status = st], o)
             /\ IF Failed(o) THEN Requeue ELSE Done

FailStatus ==
    /\ pc = "failStatus"
    /\ LET st == [w.status EXCEPT !.Available = "ReconciliationFailed"]
       IN  \E o \in Outcomes :
             /\ WriteUser([user[w.key] EXCEPT !.status = st], o)
             /\ Requeue

RemoveFinalizer ==
    /\ pc = "removeFinalizer"
    /\ \E o \in Outcomes :
         /\ WriteUser([user[w.key] EXCEPT !.finalizer = FALSE], o)
         /\ IF Failed(o) THEN Requeue ELSE Done

-----------------------------------------------------------------------------
(* getSecret, getCredentialsFromSecret and reconcileSecret.                *)

(* A new name carries the user's namespace and name and a random suffix.   *)
(* One that is mentioned nowhere any more is as good as one never made.    *)
Fresh ==
    {n \in Names : /\ OwnerOf[n] = w.key
                   /\ ~Mentioned(n)
                   /\ n # w.status.username}

NewPassword(sec) ==
    [username : IF sec.username = NONE THEN Generate(Fresh) ELSE {sec.username},
     password : Passwords,
     endpoint : {w.endpoint}]

(* The secret with its missing keys filled in.  The status's username is   *)
(* not consulted, and a password is any.                                   *)
Fillings(sec) ==
    [username : IF sec.username = NONE THEN Generate(Fresh) ELSE {sec.username},
     password : IF sec.password = NONE THEN Passwords ELSE {sec.password},
     endpoint : {w.endpoint}]

SecretStatus(st, sec, how) ==
    [st EXCEPT
       !.SecretExists = how,
       !.SecretUsername = IF sec.username = NONE THEN "GeneratedUsername"
                          ELSE "InSecret",
       !.SecretPassword = IF sec.password = NONE THEN "GeneratedPassword"
                          ELSE "InSecret",
       !.SecretEndpoint = IF sec.endpoint # w.endpoint THEN "SetEndpoint"
                          ELSE "EndpointAlreadySet",
       !.SecretAvailable = "Ready"]

ReconcileSecret(sec, how) ==
    \E filled \in Fillings(sec) :
      /\ w' = [w EXCEPT !.secret = filled,
                        !.dirty = filled # sec,
                        !.status = SecretStatus(w.status, sec, how)]
      /\ pc' = "checkExistence"

WithoutSecretFails(st) ==
    IF w.ensure THEN GoTo("createSecret", st) ELSE Fail(st)

(* Without a secret an ensuring pass goes on to create it and a deleting   *)
(* pass goes on without.                                                   *)
WithoutSecret(st) ==
    GoTo(IF w.ensure THEN "createSecret" ELSE "checkExistence", st)

(* Get of the secret, from the cache.                                      *)
GetSecret ==
    /\ pc = "getSecret"
    /\ IF S \in secretLag THEN Disrupt("stale") ELSE Calm
    /\ \/ /\ secretCache[S] # NONE
          /\ ReconcileSecret(secretCache[S], "Exists")
          /\ secretHeld' = {S} \ secretLag
          /\ UNCHANGED <<userHeld, queue>>
       \/ /\ secretCache[S] = NONE
          /\ WithoutSecret([w.status EXCEPT !.SecretExists = "FailedLoad"])
    /\ UNCHANGED <<solrVars, user, userCache, userLag, secret, secretCache,
                   secretLag, secretEvent, cloudVars>>

(* Create does not overwrite: a secret the cache has not shown yet is an   *)
(* AlreadyExists error.                                                    *)
CreateSecret ==
    /\ pc = "createSecret"
    /\ \E o \in Outcomes :
         /\ ApiWrite(secret[S] = NONE, o)
         /\ IF Applied(o) THEN PutSecret(S, EmptySecret)
                          ELSE UNCHANGED <<secret, secretLag, secretEvent>>
         /\ \/ /\ Failed(o)
               /\ Fail([w.status EXCEPT !.SecretExists = "FailedCreation"])
            \/ /\ ~Failed(o)
               /\ ReconcileSecret(EmptySecret, "Created")
               /\ secretHeld' = {S}
               /\ UNCHANGED <<userHeld, queue>>
    /\ UNCHANGED <<solrVars, user, userCache, userLag, secretCache, cloudVars>>

-----------------------------------------------------------------------------
(* reconcileObserveUser: three GETs.                                       *)
kubernetesVars ==
    <<user, userCache, userLag, secret, secretCache, secretLag, secretEvent,
      cloudVars>>

CheckExistence ==
    /\ pc = "checkExistence"
    /\ \/ GetFails /\ Fail(w.status)
       \/ /\ GetWorks
          /\ IF CheckUserExistence(Username)
               THEN GoTo("checkUser",
                         [w.status EXCEPT !.Exists = "UserInConfig"])
               ELSE GoTo("hasRoles",
                         [w.status EXCEPT !.Exists = "UserNotInConfig",
                                          !.PasswordUpToDate = "UserNotInConfig"])
    /\ UNCHANGED kubernetesVars

CheckPassword ==
    /\ pc = "checkUser"
    /\ \/ GetFails /\ Fail([w.status EXCEPT !.PasswordUpToDate = "Error"])
       \/ /\ GetWorks
          /\ GoTo("hasRoles",
                  [w.status EXCEPT !.PasswordUpToDate =
                     IF CheckUser(Username, Password) THEN "PasswordUpToDate"
                     ELSE "PasswordDifferent"])
    /\ UNCHANGED kubernetesVars

(* What reconcileUser does about what it has observed.                     *)
Ensure(st) ==
    IF ~IsTrue(st.Exists) THEN GoTo("createUser", st)
    ELSE IF ~IsTrue(st.PasswordUpToDate) THEN GoTo("updateUser", st)
    ELSE GoTo(AfterUser(st), Noted(st))

Revoke(st) ==
    GoTo(IF IsTrue(st.HasRoles) THEN "deleteRoles" ELSE AfterRevoke(st), st)

CheckRoles ==
    /\ pc = "hasRoles"
    /\ \/ GetFails /\ Fail(w.status)
       \/ /\ GetWorks
          /\ LET st == [w.status EXCEPT !.HasRoles =
                          IF HasRoles(Username) THEN "UserHasRoles"
                          ELSE "UserMissingRoles"]
             IN  IF w.ensure THEN Ensure(st) ELSE Revoke(st)
    /\ UNCHANGED kubernetesVars

-----------------------------------------------------------------------------
(* The writes of an ensuring pass, in their order: the account, its roles, *)
(* and last the secret that tells about it.                                *)
EnsureUser ==
    /\ pc = "createUser"
    /\ \E o \in Outcomes :
         /\ CreateUser(Username, Password, o)
         /\ LET st == [w.status EXCEPT !.Exists = "CreateUser",
                                       !.PasswordUpToDate = "CreateUser"]
            IN  IF Failed(o) THEN Fail(w.status)
                             ELSE GoTo(AfterUser(st), Noted(st))
    /\ UNCHANGED kubernetesVars

UpdatePassword ==
    /\ pc = "updateUser"
    /\ \E o \in Outcomes :
         /\ CreateUser(Username, Password, o)
         /\ LET st == [w.status EXCEPT !.PasswordUpToDate = "UpdatedPassword"]
            IN  IF Failed(o)
                  THEN Fail([w.status EXCEPT
                               !.PasswordUpToDate = "FailedPasswordCheck"])
                  ELSE GoTo(AfterUser(st), Noted(st))
    /\ UNCHANGED kubernetesVars

GetRoles ==
    /\ pc = "getRoles"
    /\ \/ GetFails /\ Fail(w.status)
       \/ /\ GetWorks
          /\ pc' = "upsertRoles"
          /\ w' = [w EXCEPT !.roles = roles[Username]]
          /\ UNCHANGED <<userHeld, secretHeld, queue>>
    /\ UNCHANGED kubernetesVars

UpsertRoles ==
    /\ pc = "upsertRoles"
    /\ \E o \in Outcomes :
         /\ SetRoles(Username, w.roles \cup DefaultRoles, o)
         /\ IF Failed(o)
              THEN Fail(w.status)
              ELSE GoTo(AfterRoles, [w.status EXCEPT !.HasRoles = "AddededRoles"])
    /\ UNCHANGED kubernetesVars

(* A failure to update the secret is logged and otherwise ignored.         *)
UpdateSecret ==
    /\ pc = "updateSecret"
    /\ \E o \in Outcomes :
         /\ ApiWrite(S \in secretHeld, o)
         /\ IF Applied(o) THEN PutSecret(S, w.secret)
                          ELSE UNCHANGED <<secret, secretLag, secretEvent>>
    /\ GoTo("okStatus", w.status)
    /\ UNCHANGED <<solrVars, user, userCache, userLag, secretCache, cloudVars>>

-----------------------------------------------------------------------------
(* The writes of a deleting pass.                                          *)
RevokeRoles ==
    /\ pc = "deleteRoles"
    /\ \E o \in Outcomes :
         /\ DeleteRoles(Username, o)
         /\ IF Failed(o) THEN Fail(w.status)
                         ELSE GoTo(AfterRevoke(w.status), w.status)
    /\ UNCHANGED kubernetesVars

RevokeUser ==
    /\ pc = "deleteUser"
    /\ \E o \in Outcomes :
         /\ DeleteUser(Username, o)
         /\ IF Failed(o) THEN Fail(w.status)
                         ELSE GoTo("removeFinalizer", w.status)
    /\ UNCHANGED kubernetesVars

-----------------------------------------------------------------------------
(* The manager's process dies and is started again, at any point of a pass. *)
Crash ==
    /\ Disrupt("crash")
    /\ pc' = "idle"
    /\ w' = NoWork
    /\ Relist
    /\ UNCHANGED solrVars

-----------------------------------------------------------------------------
Init ==
    /\ spent = 0
    /\ SolrInit
    /\ ApiInit
    /\ pc = "idle"
    /\ w = NoWork

TakeKey == \E u \in Users : ObjectGone(u) \/ NoClient(u) \/ Begin(u)

(* The step the worker makes next in the pass it is in.                    *)
PassStep ==
    \/ AddFinalizer
    \/ InitStatus
    \/ GetSecret
    \/ CreateSecret
    \/ CheckExistence
    \/ CheckPassword
    \/ CheckRoles
    \/ EnsureUser
    \/ UpdatePassword
    \/ GetRoles
    \/ UpsertRoles
    \/ UpdateSecret
    \/ OkStatus
    \/ FailStatus
    \/ RevokeRoles
    \/ RevokeUser
    \/ RemoveFinalizer

Worker == TakeKey \/ PassStep

Environment ==
    /\ \/ UserEdits
       \/ Informers
       \/ SolrDrift /\ UNCHANGED apiVars
    /\ UNCHANGED workVars

Next == Worker \/ Environment \/ Crash

Spec == Init /\ [][Next]_vars

(***************************************************************************)
(* Fairness.  The worker goroutine runs its handler to the end, which      *)
(* supposes that servers answer: the HTTP client has no timeout.  The work *)
(* queue never forgets a key and serves keys in turn, and informers        *)
(* deliver.  Nothing is assumed of people, of disruptions, or of the       *)
(* ten-hour resync.                                                        *)
(***************************************************************************)
Fairness ==
    /\ WF_vars(PassStep)
    /\ \A u \in Users : /\ WF_vars(ObjectGone(u))
                        /\ SF_vars(Begin(u))
                        /\ WF_vars(Deliver(u) /\ UNCHANGED workVars)
    /\ \A s \in Secrets :
         /\ WF_vars(SyncSecret(s) /\ UNCHANGED workVars)
         /\ WF_vars(DeliverSecretEvent(s) /\ UNCHANGED workVars)
    /\ WF_vars(SyncCloud /\ UNCHANGED workVars)
    /\ WF_vars(DeliverCloudEvent /\ UNCHANGED workVars)

FairSpec == Spec /\ Fairness
=============================================================================
