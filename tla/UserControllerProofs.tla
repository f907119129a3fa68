------------------------ MODULE UserControllerProofs ------------------------
(***************************************************************************)
(* Theorems about UserController, for any numbers of users, secrets, names *)
(* and disruptions.                                                        *)
(***************************************************************************)
EXTENDS UserRequirements, TLAPS

-----------------------------------------------------------------------------
(* The pieces the actions are put together from.                           *)

(* A disruption is counted and never exceeds the bound.                    *)
LEMMA SpentType ==
    ASSUME spent \in 0 .. MaxDisruptions,
           \/ Calm
           \/ \E kind : Disrupt(kind)
    PROVE  spent' \in 0 .. MaxDisruptions
BY DisruptionsAssumption, SMT DEF Calm, Disrupt

LEMMA PostType ==
    ASSUME NEW o, spent \in 0 .. MaxDisruptions, Post(o)
    PROVE  spent' \in 0 .. MaxDisruptions
BY SpentType DEF Post

(* Every status update of the code yields a status.                        *)
LEMMA StatusType ==
    ASSUME NEW st \in Status, NEW r \in Reasons
    PROVE  /\ [st EXCEPT !.Available = r] \in Status
           /\ [st EXCEPT !.Exists = r] \in Status
           /\ [st EXCEPT !.PasswordUpToDate = r] \in Status
           /\ [st EXCEPT !.HasRoles = r] \in Status
           /\ [st EXCEPT !.SecretExists = r] \in Status
           /\ [st EXCEPT !.Exists = r, !.PasswordUpToDate = r] \in Status
           /\ [st EXCEPT !.Available = r, !.Exists = r, !.HasRoles = r,
                         !.PasswordUpToDate = r] \in Status
           /\ \A n \in Names \cup {NONE} : [st EXCEPT !.username = n] \in Status
<1>1. [st EXCEPT !.Available = r] \in Status
  BY DEF Status
<1>2. [st EXCEPT !.Exists = r] \in Status
  BY DEF Status
<1>3. [st EXCEPT !.PasswordUpToDate = r] \in Status
  BY DEF Status
<1>4. [st EXCEPT !.HasRoles = r] \in Status
  BY DEF Status
<1>5. [st EXCEPT !.SecretExists = r] \in Status
  BY DEF Status
<1>6. [st EXCEPT !.Exists = r, !.PasswordUpToDate = r] \in Status
  BY DEF Status
<1>7. [st EXCEPT !.Available = r, !.Exists = r, !.HasRoles = r,
                 !.PasswordUpToDate = r] \in Status
  BY DEF Status
<1>8. ASSUME NEW n \in Names \cup {NONE}
      PROVE  [st EXCEPT !.username = n] \in Status
  BY DEF Status
<1> QED
  BY <1>1, <1>2, <1>3, <1>4, <1>5, <1>6, <1>7, <1>8

LEMMA ReasonsType ==
    /\ TrueReasons \subseteq Reasons
    /\ OtherReasons \subseteq Reasons
    /\ NONE \in Reasons
BY DEF Reasons

LEMMA SecretStatusType ==
    ASSUME NEW st \in Status, NEW sec, NEW how \in Reasons
    PROVE  SecretStatus(st, sec, how) \in Status
<1> DEFINE name == IF sec.username = NONE THEN "GeneratedUsername"
                   ELSE "InSecret"
           pass == IF sec.password = NONE THEN "GeneratedPassword"
                   ELSE "InSecret"
           end == IF sec.endpoint # w.endpoint THEN "SetEndpoint"
                  ELSE "EndpointAlreadySet"
<1>1. /\ name \in Reasons
      /\ pass \in Reasons
      /\ end \in Reasons
      /\ "Ready" \in Reasons
  BY DEF Reasons, TrueReasons
<1>2. SecretStatus(st, sec, how) =
        [st EXCEPT !.SecretExists = how, !.SecretUsername = name,
                   !.SecretPassword = pass, !.SecretEndpoint = end,
                   !.SecretAvailable = "Ready"]
  BY Zenon DEF SecretStatus
<1> HIDE DEF name, pass, end
<1> QED
  BY <1>1, <1>2 DEF Status

LEMMA BlankType ==
    /\ BlankStatus \in Status
    /\ NoWork \in Work
    /\ EmptySecret \in SecretObj
    /\ \A u \in Users : NewUser(u) \in UserObj
BY SMT DEF BlankStatus, Status, Reasons, NoWork, Work, EmptySecret, SecretObj,
            NewUser, UserObj

-----------------------------------------------------------------------------
(* How a step leaves the worker: it goes on, or its pass ends.             *)

LEMMA GoToType ==
    ASSUME w \in Work, NEW st \in Status, NEW label, GoTo(label, st)
    PROVE  /\ pc' = label
           /\ w' \in Work
           /\ w'.key = w.key /\ w'.ensure = w.ensure /\ w'.secret = w.secret
           /\ w'.status = st
           /\ userHeld' = userHeld
           /\ secretHeld' = secretHeld
           /\ queue' = queue
BY DEF GoTo, Work

LEMMA LeavePassType ==
    ASSUME LeavePass
    PROVE  /\ pc' = "idle"
           /\ w' = NoWork
           /\ w' \in Work
           /\ userHeld' = {}
           /\ secretHeld' = {}
BY BlankType DEF LeavePass

(* The worker's part of TypeInv.                                           *)
WorkerInv ==
    /\ pc \in Labels
    /\ w \in Work
    /\ queue \subseteq Users
    /\ userHeld \subseteq Users
    /\ secretHeld \subseteq Secrets
    /\ userHeld \subseteq {w.key}
    /\ PassConsistent

LEMMA EndOfPass ==
    ASSUME WorkerInv, pc # "idle", Done \/ Requeue
    PROVE  WorkerInv' /\ pc' = "idle" /\ userHeld' = {} /\ secretHeld' = {}
<1>1. LeavePass /\ queue' \subseteq Users
  BY DEF WorkerInv, Done, Requeue, PassConsistent
<1> QED
  BY <1>1, LeavePassType
     DEF WorkerInv, PassConsistent, Labels, EnsureLabels, DeleteLabels,
         HadSecret, BeforeSecret, Observing, NoWork

(* A step that goes on, to a label that fits the pass.                     *)
Fits(label, st) ==
    /\ label \in Labels \ {"idle"}
    /\ label \in EnsureLabels => w.ensure
    /\ label \in DeleteLabels => ~w.ensure
    /\ label \in HadSecret \/ (label \in Observing /\ (w.ensure \/ w.secret # NONE))
         => w.secret # NONE /\ w.secret.username # NONE
    /\ label \in BeforeSecret => w.secret = NONE

LEMMA GoOn ==
    ASSUME WorkerInv, pc # "idle", NEW label, NEW st \in Status,
           Fits(label, st), GoTo(label, st)
    PROVE  /\ WorkerInv'
           /\ userHeld' = userHeld
           /\ secretHeld' = secretHeld
BY GoToType DEF WorkerInv, PassConsistent, Fits

LEMMA FailType ==
    ASSUME WorkerInv, pc # "idle", NEW st \in Status, Fail(st)
    PROVE  /\ WorkerInv'
           /\ userHeld' \subseteq userHeld
           /\ secretHeld' \subseteq secretHeld
<1>1. CASE w.ensure
  <2>1. Fits("failStatus", st)
    BY <1>1 DEF Fits, Labels, EnsureLabels, DeleteLabels, HadSecret,
                BeforeSecret, Observing
  <2> QED
    BY <1>1, <2>1, GoOn DEF Fail
<1>2. CASE ~w.ensure
  BY <1>2, EndOfPass DEF Fail
<1> QED
  BY <1>1, <1>2

-----------------------------------------------------------------------------
(* The other parts of TypeInv, each of which few actions touch.            *)
UserStored ==
    /\ user \in [Users -> UserObj \cup {NONE}]
    /\ userCache \in [Users -> UserObj \cup {NONE}]
    /\ userLag \subseteq Users
    /\ \A u \in Users \ userLag : userCache[u] = user[u]
    /\ NothingOverdue

SecretStored ==
    /\ secret \in [Secrets -> SecretObj \cup {NONE}]
    /\ secretCache \in [Secrets -> SecretObj \cup {NONE}]
    /\ secretLag \subseteq Secrets
    /\ secretEvent \subseteq Secrets
    /\ \A s \in Secrets \ secretLag : secretCache[s] = secret[s]

CloudStored ==
    /\ cloud \in Endpoints \cup {NONE}
    /\ cloudCache \in Endpoints \cup {NONE}
    /\ cloudEvent \in BOOLEAN

HeldIsThere == \A u \in userHeld : user[u] # NONE

Parts ==
    /\ spent \in 0 .. MaxDisruptions
    /\ SolrTypeOK
    /\ UserStored
    /\ SecretStored
    /\ CloudStored
    /\ HeldIsThere
    /\ WorkerInv

LEMMA TypeInvIsParts == TypeInv <=> Parts
BY DEF TypeInv, TypeOK, ApiTypeOK, CopiesConsistent, UserStored, SecretStored,
       CloudStored, HeldIsThere, WorkerInv, Parts

LEMMA TypeInvIsPartsNext == TypeInv' <=> Parts'
BY DEF TypeInv, TypeOK, ApiTypeOK, CopiesConsistent, UserStored, SecretStored,
       CloudStored, HeldIsThere, WorkerInv, Parts

(* Only what a part mentions can disturb it.                               *)
LEMMA UserStoredKept ==
    ASSUME UserStored, UNCHANGED <<user, userCache, userLag>>
    PROVE  UserStored'
BY DEF UserStored, NothingOverdue, Held

LEMMA SecretStoredKept ==
    ASSUME SecretStored,
           UNCHANGED <<secret, secretCache, secretLag, secretEvent>>
    PROVE  SecretStored'
BY DEF SecretStored

LEMMA CloudStoredKept ==
    ASSUME CloudStored, UNCHANGED cloudVars
    PROVE  CloudStored'
BY DEF CloudStored, cloudVars

LEMMA SolrKept ==
    ASSUME SolrTypeOK, UNCHANGED solrVars
    PROVE  SolrTypeOK'
BY DEF SolrTypeOK, solrVars

LEMMA HeldKept ==
    ASSUME HeldIsThere, userHeld' \subseteq userHeld, UNCHANGED user
    PROVE  HeldIsThere'
BY DEF HeldIsThere

LEMMA WorkerKept ==
    ASSUME WorkerInv, UNCHANGED <<pc, w, queue, userHeld, secretHeld>>
    PROVE  WorkerInv'
BY DEF WorkerInv, PassConsistent

-----------------------------------------------------------------------------
(* Writes to the stored objects.                                           *)

LEMMA ReapedIsHeld ==
    ASSUME NEW obj \in UserObj
    PROVE  /\ Reaped(obj) \in UserObj \cup {NONE}
           /\ Held(Reaped(obj))
           /\ Reaped(obj) # NONE => Reaped(obj) = obj
BY DEF Reaped, Held

LEMMA PutUserType ==
    ASSUME UserStored, NEW u \in Users, NEW obj \in UserObj \cup {NONE},
           Held(obj), PutUser(u, obj), UNCHANGED userCache
    PROVE  /\ UserStored'
           /\ user' = [user EXCEPT ![u] = obj]
<1>1. user' \in [Users -> UserObj \cup {NONE}]
  BY DEF PutUser, UserStored
<1>2. userLag' \subseteq Users /\ userCache' \in [Users -> UserObj \cup {NONE}]
  BY DEF PutUser, UserStored
<1>3. \A v \in Users \ userLag' : userCache'[v] = user'[v]
  BY DEF PutUser, UserStored
<1>4. ASSUME NEW v \in Users
      PROVE  Held(user[v])' /\ Held(userCache[v])'
  <2>1. CASE v = u
    BY <2>1 DEF PutUser, UserStored, NothingOverdue, Held
  <2>2. CASE v # u
    BY <2>2 DEF PutUser, UserStored, NothingOverdue, Held
  <2> QED
    BY <2>1, <2>2
<1> QED
  BY <1>1, <1>2, <1>3, <1>4 DEF UserStored, NothingOverdue, PutUser

LEMMA PutSecretType ==
    ASSUME SecretStored, NEW s \in Secrets, NEW obj \in SecretObj \cup {NONE},
           PutSecret(s, obj), UNCHANGED secretCache
    PROVE  SecretStored'
BY DEF SecretStored, PutSecret

(* What a worker's write to its User leaves true; whether the copy it      *)
(* holds is still of an object that is there is up to the caller.          *)
LEMMA WriteUserType ==
    ASSUME Parts, pc # "idle", NEW obj, NEW o, WriteUser(obj, o),
           w.key \in userHeld => obj \in UserObj
    PROVE  /\ spent' \in 0 .. MaxDisruptions
           /\ SolrTypeOK'
           /\ UserStored'
           /\ SecretStored'
           /\ CloudStored'
           /\ \/ UNCHANGED user
              \/ /\ w.key \in userHeld
                 /\ user' = [user EXCEPT ![w.key] = Reaped(obj)]
<1>1. /\ ApiWrite(w.key \in userHeld, o)
      /\ UNCHANGED <<solrVars, userCache, secret, secretCache, secretLag,
                     secretEvent, cloudVars>>
  BY DEF WriteUser
<1>2. spent' \in 0 .. MaxDisruptions /\ (Applied(o) => w.key \in userHeld)
  BY <1>1, SpentType DEF ApiWrite, Applied, Parts
<1>3. SolrTypeOK' /\ SecretStored' /\ CloudStored'
  BY <1>1, SolrKept, SecretStoredKept, CloudStoredKept DEF Parts
<1>4. CASE Applied(o) /\ obj # user[w.key]
  <2>1. w.key \in Users /\ obj \in UserObj /\ w.key \in userHeld
    BY <1>2, <1>4 DEF Parts, WorkerInv, PassConsistent
  <2>2. PutUser(w.key, Reaped(obj))
    BY <1>4 DEF WriteUser
  <2> QED
    BY <1>1, <1>2, <1>3, <2>1, <2>2, ReapedIsHeld, PutUserType DEF Parts
<1>5. CASE ~(Applied(o) /\ obj # user[w.key])
  <2>1. UNCHANGED <<user, userCache, userLag>>
    BY <1>1, <1>5 DEF WriteUser
  <2> QED
    BY <1>2, <1>3, <2>1, UserStoredKept DEF Parts
<1> QED
  BY <1>4, <1>5

LEMMA UserWritten ==
    ASSUME Parts, pc # "idle", NEW obj, NEW o, WriteUser(obj, o),
           w.key \in userHeld => obj \in UserObj,
           WorkerInv', userHeld' \subseteq userHeld,
           w.key \in userHeld' => Reaped(obj) # NONE
    PROVE  Parts'
<1>1. /\ spent' \in 0 .. MaxDisruptions
      /\ SolrTypeOK' /\ UserStored' /\ SecretStored' /\ CloudStored'
      /\ \/ UNCHANGED user
         \/ /\ w.key \in userHeld
            /\ user' = [user EXCEPT ![w.key] = Reaped(obj)]
  BY WriteUserType
<1>2. userHeld \subseteq {w.key} /\ w.key \in Users /\ userHeld \subseteq Users
  BY DEF Parts, WorkerInv, PassConsistent
<1>3. HeldIsThere'
  <2>1. CASE UNCHANGED user
    BY <2>1, HeldKept DEF Parts
  <2>2. CASE user' = [user EXCEPT ![w.key] = Reaped(obj)]
    BY <1>2, <2>2 DEF HeldIsThere, Parts, UserStored
  <2> QED
    BY <1>1, <2>1, <2>2
<1> QED
  BY <1>1, <1>3 DEF Parts

(* The object the worker's write starts from.                              *)
LEMMA HeldUser ==
    ASSUME Parts, w.key \in userHeld
    PROVE  /\ user[w.key] \in UserObj
           /\ Held(user[w.key])
BY DEF Parts, HeldIsThere, UserStored, NothingOverdue, WorkerInv

LEMMA EditedUser ==
    ASSUME NEW obj \in UserObj, NEW st \in Status, NEW b \in BOOLEAN
    PROVE  /\ [obj EXCEPT !.status = st] \in UserObj
           /\ [obj EXCEPT !.finalizer = b] \in UserObj
           /\ Held(obj) => Reaped([obj EXCEPT !.status = st]) # NONE
           /\ Reaped([obj EXCEPT !.finalizer = TRUE]) # NONE
<1>1. [obj EXCEPT !.status = st] \in UserObj
  BY DEF UserObj
<1>2. [obj EXCEPT !.finalizer = b] \in UserObj
  BY DEF UserObj
<1>3. Held(obj) => Reaped([obj EXCEPT !.status = st]) # NONE
  BY <1>1, ObjectAssumption DEF Held, Reaped, UserObj
<1>4. Reaped([obj EXCEPT !.finalizer = TRUE]) # NONE
  <2>1. [obj EXCEPT !.finalizer = TRUE] \in UserObj
    BY DEF UserObj
  <2> QED
    BY <2>1, ObjectAssumption DEF Reaped, UserObj
<1> QED
  BY <1>1, <1>2, <1>3, <1>4

-----------------------------------------------------------------------------
(* One lemma for each action that writes to the User.                      *)

LEMMA AddFinalizerType ==
    ASSUME Parts, AddFinalizer
    PROVE  Parts'
<1> DEFINE obj == [user[w.key] EXCEPT !.finalizer = TRUE]
<1>1. /\ pc = "addFinalizer" /\ w.ensure /\ w.status \in Status
      /\ w.secret = NONE
  BY DEF AddFinalizer, Parts, WorkerInv, PassConsistent, EnsureLabels,
         BeforeSecret, Work
<1>2. PICK o \in Outcomes :
        /\ WriteUser(obj, o)
        /\ IF Failed(o) THEN Requeue ELSE GoTo("initStatus", w.status)
  BY DEF AddFinalizer
<1>3. w.key \in userHeld => obj \in UserObj /\ Reaped(obj) # NONE
  BY <1>1, HeldUser, EditedUser
<1>4. WorkerInv' /\ userHeld' \subseteq userHeld
  <2>1. Fits("initStatus", w.status)
    BY <1>1 DEF Fits, Labels, EnsureLabels, DeleteLabels, HadSecret,
                BeforeSecret, Observing
  <2> QED
    BY <1>1, <1>2, <2>1, GoOn, EndOfPass DEF Parts
<1> HIDE DEF obj
<1> QED
  BY <1>1, <1>2, <1>3, <1>4, UserWritten

LEMMA InitStatusType ==
    ASSUME Parts, InitStatus
    PROVE  Parts'
<1> DEFINE st == [w.status EXCEPT !.Available = "Reconciling",
                                  !.Exists = "Reconciling",
                                  !.HasRoles = "Reconciling",
                                  !.PasswordUpToDate = "Reconciling"]
           obj == [user[w.key] EXCEPT !.status = st]
<1>1. /\ pc = "initStatus" /\ w.ensure /\ w.status \in Status
      /\ w.secret = NONE
  BY DEF InitStatus, Parts, WorkerInv, PassConsistent, EnsureLabels,
         BeforeSecret, Work
<1>2. PICK o \in Outcomes :
        /\ WriteUser(obj, o)
        /\ IF Failed(o) THEN Requeue ELSE GoTo("getSecret", st)
  BY DEF InitStatus
<1>3. st \in Status
  BY <1>1, StatusType DEF Reasons, OtherReasons
<1> HIDE DEF st
<1>4. w.key \in userHeld => obj \in UserObj /\ Reaped(obj) # NONE
  BY <1>3, HeldUser, EditedUser
<1>5. WorkerInv' /\ userHeld' \subseteq userHeld
  <2>1. Fits("getSecret", st)
    BY <1>1 DEF Fits, Labels, SharedLabels, EnsureLabels, DeleteLabels,
                HadSecret, BeforeSecret, Observing
  <2> QED
    BY <1>1, <1>2, <1>3, <2>1, GoOn, EndOfPass DEF Parts
<1> HIDE DEF obj
<1> QED
  BY <1>1, <1>2, <1>4, <1>5, UserWritten

(* The two status updates that end a pass.                                 *)
LEMMA LastStatusType ==
    ASSUME Parts, pc # "idle", NEW r \in Reasons, NEW o \in Outcomes,
           WriteUser([user[w.key] EXCEPT
                        !.status = [w.status EXCEPT !.Available = r]], o),
           Done \/ Requeue
    PROVE  Parts'
<1> DEFINE st == [w.status EXCEPT !.Available = r]
           obj == [user[w.key] EXCEPT !.status = st]
<1>1. st \in Status
  BY StatusType DEF Parts, WorkerInv, Work
<1> HIDE DEF st
<1>2. w.key \in userHeld => obj \in UserObj
  BY <1>1, HeldUser, EditedUser
<1>3. WorkerInv' /\ userHeld' = {}
  BY EndOfPass DEF Parts
<1>4. WriteUser(obj, o)
  BY DEF st
<1> HIDE DEF obj
<1> QED
  BY <1>2, <1>3, <1>4, UserWritten

LEMMA OkStatusType ==
    ASSUME Parts, OkStatus
    PROVE  Parts'
BY LastStatusType DEF OkStatus, Reasons, TrueReasons

LEMMA FailStatusType ==
    ASSUME Parts, FailStatus
    PROVE  Parts'
BY LastStatusType DEF FailStatus, Reasons, OtherReasons

LEMMA RemoveFinalizerType ==
    ASSUME Parts, RemoveFinalizer
    PROVE  Parts'
<1> DEFINE obj == [user[w.key] EXCEPT !.finalizer = FALSE]
<1>1. PICK o \in Outcomes :
        WriteUser(obj, o) /\ IF Failed(o) THEN Requeue ELSE Done
  BY DEF RemoveFinalizer
<1>2. pc # "idle" /\ WorkerInv' /\ userHeld' = {}
  BY <1>1, EndOfPass DEF RemoveFinalizer, Parts
<1>3. w.key \in userHeld => obj \in UserObj
  BY HeldUser, EditedUser DEF UserObj
<1> HIDE DEF obj
<1> QED
  BY <1>1, <1>2, <1>3, UserWritten

-----------------------------------------------------------------------------
(* The steps that deal with Solr only.                                     *)

LEMMA SolrStep ==
    ASSUME Parts, spent' \in 0 .. MaxDisruptions, SolrTypeOK', WorkerInv',
           userHeld' \subseteq userHeld, UNCHANGED kubernetesVars
    PROVE  Parts'
<1>1. /\ UNCHANGED <<user, userCache, userLag>>
      /\ UNCHANGED <<secret, secretCache, secretLag, secretEvent>>
      /\ UNCHANGED cloudVars
  BY DEF kubernetesVars
<1>2. UserStored' /\ SecretStored' /\ CloudStored' /\ HeldIsThere'
  BY <1>1, UserStoredKept, SecretStoredKept, CloudStoredKept, HeldKept DEF Parts
<1> QED
  BY <1>2 DEF Parts

(* A request to Solr that reads, and what it comes back with.              *)
LEMMA SolrRead ==
    ASSUME Parts, GetFails \/ GetWorks, WorkerInv',
           userHeld' \subseteq userHeld, UNCHANGED kubernetesVars
    PROVE  Parts'
<1>1. spent' \in 0 .. MaxDisruptions /\ UNCHANGED solrVars
  BY SpentType DEF GetFails, GetWorks, Parts
<1> QED
  BY <1>1, SolrKept, SolrStep DEF Parts

(* A request that writes leaves a well-formed security.json.               *)
LEMMA SolrWriteType ==
    ASSUME Parts, NEW n, NEW o,
           \/ \E p \in Passwords \cup {NONE} : CreateUser(n, p, o)
           \/ DeleteUser(n, o)
           \/ \E rs \in SUBSET Roles : SetRoles(n, rs, o)
    PROVE  spent' \in 0 .. MaxDisruptions /\ SolrTypeOK'
<1>1. Post(o)
  BY DEF CreateUser, DeleteUser, SetRoles
<1>2. spent' \in 0 .. MaxDisruptions
  BY <1>1, PostType DEF Parts
<1>3. SolrTypeOK'
  <2>1. CASE \E p \in Passwords \cup {NONE} : CreateUser(n, p, o)
    BY <2>1 DEF CreateUser, SolrTypeOK, Parts
  <2>2. CASE DeleteUser(n, o)
    BY <2>2 DEF DeleteUser, SolrTypeOK, Parts
  <2>3. CASE \E rs \in SUBSET Roles : SetRoles(n, rs, o)
    BY <2>3 DEF SetRoles, SolrTypeOK, Parts
  <2> QED
    BY <2>1, <2>2, <2>3
<1> QED
  BY <1>2, <1>3

(* Where the pass goes from an observation or a write fits the pass.       *)
LEMMA ObservingOn ==
    ASSUME WorkerInv, pc \in Observing, NEW st, NEW label \in Observing
    PROVE  Fits(label, st)
BY DEF WorkerInv, PassConsistent, Fits, Observing, HadSecret, BeforeSecret,
       Labels, EnsureLabels, DeleteLabels, SharedLabels

LEMMA EnsuringOn ==
    ASSUME WorkerInv, pc \in HadSecret \cup Observing, w.ensure, NEW st,
           NEW label \in HadSecret \cup {"okStatus"}
    PROVE  Fits(label, st)
BY DEF WorkerInv, PassConsistent, Fits, Observing, HadSecret, BeforeSecret,
       Labels, EnsureLabels, DeleteLabels, SharedLabels

LEMMA RevokingOn ==
    ASSUME WorkerInv, pc # "idle", ~w.ensure, NEW st, NEW label \in DeleteLabels
    PROVE  Fits(label, st)
BY DEF WorkerInv, PassConsistent, Fits, Observing, HadSecret, BeforeSecret,
       Labels, EnsureLabels, DeleteLabels, SharedLabels

LEMMA EnsuringName ==
    ASSUME Parts, w.secret # NONE, w.secret.username # NONE
    PROVE  Username \in Names /\ Password \in Passwords \cup {NONE}
BY DEF Parts, WorkerInv, Work, SecretObj, Username, Password

LEMMA NotedType ==
    ASSUME Parts, w.secret # NONE, w.secret.username # NONE, NEW st \in Status
    PROVE  Noted(st) \in Status
BY EnsuringName, StatusType, ReasonsType DEF Noted

LEMMA CheckExistenceType ==
    ASSUME Parts, CheckExistence
    PROVE  Parts'
<1> DEFINE yes == [w.status EXCEPT !.Exists = "UserInConfig"]
           no == [w.status EXCEPT !.Exists = "UserNotInConfig",
                                  !.PasswordUpToDate = "UserNotInConfig"]
<1>1. /\ pc = "checkExistence" /\ WorkerInv /\ w.status \in Status
      /\ pc # "idle" /\ pc \in Observing
  BY DEF CheckExistence, Parts, WorkerInv, Work, Observing
<1>2. yes \in Status /\ no \in Status
  BY <1>1, StatusType DEF Reasons, TrueReasons, OtherReasons
<1> HIDE DEF yes, no
<1>3. WorkerInv' /\ userHeld' \subseteq userHeld
  <2>1. CASE Fail(w.status)
    BY <1>1, <2>1, FailType
  <2>2. CASE GoTo("checkUser", yes)
    BY <1>1, <1>2, <2>2, ObservingOn, GoOn DEF Observing
  <2>3. CASE GoTo("hasRoles", no)
    BY <1>1, <1>2, <2>3, ObservingOn, GoOn DEF Observing
  <2> QED
    BY <2>1, <2>2, <2>3 DEF CheckExistence, yes, no
<1> QED
  BY <1>3, SolrRead DEF CheckExistence

LEMMA CheckPasswordType ==
    ASSUME Parts, CheckPassword
    PROVE  Parts'
<1> DEFINE bad == [w.status EXCEPT !.PasswordUpToDate = "Error"]
           seen == [w.status EXCEPT !.PasswordUpToDate =
                      IF CheckUser(Username, Password) THEN "PasswordUpToDate"
                      ELSE "PasswordDifferent"]
<1>1. /\ pc = "checkUser" /\ WorkerInv /\ w.status \in Status
      /\ pc # "idle" /\ pc \in Observing
  BY DEF CheckPassword, Parts, WorkerInv, Work, Observing
<1>2. bad \in Status /\ seen \in Status
  BY <1>1, StatusType DEF Reasons, TrueReasons, OtherReasons
<1> HIDE DEF bad, seen
<1>3. WorkerInv' /\ userHeld' \subseteq userHeld
  <2>1. CASE Fail(bad)
    BY <1>1, <1>2, <2>1, FailType
  <2>2. CASE GoTo("hasRoles", seen)
    BY <1>1, <1>2, <2>2, ObservingOn, GoOn DEF Observing
  <2> QED
    BY <2>1, <2>2 DEF CheckPassword, bad, seen
<1> QED
  BY <1>3, SolrRead DEF CheckPassword

(* What an ensuring and a deleting pass do next.                           *)
LEMMA EnsureType ==
    ASSUME Parts, pc \in Observing, w.ensure, NEW st \in Status, Ensure(st)
    PROVE  WorkerInv' /\ userHeld' \subseteq userHeld
<1>1. /\ WorkerInv /\ pc # "idle" /\ w.secret # NONE /\ w.secret.username # NONE
  BY DEF Parts, WorkerInv, PassConsistent, Observing
<1>2. Noted(st) \in Status
  BY <1>1, NotedType
<1>3. AfterUser(st) \in HadSecret \cup {"okStatus"}
  BY DEF AfterUser, AfterRoles, HadSecret
<1>4. CASE GoTo("createUser", st) \/ GoTo("updateUser", st)
  BY <1>1, <1>4, EnsuringOn, GoOn DEF HadSecret
<1>5. CASE GoTo(AfterUser(st), Noted(st))
  BY <1>1, <1>2, <1>3, <1>5, EnsuringOn, GoOn
<1> QED
  BY <1>4, <1>5 DEF Ensure

LEMMA RevokeType ==
    ASSUME Parts, pc # "idle", ~w.ensure, NEW st \in Status, Revoke(st)
    PROVE  WorkerInv' /\ userHeld' \subseteq userHeld
<1>1. PICK label \in DeleteLabels : GoTo(label, st)
  BY DEF Revoke, AfterRevoke, DeleteLabels
<1> QED
  BY <1>1, RevokingOn, GoOn DEF Parts

LEMMA CheckRolesType ==
    ASSUME Parts, CheckRoles
    PROVE  Parts'
<1> DEFINE st == [w.status EXCEPT !.HasRoles =
                    IF HasRoles(Username) THEN "UserHasRoles"
                    ELSE "UserMissingRoles"]
<1>1. /\ pc = "hasRoles" /\ WorkerInv /\ w.status \in Status
      /\ pc # "idle" /\ pc \in Observing
  BY DEF CheckRoles, Parts, WorkerInv, Work, Observing
<1>2. st \in Status
  BY <1>1, StatusType DEF Reasons, TrueReasons, OtherReasons
<1> HIDE DEF st
<1>3. WorkerInv' /\ userHeld' \subseteq userHeld
  <2>1. CASE Fail(w.status)
    BY <1>1, <2>1, FailType
  <2>2. CASE w.ensure /\ Ensure(st)
    BY <1>1, <1>2, <2>2, EnsureType
  <2>3. CASE ~w.ensure /\ Revoke(st)
    BY <1>1, <1>2, <2>3, RevokeType
  <2> QED
    BY <2>1, <2>2, <2>3 DEF CheckRoles, st
<1> QED
  BY <1>3, SolrRead DEF CheckRoles

LEMMA EnsureUserType ==
    ASSUME Parts, EnsureUser
    PROVE  Parts'
<1> DEFINE st == [w.status EXCEPT !.Exists = "CreateUser",
                                  !.PasswordUpToDate = "CreateUser"]
<1>1. /\ pc = "createUser" /\ WorkerInv /\ w.status \in Status /\ w.ensure
      /\ pc # "idle" /\ pc \in HadSecret
      /\ w.secret # NONE /\ w.secret.username # NONE
  BY DEF EnsureUser, Parts, WorkerInv, PassConsistent, Work, EnsureLabels,
         HadSecret
<1>2. st \in Status /\ Noted(st) \in Status
  BY <1>1, StatusType, NotedType DEF Reasons, TrueReasons
<1> HIDE DEF st
<1>3. PICK o \in Outcomes :
        /\ CreateUser(Username, Password, o)
        /\ IF Failed(o) THEN Fail(w.status)
                        ELSE GoTo(AfterUser(st), Noted(st))
  BY DEF EnsureUser, st
<1>4. WorkerInv' /\ userHeld' \subseteq userHeld
  <2>1. CASE Fail(w.status)
    BY <1>1, <2>1, FailType
  <2>2. CASE GoTo(AfterUser(st), Noted(st))
    <3>1. AfterUser(st) \in HadSecret \cup {"okStatus"}
      BY DEF AfterUser, AfterRoles, HadSecret
    <3> QED
      BY <1>1, <1>2, <2>2, <3>1, EnsuringOn, GoOn
  <2> QED
    BY <1>3, <2>1, <2>2
<1>5. spent' \in 0 .. MaxDisruptions /\ SolrTypeOK'
  BY <1>1, <1>3, EnsuringName, SolrWriteType
<1> QED
  BY <1>4, <1>5, SolrStep DEF EnsureUser

LEMMA UpdatePasswordType ==
    ASSUME Parts, UpdatePassword
    PROVE  Parts'
<1> DEFINE st == [w.status EXCEPT !.PasswordUpToDate = "UpdatedPassword"]
           bad == [w.status EXCEPT !.PasswordUpToDate = "FailedPasswordCheck"]
<1>1. /\ pc = "updateUser" /\ WorkerInv /\ w.status \in Status /\ w.ensure
      /\ pc # "idle" /\ pc \in HadSecret
      /\ w.secret # NONE /\ w.secret.username # NONE
  BY DEF UpdatePassword, Parts, WorkerInv, PassConsistent, Work, EnsureLabels,
         HadSecret
<1>2. st \in Status /\ bad \in Status /\ Noted(st) \in Status
  BY <1>1, StatusType, NotedType DEF Reasons, TrueReasons, OtherReasons
<1> HIDE DEF st, bad
<1>3. PICK o \in Outcomes :
        /\ CreateUser(Username, Password, o)
        /\ IF Failed(o) THEN Fail(bad) ELSE GoTo(AfterUser(st), Noted(st))
  BY DEF UpdatePassword, st, bad
<1>4. WorkerInv' /\ userHeld' \subseteq userHeld
  <2>1. CASE Fail(bad)
    BY <1>1, <1>2, <2>1, FailType
  <2>2. CASE GoTo(AfterUser(st), Noted(st))
    <3>1. AfterUser(st) \in HadSecret \cup {"okStatus"}
      BY DEF AfterUser, AfterRoles, HadSecret
    <3> QED
      BY <1>1, <1>2, <2>2, <3>1, EnsuringOn, GoOn
  <2> QED
    BY <1>3, <2>1, <2>2
<1>5. spent' \in 0 .. MaxDisruptions /\ SolrTypeOK'
  BY <1>1, <1>3, EnsuringName, SolrWriteType
<1> QED
  BY <1>4, <1>5, SolrStep DEF UpdatePassword

LEMMA GetRolesType ==
    ASSUME Parts, GetRoles
    PROVE  Parts'
<1>1. /\ pc = "getRoles" /\ WorkerInv /\ w \in Work /\ w.ensure
      /\ pc # "idle" /\ w.secret # NONE /\ w.secret.username # NONE
  BY DEF GetRoles, Parts, WorkerInv, PassConsistent, Work, EnsureLabels,
         HadSecret
<1>2. WorkerInv' /\ userHeld' \subseteq userHeld
  <2>1. CASE Fail(w.status)
    BY <1>1, <2>1, FailType DEF Work
  <2>2. CASE /\ pc' = "upsertRoles"
             /\ w' = [w EXCEPT !.roles = roles[Username]]
             /\ UNCHANGED <<userHeld, secretHeld, queue>>
    <3>1. roles[Username] \in SUBSET Roles
      BY <1>1, EnsuringName DEF Parts, SolrTypeOK
    <3>2. w' \in Work /\ w'.key = w.key /\ w'.ensure /\ w'.secret = w.secret
      BY <1>1, <2>2, <3>1 DEF Work
    <3> QED
      BY <1>1, <2>2, <3>2
         DEF WorkerInv, PassConsistent, Labels, EnsureLabels, DeleteLabels,
             HadSecret, BeforeSecret, Observing
  <2> QED
    BY <2>1, <2>2 DEF GetRoles
<1> QED
  BY <1>2, SolrRead DEF GetRoles

LEMMA UpsertRolesType ==
    ASSUME Parts, UpsertRoles
    PROVE  Parts'
<1> DEFINE st == [w.status EXCEPT !.HasRoles = "AddededRoles"]
<1>1. /\ pc = "upsertRoles" /\ WorkerInv /\ w \in Work /\ w.ensure
      /\ pc # "idle" /\ pc \in HadSecret
  BY DEF UpsertRoles, Parts, WorkerInv, PassConsistent, EnsureLabels, HadSecret
<1>2. st \in Status /\ w.status \in Status
  BY <1>1, StatusType DEF Reasons, TrueReasons, Work
<1> HIDE DEF st
<1>3. PICK o \in Outcomes :
        /\ SetRoles(Username, w.roles \cup DefaultRoles, o)
        /\ IF Failed(o) THEN Fail(w.status) ELSE GoTo(AfterRoles, st)
  BY DEF UpsertRoles, st
<1>4. WorkerInv' /\ userHeld' \subseteq userHeld
  <2>1. CASE Fail(w.status)
    BY <1>1, <1>2, <2>1, FailType
  <2>2. CASE GoTo(AfterRoles, st)
    <3>1. AfterRoles \in HadSecret \cup {"okStatus"}
      BY DEF AfterRoles, HadSecret
    <3> QED
      BY <1>1, <1>2, <2>2, <3>1, EnsuringOn, GoOn
  <2> QED
    BY <1>3, <2>1, <2>2
<1>5. w.roles \cup DefaultRoles \in SUBSET Roles
  BY <1>1, SolrAssumption DEF Work
<1>6. spent' \in 0 .. MaxDisruptions /\ SolrTypeOK'
  BY <1>3, <1>5, SolrWriteType
<1> QED
  BY <1>4, <1>6, SolrStep DEF UpsertRoles

LEMMA RevokeRolesType ==
    ASSUME Parts, RevokeRoles
    PROVE  Parts'
<1>1. /\ pc = "deleteRoles" /\ WorkerInv /\ w.status \in Status /\ ~w.ensure
      /\ pc # "idle"
  BY DEF RevokeRoles, Parts, WorkerInv, PassConsistent, Work, DeleteLabels
<1>2. PICK o \in Outcomes :
        /\ DeleteRoles(Username, o)
        /\ IF Failed(o) THEN Fail(w.status)
                        ELSE GoTo(AfterRevoke(w.status), w.status)
  BY DEF RevokeRoles
<1>3. WorkerInv' /\ userHeld' \subseteq userHeld
  <2>1. CASE Fail(w.status)
    BY <1>1, <2>1, FailType
  <2>2. CASE GoTo(AfterRevoke(w.status), w.status)
    <3>1. AfterRevoke(w.status) \in DeleteLabels
      BY DEF AfterRevoke, DeleteLabels
    <3> QED
      BY <1>1, <2>2, <3>1, RevokingOn, GoOn
  <2> QED
    BY <1>2, <2>1, <2>2
<1>4. spent' \in 0 .. MaxDisruptions /\ SolrTypeOK'
  BY <1>2, SolrWriteType DEF DeleteRoles
<1> QED
  BY <1>3, <1>4, SolrStep DEF RevokeRoles

LEMMA RevokeUserType ==
    ASSUME Parts, RevokeUser
    PROVE  Parts'
<1>1. /\ pc = "deleteUser" /\ WorkerInv /\ w.status \in Status /\ ~w.ensure
      /\ pc # "idle"
  BY DEF RevokeUser, Parts, WorkerInv, PassConsistent, Work, DeleteLabels
<1>2. PICK o \in Outcomes :
        /\ DeleteUser(Username, o)
        /\ IF Failed(o) THEN Fail(w.status)
                        ELSE GoTo("removeFinalizer", w.status)
  BY DEF RevokeUser
<1>3. WorkerInv' /\ userHeld' \subseteq userHeld
  <2>1. CASE Fail(w.status)
    BY <1>1, <2>1, FailType
  <2>2. CASE GoTo("removeFinalizer", w.status)
    BY <1>1, <2>2, RevokingOn, GoOn DEF DeleteLabels
  <2> QED
    BY <1>2, <2>1, <2>2
<1>4. spent' \in 0 .. MaxDisruptions /\ SolrTypeOK'
  BY <1>2, SolrWriteType
<1> QED
  BY <1>3, <1>4, SolrStep DEF RevokeUser

-----------------------------------------------------------------------------
(* The steps that deal with the secret.                                    *)

LEMMA SecretStep ==
    ASSUME Parts, spent' \in 0 .. MaxDisruptions, SecretStored', WorkerInv',
           userHeld' \subseteq userHeld,
           UNCHANGED <<solrVars, user, userCache, userLag, cloudVars>>
    PROVE  Parts'
<1>1. UserStored' /\ CloudStored' /\ HeldIsThere' /\ SolrTypeOK'
  BY UserStoredKept, CloudStoredKept, HeldKept, SolrKept DEF Parts
<1> QED
  BY <1>1 DEF Parts

LEMMA SecretNamed ==
    ASSUME Parts, pc # "idle"
    PROVE  S \in Secrets
BY UserApiAssumption DEF Parts, WorkerInv, PassConsistent, S

LEMMA FillingsType ==
    ASSUME Parts, NEW sec \in SecretObj, NEW filled \in Fillings(sec)
    PROVE  filled \in SecretObj /\ filled.username # NONE
<1>1. Generate(Fresh) \subseteq Names
  <2>1. Fresh \in SUBSET Names
    BY DEF Fresh
  <2> QED
    BY <2>1, UserApiAssumption
<1>2. w.endpoint \in Endpoints \cup {NONE}
  BY DEF Parts, WorkerInv, Work
<1> QED
  BY <1>1, <1>2, SolrAssumption DEF Fillings, SecretObj

LEMMA ReconcileSecretType ==
    ASSUME Parts, pc # "idle", NEW sec \in SecretObj, NEW how \in Reasons,
           ReconcileSecret(sec, how), secretHeld' \subseteq Secrets,
           UNCHANGED <<userHeld, queue>>
    PROVE  WorkerInv'
<1>1. PICK filled \in Fillings(sec) :
        /\ w' = [w EXCEPT !.secret = filled,
                          !.dirty = filled # sec,
                          !.status = SecretStatus(w.status, sec, how)]
        /\ pc' = "checkExistence"
  BY DEF ReconcileSecret
<1>2. /\ w \in Work /\ w.status \in Status /\ WorkerInv /\ w.key \in Users
      /\ filled \in SecretObj /\ filled.username # NONE
  BY FillingsType DEF Parts, WorkerInv, Work, PassConsistent
<1>3. SecretStatus(w.status, sec, how) \in Status
  BY <1>2, SecretStatusType
<1>4. /\ w' \in Work /\ w'.key = w.key
      /\ w'.secret # NONE /\ w'.secret.username # NONE
  BY <1>1, <1>2, <1>3, ObjectAssumption DEF Work
<1> QED
  BY <1>1, <1>2, <1>4
     DEF WorkerInv, PassConsistent, Labels, SharedLabels, EnsureLabels,
         DeleteLabels, HadSecret, BeforeSecret, Observing

LEMMA GetSecretType ==
    ASSUME Parts, GetSecret
    PROVE  Parts'
<1>1. pc # "idle" /\ pc = "getSecret" /\ S \in Secrets /\ WorkerInv
  BY SecretNamed DEF GetSecret, Parts
<1>2. spent' \in 0 .. MaxDisruptions
  <2>1. Calm \/ \E kind : Disrupt(kind)
    BY DEF GetSecret
  <2> QED
    BY <2>1, SpentType DEF Parts
<1>3. WorkerInv' /\ userHeld' \subseteq userHeld
  <2>1. CASE /\ secretCache[S] # NONE
             /\ ReconcileSecret(secretCache[S], "Exists")
             /\ secretHeld' = {S} \ secretLag
             /\ UNCHANGED <<userHeld, queue>>
    <3>1. secretCache[S] \in SecretObj /\ "Exists" \in Reasons
      BY <1>1, <2>1 DEF Parts, SecretStored, Reasons, TrueReasons
    <3> QED
      BY <1>1, <2>1, <3>1, ReconcileSecretType
  <2>2. CASE WithoutSecret([w.status EXCEPT !.SecretExists = "FailedLoad"])
    <3> DEFINE st == [w.status EXCEPT !.SecretExists = "FailedLoad"]
               label == IF w.ensure THEN "createSecret" ELSE "checkExistence"
    <3>1. st \in Status
      BY <1>1, StatusType DEF Reasons, OtherReasons, WorkerInv, Work
    <3> HIDE DEF st
    <3>2. CASE w.ensure
      <4>1. Fits("createSecret", st)
        BY <1>1, <3>2 DEF Fits, Labels, EnsureLabels, DeleteLabels, HadSecret,
                          BeforeSecret, Observing, WorkerInv, PassConsistent
      <4> QED
        BY <1>1, <2>2, <3>1, <3>2, <4>1, GoOn DEF WithoutSecret, st
    <3>3. CASE ~w.ensure
      <4>1. Fits("checkExistence", st)
        BY <1>1, <3>3 DEF Fits, Labels, SharedLabels, EnsureLabels, DeleteLabels,
                          HadSecret, BeforeSecret, Observing, WorkerInv,
                          PassConsistent
      <4> QED
        BY <1>1, <2>2, <3>1, <3>3, <4>1, GoOn DEF WithoutSecret, st
    <3> QED
      BY <3>2, <3>3
  <2> QED
    BY <2>1, <2>2 DEF GetSecret
<1>4. SecretStored'
  BY SecretStoredKept DEF GetSecret, Parts
<1> QED
  BY <1>2, <1>3, <1>4, SecretStep DEF GetSecret

LEMMA CreateSecretType ==
    ASSUME Parts, CreateSecret
    PROVE  Parts'
<1>1. /\ pc # "idle" /\ S \in Secrets /\ WorkerInv /\ w.status \in Status
  BY SecretNamed DEF CreateSecret, Parts, WorkerInv, Work
<1> DEFINE st == [w.status EXCEPT !.SecretExists = "FailedCreation"]
<1>2. st \in Status
  BY <1>1, StatusType DEF Reasons, OtherReasons
<1> HIDE DEF st
<1>3. PICK o \in Outcomes :
        /\ ApiWrite(secret[S] = NONE, o)
        /\ IF Applied(o) THEN PutSecret(S, EmptySecret)
                         ELSE UNCHANGED <<secret, secretLag, secretEvent>>
        /\ \/ Failed(o) /\ Fail(st)
           \/ /\ ~Failed(o)
              /\ ReconcileSecret(EmptySecret, "Created")
              /\ secretHeld' = {S}
              /\ UNCHANGED <<userHeld, queue>>
  BY DEF CreateSecret, st
<1>4. spent' \in 0 .. MaxDisruptions
  BY <1>3, SpentType DEF ApiWrite, Parts
<1>5. SecretStored'
  <2>1. UNCHANGED secretCache
    BY DEF CreateSecret
  <2> QED
    BY <1>1, <1>3, <2>1, BlankType, PutSecretType, SecretStoredKept DEF Parts
<1>6. WorkerInv' /\ userHeld' \subseteq userHeld
  <2>1. CASE Fail(st)
    BY <1>1, <1>2, <2>1, FailType
  <2>2. CASE /\ ReconcileSecret(EmptySecret, "Created")
             /\ secretHeld' = {S}
             /\ UNCHANGED <<userHeld, queue>>
    BY <1>1, <2>2, BlankType, ReconcileSecretType DEF Reasons, TrueReasons
  <2> QED
    BY <1>3, <2>1, <2>2
<1> QED
  BY <1>4, <1>5, <1>6, SecretStep DEF CreateSecret

LEMMA UpdateSecretType ==
    ASSUME Parts, UpdateSecret
    PROVE  Parts'
<1>1. /\ pc = "updateSecret" /\ pc # "idle" /\ S \in Secrets /\ WorkerInv
      /\ pc \in HadSecret /\ w.ensure
      /\ w.status \in Status /\ w.secret \in SecretObj
  BY SecretNamed DEF UpdateSecret, Parts, WorkerInv, Work, PassConsistent,
                     HadSecret, EnsureLabels
<1>2. PICK o \in Outcomes :
        /\ ApiWrite(S \in secretHeld, o)
        /\ IF Applied(o) THEN PutSecret(S, w.secret)
                         ELSE UNCHANGED <<secret, secretLag, secretEvent>>
  BY DEF UpdateSecret
<1>3. spent' \in 0 .. MaxDisruptions
  BY <1>2, SpentType DEF ApiWrite, Parts
<1>4. SecretStored'
  <2>1. UNCHANGED secretCache
    BY DEF UpdateSecret
  <2> QED
    BY <1>1, <1>2, <2>1, PutSecretType, SecretStoredKept DEF Parts
<1>5. WorkerInv' /\ userHeld' \subseteq userHeld
  BY <1>1, EnsuringOn, GoOn DEF UpdateSecret
<1> QED
  BY <1>3, <1>4, <1>5, SecretStep DEF UpdateSecret

-----------------------------------------------------------------------------
(* The worker takes a key.                                                 *)

LEMMA BeginType ==
    ASSUME Parts, NEW u \in Users, Begin(u)
    PROVE  Parts'
<1>1. /\ WorkerInv /\ userCache[u] \in UserObj /\ userCache[u].status \in Status
      /\ cloudCache \in Endpoints \cup {NONE}
  BY DEF Begin, Parts, UserStored, UserObj, CloudStored
<1>2. spent' \in 0 .. MaxDisruptions
  <2>1. Calm \/ \E kind : Disrupt(kind)
    BY DEF Begin
  <2> QED
    BY <2>1, SpentType DEF Parts
<1>3. /\ SolrTypeOK' /\ CloudStored' /\ SecretStored' /\ UserStored'
      /\ UNCHANGED <<user, secretHeld>>
  BY SolrKept, CloudStoredKept, SecretStoredKept, UserStoredKept
     DEF Begin, Parts, secretVars
<1>4. HeldIsThere'
  BY <1>3 DEF Begin, HeldIsThere, Parts, UserStored
<1>5. /\ w' \in Work /\ w'.key = u /\ w'.secret = NONE
      /\ w'.ensure = Ensures(userCache[u])
  BY <1>1, BlankType DEF Begin, Work, NoWork, Ensures, UserObj
<1>6. PassConsistent'
  BY <1>1, <1>5 DEF Begin, Route, Ensures, PassConsistent, EnsureLabels,
                    DeleteLabels, HadSecret, Observing
<1>7. pc' \in Labels
  BY DEF Begin, Route, Labels, EnsureLabels, SharedLabels
<1>8. WorkerInv'
  BY <1>1, <1>3, <1>5, <1>6, <1>7 DEF Begin, WorkerInv
<1> QED
  BY <1>2, <1>3, <1>4, <1>8 DEF Parts

LEMMA ObjectGoneType ==
    ASSUME Parts, NEW u \in Users, ObjectGone(u)
    PROVE  Parts'
<1>1. spent' \in 0 .. MaxDisruptions
  BY DEF ObjectGone, Calm, Parts
<1>2. /\ SolrTypeOK' /\ CloudStored' /\ SecretStored' /\ UserStored'
      /\ HeldIsThere'
  BY SolrKept, CloudStoredKept, SecretStoredKept, UserStoredKept, HeldKept
     DEF ObjectGone, Parts, secretVars, userVars
<1>3. WorkerInv'
  BY DEF ObjectGone, WorkerInv, PassConsistent, Parts, userVars, secretVars,
         workVars
<1> QED
  BY <1>1, <1>2, <1>3 DEF Parts

LEMMA CrashType ==
    ASSUME Parts, Crash
    PROVE  Parts'
<1>1. /\ spent' \in 0 .. MaxDisruptions /\ SolrTypeOK'
  BY SpentType, SolrKept DEF Crash, Parts
<1>2. UserStored'
  BY DEF Crash, Relist, Parts, UserStored, NothingOverdue, Held
<1>3. SecretStored' /\ CloudStored' /\ HeldIsThere'
  BY DEF Crash, Relist, Parts, SecretStored, CloudStored, HeldIsThere
<1>4. WorkerInv'
  BY BlankType DEF Crash, Relist, WorkerInv, PassConsistent, NoWork, Labels,
                   EnsureLabels, DeleteLabels, HadSecret, Observing
<1> QED
  BY <1>1, <1>2, <1>3, <1>4 DEF Parts

-----------------------------------------------------------------------------
(* Everybody else.                                                         *)

LEMMA EditUserType ==
    ASSUME Parts, NEW u \in Users, NEW obj \in UserObj \cup {NONE}, Held(obj),
           EditUser(u, obj), Calm \/ \E kind : Disrupt(kind),
           UNCHANGED workVars
    PROVE  Parts'
<1>1. /\ spent' \in 0 .. MaxDisruptions
      /\ SolrTypeOK' /\ CloudStored' /\ SecretStored'
  BY SpentType, SolrKept, CloudStoredKept, SecretStoredKept
     DEF EditUser, Parts, secretVars
<1>2. UserStored' /\ user' = [user EXCEPT ![u] = obj]
  BY PutUserType DEF EditUser, Parts
<1>3. HeldIsThere'
  BY <1>2 DEF EditUser, HeldIsThere, Parts, UserStored, WorkerInv
<1>4. WorkerInv'
  BY DEF EditUser, WorkerInv, PassConsistent, Parts, secretVars, workVars
<1> QED
  BY <1>1, <1>2, <1>3, <1>4 DEF Parts

LEMMA EditSecretType ==
    ASSUME Parts, NEW s \in Secrets, NEW obj \in SecretObj \cup {NONE},
           EditSecret(s, obj), \E kind : Disrupt(kind), UNCHANGED workVars
    PROVE  Parts'
<1>1. spent' \in 0 .. MaxDisruptions
  BY SpentType DEF Parts
<1>2. SecretStored'
  BY PutSecretType DEF EditSecret, Parts
<1>3. WorkerInv'
  BY DEF EditSecret, WorkerInv, PassConsistent, Parts, userVars, workVars
<1> QED
  BY <1>1, <1>2, <1>3, SecretStep DEF EditSecret, userVars

LEMMA UserEditsType ==
    ASSUME Parts, NEW u \in Users, UNCHANGED workVars,
           Apply(u) \/ RequestDelete(u) \/ DropForeign(u)
    PROVE  Parts'
<1>1. user[u] \in UserObj \cup {NONE}
  BY DEF Parts, UserStored
<1>2. CASE Apply(u)
  <2>1. NewUser(u) \in UserObj /\ Held(NewUser(u))
    BY BlankType DEF NewUser, Held
  <2> QED
    BY <1>2, <2>1, EditUserType DEF Apply
<1>3. CASE RequestDelete(u)
  <2> DEFINE obj == [user[u] EXCEPT !.deleting = TRUE]
  <2>1. obj \in UserObj
    BY <1>1, <1>3 DEF RequestDelete, Live, UserObj
  <2> HIDE DEF obj
  <2>2. Reaped(obj) \in UserObj \cup {NONE} /\ Held(Reaped(obj))
    BY <2>1, ReapedIsHeld
  <2> QED
    BY <1>3, <2>2, EditUserType DEF RequestDelete, obj
<1>4. CASE DropForeign(u)
  <2> DEFINE obj == [user[u] EXCEPT !.foreign = FALSE]
  <2>1. obj \in UserObj
    BY <1>1, <1>4 DEF DropForeign, UserObj
  <2> HIDE DEF obj
  <2>2. Reaped(obj) \in UserObj \cup {NONE} /\ Held(Reaped(obj))
    BY <2>1, ReapedIsHeld
  <2> QED
    BY <1>4, <2>2, EditUserType DEF DropForeign, obj
<1> QED
  BY <1>2, <1>3, <1>4

LEMMA SecretEditsType ==
    ASSUME Parts, NEW s \in Secrets, UNCHANGED workVars,
           RotatePassword(s) \/ StripSecret(s) \/ DropSecret(s) \/ BringSecret(s)
    PROVE  Parts'
<1>1. secret[s] \in SecretObj \cup {NONE}
  BY DEF Parts, SecretStored
<1>2. PICK obj \in SecretObj \cup {NONE} :
        EditSecret(s, obj) /\ \E kind : Disrupt(kind)
  <2>1. CASE RotatePassword(s)
    BY <1>1, <2>1 DEF RotatePassword, SecretObj
  <2>2. CASE StripSecret(s)
    BY <1>1, <2>2 DEF StripSecret, SecretObj
  <2>3. CASE DropSecret(s)
    BY <2>3 DEF DropSecret
  <2>4. CASE BringSecret(s)
    BY <2>4 DEF BringSecret, EmptySecret, SecretObj
  <2> QED
    BY <2>1, <2>2, <2>3, <2>4
<1> QED
  BY <1>2, EditSecretType

LEMMA UserInformersType ==
    ASSUME Parts, NEW u \in Users, UNCHANGED workVars, Deliver(u) \/ Resync(u)
    PROVE  Parts'
<1>1. /\ spent' \in 0 .. MaxDisruptions /\ SolrTypeOK' /\ CloudStored'
      /\ SecretStored'
  BY SpentType, SolrKept, CloudStoredKept, SecretStoredKept
     DEF Deliver, Resync, Calm, Parts, secretVars
<1>2. UserStored'
  <2>1. CASE Deliver(u)
    BY <2>1 DEF Deliver, Parts, UserStored, NothingOverdue, Held
  <2>2. CASE Resync(u)
    BY <2>2, UserStoredKept DEF Resync, Parts, userVars
  <2> QED
    BY <2>1, <2>2
<1>3. HeldIsThere' /\ WorkerInv'
  BY DEF Deliver, Resync, HeldIsThere, WorkerInv, PassConsistent, Parts,
         userVars, secretVars, workVars
<1> QED
  BY <1>1, <1>2, <1>3 DEF Parts

LEMMA SecretInformersType ==
    ASSUME Parts, NEW s \in Secrets, UNCHANGED workVars,
           SyncSecret(s) \/ DeliverSecretEvent(s)
    PROVE  Parts'
<1>1. SecretStored'
  BY DEF SyncSecret, DeliverSecretEvent, Parts, SecretStored
<1>2. spent' \in 0 .. MaxDisruptions /\ userHeld' \subseteq userHeld
  BY DEF SyncSecret, DeliverSecretEvent, Calm, Parts, userVars
<1>3. WorkerInv'
  <2>1. Watching(s) \subseteq Users
    BY UserApiAssumption DEF Watching
  <2> QED
    BY <2>1 DEF SyncSecret, DeliverSecretEvent, WorkerInv, PassConsistent,
                Parts, userVars, workVars
<1> QED
  BY <1>1, <1>2, <1>3, SecretStep
     DEF SyncSecret, DeliverSecretEvent, userVars

LEMMA CloudType ==
    ASSUME Parts, UNCHANGED workVars,
           CloudChange \/ SyncCloud \/ DeliverCloudEvent
    PROVE  Parts'
<1>1. CloudStored'
  BY DEF CloudChange, SyncCloud, DeliverCloudEvent, Parts, CloudStored
<1>2. /\ spent' \in 0 .. MaxDisruptions /\ SolrTypeOK'
      /\ UserStored' /\ SecretStored' /\ HeldIsThere'
  BY SpentType, SolrKept, UserStoredKept, SecretStoredKept, HeldKept
     DEF CloudChange, SyncCloud, DeliverCloudEvent, Calm, Parts, userVars,
         secretVars
<1>3. WorkerInv'
  <2>1. WatchingCloud \subseteq Users
    BY UserApiAssumption DEF WatchingCloud
  <2> QED
    BY <2>1 DEF CloudChange, SyncCloud, DeliverCloudEvent, WorkerInv,
                PassConsistent, Parts, userVars, secretVars, workVars
<1> QED
  BY <1>1, <1>2, <1>3 DEF Parts

LEMMA DriftType ==
    ASSUME Parts, SolrDrift, UNCHANGED apiVars, UNCHANGED workVars
    PROVE  Parts'
<1>1. spent' \in 0 .. MaxDisruptions
  BY SpentType DEF SolrDrift, Parts
<1>2. SolrTypeOK'
  BY DEF SolrDrift, SolrTypeOK, Parts
<1>3. WorkerInv' /\ userHeld' \subseteq userHeld
  BY WorkerKept DEF Parts, apiVars, workVars, userVars, secretVars
<1> QED
  BY <1>1, <1>2, <1>3, SolrStep
     DEF apiVars, userVars, secretVars, kubernetesVars

LEMMA StutterType ==
    ASSUME Parts, UNCHANGED vars
    PROVE  Parts'
<1>1. /\ UNCHANGED <<spent, solrVars, pc, w, queue, userHeld, secretHeld>>
      /\ UNCHANGED kubernetesVars
  BY DEF vars, apiVars, workVars, userVars, secretVars, kubernetesVars
<1>2. WorkerInv' /\ SolrTypeOK'
  BY <1>1, WorkerKept, SolrKept DEF Parts
<1> QED
  BY <1>1, <1>2, SolrStep DEF Parts

-----------------------------------------------------------------------------
(***************************************************************************)
(* TypeInv is inductive.                                                   *)
(***************************************************************************)
LEMMA InitParts == Init => Parts
<1> SUFFICES ASSUME Init
             PROVE  Parts
  OBVIOUS
<1>1. spent \in 0 .. MaxDisruptions /\ SolrTypeOK
  BY DisruptionsAssumption DEF Init, SolrInit, SolrTypeOK
<1>2. UserStored
  BY BlankType DEF Init, ApiInit, UserStored, NothingOverdue, Held, NewUser
<1>3. SecretStored /\ CloudStored /\ HeldIsThere
  BY DEF Init, ApiInit, SecretStored, CloudStored, HeldIsThere
<1>4. WorkerInv
  BY BlankType DEF Init, ApiInit, WorkerInv, PassConsistent, NoWork, Labels,
                   EnsureLabels, DeleteLabels, HadSecret, Observing
<1> QED
  BY <1>1, <1>2, <1>3, <1>4 DEF Parts

LEMMA PassStepParts ==
    ASSUME Parts, PassStep
    PROVE  Parts'
BY AddFinalizerType, InitStatusType, GetSecretType, CreateSecretType,
   CheckExistenceType, CheckPasswordType, CheckRolesType, EnsureUserType,
   UpdatePasswordType, GetRolesType, UpsertRolesType, UpdateSecretType,
   OkStatusType, FailStatusType, RevokeRolesType, RevokeUserType,
   RemoveFinalizerType
   DEF PassStep

LEMMA EnvironmentParts ==
    ASSUME Parts, Environment
    PROVE  Parts'
<1>1. CASE UserEdits
  BY <1>1, UserEditsType, SecretEditsType, CloudType DEF Environment, UserEdits
<1>2. CASE Informers
  BY <1>2, UserInformersType, SecretInformersType, CloudType
     DEF Environment, Informers
<1>3. CASE SolrDrift /\ UNCHANGED apiVars
  BY <1>3, DriftType DEF Environment
<1> QED
  BY <1>1, <1>2, <1>3 DEF Environment

LEMMA NextParts ==
    ASSUME Parts, [Next]_vars
    PROVE  Parts'
<1>1. CASE TakeKey
  BY <1>1, ObjectGoneType, StutterType, BeginType DEF TakeKey, NoClient
<1>2. CASE PassStep
  BY <1>2, PassStepParts
<1>3. CASE Environment
  BY <1>3, EnvironmentParts
<1>4. CASE Crash
  BY <1>4, CrashType
<1>5. CASE UNCHANGED vars
  BY <1>5, StutterType
<1> QED
  BY <1>1, <1>2, <1>3, <1>4, <1>5 DEF Next, Worker

(***************************************************************************)
(* Spec => []TypeInv: every variable has its type, a pass only goes through *)
(* the steps of its kind and has a secret with a name when it needs one,   *)
(* and a copy that is not behind is the stored object.                     *)
(***************************************************************************)
THEOREM TypeInvariant == Spec => []TypeInv
<1>1. Init => TypeInv
  BY InitParts, TypeInvIsParts
<1>2. TypeInv /\ [Next]_vars => TypeInv'
  BY NextParts, TypeInvIsParts, TypeInvIsPartsNext
<1> QED
  BY <1>1, <1>2, PTL DEF Spec

(***************************************************************************)
(* Spec => []TypeOK: the type invariant that the runs check.               *)
(***************************************************************************)
THEOREM TypeCorrect == Spec => []TypeOK
<1>1. TypeInv => TypeOK
  BY DEF TypeInv
<1> QED
  BY <1>1, TypeInvariant, PTL

-----------------------------------------------------------------------------
(***************************************************************************)
(* The finalizer comes first.  FinalizerInv says why: as long as nobody    *)
(* else's finalizer keeps a User around, a cached User that is live and    *)
(* has our finalizer is never so old that the stored one has lost it.      *)
(***************************************************************************)
LEMMA Ours ==
    /\ OnlyOurs \subseteq Users
    /\ \A u \in OnlyOurs : ~NewUser(u).foreign
BY DEF OnlyOurs, NewUser

(* A pass that is past addFinalizer goes on for the same User, or ends.    *)
PassGoesOn ==
    \/ pc' = "idle"
    \/ /\ pc \notin {"idle", "addFinalizer"}
       /\ pc' # "addFinalizer"
       /\ w'.key = w.key
       /\ w'.ensure = w.ensure
       /\ userHeld' \subseteq userHeld

LEMMA GoToGoesOn ==
    ASSUME w \in Work, pc \notin {"idle", "addFinalizer"}, NEW st,
           NEW label, label # "addFinalizer", GoTo(label, st)
    PROVE  PassGoesOn
BY DEF GoTo, PassGoesOn, Work

LEMMA EndGoesOn ==
    ASSUME Done \/ Requeue
    PROVE  PassGoesOn
BY DEF Done, Requeue, LeavePass, PassGoesOn

LEMMA FailGoesOnOrEnds ==
    ASSUME w \in Work, pc \notin {"idle", "addFinalizer"}, NEW st, Fail(st)
    PROVE  PassGoesOn
BY GoToGoesOn, EndGoesOn DEF Fail

LEMMA ReconcileSecretGoesOn ==
    ASSUME w \in Work, pc \notin {"idle", "addFinalizer"}, NEW sec, NEW how,
           ReconcileSecret(sec, how), UNCHANGED userHeld
    PROVE  PassGoesOn
BY DEF ReconcileSecret, PassGoesOn, Work

LEMMA StepGoesOn ==
    ASSUME w \in Work, PassStep, ~AddFinalizer
    PROVE  PassGoesOn
<1>1. CASE InitStatus
  BY <1>1, GoToGoesOn, EndGoesOn DEF InitStatus
<1>2. CASE GetSecret
  <2>1. CASE ReconcileSecret(secretCache[S], "Exists") /\ UNCHANGED userHeld
    BY <1>2, <2>1, ReconcileSecretGoesOn DEF GetSecret
  <2>2. CASE WithoutSecret([w.status EXCEPT !.SecretExists = "FailedLoad"])
    BY <1>2, <2>2, GoToGoesOn DEF GetSecret, WithoutSecret
  <2> QED
    BY <1>2, <2>1, <2>2 DEF GetSecret
<1>3. CASE CreateSecret
  BY <1>3, FailGoesOnOrEnds, ReconcileSecretGoesOn DEF CreateSecret
<1>4. CASE CheckExistence
  BY <1>4, FailGoesOnOrEnds, GoToGoesOn DEF CheckExistence
<1>5. CASE CheckPassword
  BY <1>5, FailGoesOnOrEnds, GoToGoesOn DEF CheckPassword
<1>6. CASE CheckRoles
  BY <1>6, FailGoesOnOrEnds, GoToGoesOn
     DEF CheckRoles, Ensure, Revoke, AfterUser, AfterRoles, AfterRevoke
<1>7. CASE EnsureUser
  BY <1>7, FailGoesOnOrEnds, GoToGoesOn DEF EnsureUser, AfterUser, AfterRoles
<1>8. CASE UpdatePassword
  BY <1>8, FailGoesOnOrEnds, GoToGoesOn
     DEF UpdatePassword, AfterUser, AfterRoles
<1>9. CASE GetRoles
  BY <1>9, FailGoesOnOrEnds DEF GetRoles, PassGoesOn, Work
<1>10. CASE UpsertRoles
  BY <1>10, FailGoesOnOrEnds, GoToGoesOn DEF UpsertRoles, AfterRoles
<1>11. CASE UpdateSecret
  BY <1>11, GoToGoesOn DEF UpdateSecret
<1>12. CASE OkStatus
  BY <1>12, EndGoesOn DEF OkStatus
<1>13. CASE FailStatus
  BY <1>13, EndGoesOn DEF FailStatus
<1>14. CASE RevokeRoles
  BY <1>14, FailGoesOnOrEnds, GoToGoesOn DEF RevokeRoles, AfterRevoke
<1>15. CASE RevokeUser
  BY <1>15, FailGoesOnOrEnds, GoToGoesOn DEF RevokeUser
<1>16. CASE RemoveFinalizer
  BY <1>16, EndGoesOn DEF RemoveFinalizer
<1> QED
  BY <1>1, <1>2, <1>3, <1>4, <1>5, <1>6, <1>7, <1>8, <1>9, <1>10, <1>11,
     <1>12, <1>13, <1>14, <1>15, <1>16 DEF PassStep

(* A step after which every User has the flags it had.                     *)
SameFlags(new, old) ==
    /\ (new = NONE) <=> (old = NONE)
    /\ old # NONE => /\ new.deleting = old.deleting
                     /\ new.finalizer = old.finalizer
                     /\ new.foreign = old.foreign

LEMMA FlagsKept ==
    ASSUME Parts, FinalizerInv, PassGoesOn,
           WorkerInv', \A u \in Users : SameFlags(user'[u], user[u]),
           UNCHANGED userCache
    PROVE  FinalizerInv'
<1>1. pc' # "idle" => w.key \in Users
  BY DEF PassGoesOn, Parts, WorkerInv, PassConsistent
<1>2. CachesTellFinalizers'
  BY Ours DEF FinalizerInv, CachesTellFinalizers, SameFlags, Foreign, Kept,
              Live, HasFinalizer
<1>3. ProvisioningGuarded'
  BY <1>1 DEF FinalizerInv, ProvisioningGuarded, Provisioning, PassGoesOn,
              SameFlags, OnlyOurs
<1>4. (w'.key \in OnlyOurs /\ pc' # "idle" /\ ~w'.ensure) =>
        /\ ~Kept(userCache'[w'.key]) /\ ~Kept(user'[w'.key])
        /\ w'.key \in userHeld' => user'[w'.key].deleting
  BY <1>1 DEF FinalizerInv, PassGoesOn, SameFlags, Kept, Live, Parts,
              HeldIsThere
<1>5. pc' # "addFinalizer"
  BY DEF PassGoesOn
<1> QED
  BY <1>2, <1>3, <1>4, <1>5 DEF FinalizerInv, OnlyOurs, Kept, Live

(* A status update keeps the flags.                                        *)
LEMMA StatusWritten ==
    ASSUME Parts, pc # "idle", NEW st \in Status, NEW o,
           WriteUser([user[w.key] EXCEPT !.status = st], o)
    PROVE  /\ \A u \in Users : SameFlags(user'[u], user[u])
           /\ UNCHANGED userCache
<1> DEFINE obj == [user[w.key] EXCEPT !.status = st]
<1>1. w.key \in userHeld =>
        /\ obj \in UserObj /\ user[w.key] \in UserObj
        /\ Reaped(obj) = obj
        /\ SameFlags(obj, user[w.key])
  <2>1. ASSUME w.key \in userHeld
        PROVE  /\ obj \in UserObj /\ user[w.key] \in UserObj
               /\ Reaped(obj) # NONE
    BY <2>1, HeldUser, EditedUser
  <2>2. ASSUME w.key \in userHeld
        PROVE  SameFlags(obj, user[w.key])
    BY <2>1, <2>2, ObjectAssumption DEF SameFlags, UserObj
  <2> QED
    BY <2>1, <2>2, ReapedIsHeld
<1>2. /\ \/ UNCHANGED user
         \/ /\ w.key \in userHeld
            /\ user' = [user EXCEPT ![w.key] = Reaped(obj)]
      /\ UNCHANGED userCache
  BY <1>1, WriteUserType DEF WriteUser
<1> HIDE DEF obj
<1> QED
  BY <1>1, <1>2 DEF SameFlags, Parts, UserStored

(* The steps that write no flags: requests to Solr and for the secret.     *)
LEMMA QuietStepFinalizer ==
    ASSUME Parts, Parts', FinalizerInv, PassGoesOn, UNCHANGED <<user, userCache>>
    PROVE  FinalizerInv'
<1>1. \A u \in Users : SameFlags(user'[u], user[u])
  BY DEF SameFlags
<1> QED
  BY <1>1, FlagsKept DEF Parts

LEMMA StatusStepFlags ==
    ASSUME Parts, InitStatus \/ OkStatus \/ FailStatus
    PROVE  (\A u \in Users : SameFlags(user'[u], user[u])) /\ UNCHANGED userCache
<1>1. PICK st \in Status, o \in Outcomes :
        WriteUser([user[w.key] EXCEPT !.status = st], o)
  <2> DEFINE init == [w.status EXCEPT !.Available = "Reconciling",
                                      !.Exists = "Reconciling",
                                      !.HasRoles = "Reconciling",
                                      !.PasswordUpToDate = "Reconciling"]
             ok == [w.status EXCEPT !.Available = "ReconcileSuccess"]
             bad == [w.status EXCEPT !.Available = "ReconciliationFailed"]
  <2>1. w.status \in Status
    BY DEF Parts, WorkerInv, Work
  <2>2. init \in Status /\ ok \in Status /\ bad \in Status
    BY <2>1, StatusType DEF Reasons, TrueReasons, OtherReasons
  <2>3. \E o \in Outcomes :
          \/ WriteUser([user[w.key] EXCEPT !.status = init], o)
          \/ WriteUser([user[w.key] EXCEPT !.status = ok], o)
          \/ WriteUser([user[w.key] EXCEPT !.status = bad], o)
    BY DEF InitStatus, OkStatus, FailStatus
  <2> HIDE DEF init, ok, bad
  <2> QED
    BY <2>2, <2>3
<1>2. pc # "idle"
  BY DEF InitStatus, OkStatus, FailStatus
<1> QED
  BY <1>1, <1>2, StatusWritten

LEMMA StatusStepFinalizer ==
    ASSUME Parts, Parts', FinalizerInv, InitStatus \/ OkStatus \/ FailStatus
    PROVE  FinalizerInv'
<1>1. PassGoesOn
  BY StepGoesOn
     DEF PassStep, AddFinalizer, InitStatus, OkStatus, FailStatus, Parts, WorkerInv
<1> QED
  BY <1>1, StatusStepFlags, FlagsKept DEF Parts

(* All other steps of a pass leave the User alone.                         *)
LEMMA QuietSteps ==
    ASSUME PassStep, ~(\/ AddFinalizer \/ InitStatus \/ OkStatus \/ FailStatus
                       \/ RemoveFinalizer)
    PROVE  UNCHANGED <<user, userCache>>
BY DEF PassStep, GetSecret, CreateSecret, CheckExistence, CheckPassword,
       CheckRoles, EnsureUser, UpdatePassword, GetRoles, UpsertRoles,
       UpdateSecret, RevokeRoles, RevokeUser, kubernetesVars

(* The finalizer goes on the object that was read, which is live.          *)
LEMMA AddFinalizerFinalizer ==
    ASSUME Parts, Parts', FinalizerInv, AddFinalizer
    PROVE  FinalizerInv'
<1> DEFINE obj == [user[w.key] EXCEPT !.finalizer = TRUE]
<1>1. /\ pc = "addFinalizer" /\ w.ensure /\ w.key \in Users
      /\ w \in Work /\ userHeld \subseteq {w.key}
  BY DEF AddFinalizer, Parts, WorkerInv, PassConsistent, EnsureLabels
<1>2. PICK o \in Outcomes :
        /\ WriteUser(obj, o)
        /\ IF Failed(o) THEN Requeue ELSE GoTo("initStatus", w.status)
  BY DEF AddFinalizer
<1>3. w.key \in userHeld =>
        /\ user[w.key] \in UserObj /\ obj \in UserObj
        /\ Reaped(obj) = obj /\ obj # NONE /\ obj.finalizer
  <2>1. ASSUME w.key \in userHeld
        PROVE  /\ user[w.key] \in UserObj
               /\ obj \in UserObj /\ obj.finalizer
    BY <1>1, <2>1, HeldUser DEF UserObj
  <2> QED
    BY <2>1, ObjectAssumption DEF Reaped
<1>4. (w.key \in userHeld /\ w.key \in OnlyOurs) =>
        /\ Live(obj) /\ ~obj.foreign
        /\ Live(userCache[w.key])
  <2>1. ASSUME w.key \in userHeld, w.key \in OnlyOurs
        PROVE  /\ user[w.key] \in UserObj /\ user[w.key] # NONE
               /\ Live(user[w.key]) /\ ~user[w.key].foreign
               /\ userCache[w.key] = user[w.key]
    BY <1>1, <2>1, HeldUser, ObjectAssumption
       DEF FinalizerInv, CachesTellFinalizers, Foreign, Live
  <2>2. ASSUME w.key \in userHeld, w.key \in OnlyOurs
        PROVE  /\ obj \in UserObj /\ ~obj.deleting /\ ~obj.foreign
    BY <2>1, <2>2 DEF UserObj, Live
  <2> QED
    BY <2>1, <2>2, ObjectAssumption DEF Live
<1> HIDE DEF obj
<1>5. /\ \/ UNCHANGED user
         \/ /\ w.key \in userHeld
            /\ user' = [user EXCEPT ![w.key] = obj]
      /\ UNCHANGED userCache
      /\ w.key \in userHeld \/ Failed(o)
  <2>1. w.key \in userHeld \/ Failed(o)
    BY <1>2 DEF WriteUser, ApiWrite, Failed
  <2> QED
    BY <1>1, <1>2, <1>3, <2>1, WriteUserType DEF WriteUser
<1>6. \/ pc' = "idle"
      \/ /\ pc' = "initStatus" /\ w'.key = w.key /\ w'.ensure
         /\ w.key \in userHeld
  BY <1>1, <1>2, <1>5 DEF GoTo, Requeue, LeavePass, Work
<1>7. CachesTellFinalizers'
  <2>1. CASE UNCHANGED user
    BY <1>5, <2>1 DEF FinalizerInv, CachesTellFinalizers
  <2>2. CASE w.key \in userHeld /\ user' = [user EXCEPT ![w.key] = obj]
    BY <1>1, <1>3, <1>4, <1>5, <2>2, Ours
       DEF FinalizerInv, CachesTellFinalizers, Foreign, Kept, Live,
           HasFinalizer, Parts, UserStored
  <2> QED
    BY <1>5, <2>1, <2>2
<1>8. pc' # "idle" => user'[w.key] # NONE /\ user'[w.key].finalizer
  <2>1. CASE UNCHANGED user /\ ~Failed(o)
    (* Nothing was written because the finalizer was there already.        *)
    <3>1. Applied(o)
      BY <1>2, <2>1 DEF WriteUser, ApiWrite, Failed, Applied
    <3>2. CASE obj # user[w.key]
      <4>1. user' = [user EXCEPT ![w.key] = Reaped(obj)]
        BY <1>2, <3>1, <3>2 DEF WriteUser, PutUser
      <4> QED
        BY <1>1, <1>3, <1>5, <2>1, <4>1 DEF Parts, UserStored
    <3>3. CASE obj = user[w.key]
      BY <1>1, <1>3, <1>5, <2>1, <3>3
    <3> QED
      BY <3>2, <3>3
  <2>2. CASE w.key \in userHeld /\ user' = [user EXCEPT ![w.key] = obj]
    BY <1>1, <1>3, <2>2 DEF Parts, UserStored
  <2>3. CASE Failed(o)
    BY <1>2, <2>3 DEF Requeue, LeavePass
  <2> QED
    BY <1>5, <2>1, <2>2, <2>3
<1> QED
  BY <1>6, <1>7, <1>8
     DEF FinalizerInv, ProvisioningGuarded, Provisioning

(* The finalizer comes off an object that is being deleted.                *)
LEMMA RemoveFinalizerFinalizer ==
    ASSUME Parts, Parts', FinalizerInv, RemoveFinalizer
    PROVE  FinalizerInv'
<1> DEFINE obj == [user[w.key] EXCEPT !.finalizer = FALSE]
<1>1. /\ pc = "removeFinalizer" /\ ~w.ensure /\ w.key \in Users
  BY DEF RemoveFinalizer, Parts, WorkerInv, PassConsistent, DeleteLabels
<1>2. PICK o \in Outcomes :
        WriteUser(obj, o) /\ IF Failed(o) THEN Requeue ELSE Done
  BY DEF RemoveFinalizer
<1>3. pc' = "idle" /\ UNCHANGED userCache
  BY <1>2 DEF Requeue, Done, LeavePass, WriteUser
<1>4. /\ w.key \in userHeld => obj \in UserObj
      /\ (w.key \in userHeld /\ w.key \in OnlyOurs) => Reaped(obj) = NONE
  <2>1. ASSUME w.key \in userHeld
        PROVE  user[w.key] \in UserObj
    BY <1>1, <2>1, HeldUser
  <2>2. ASSUME w.key \in userHeld, w.key \in OnlyOurs
        PROVE  user[w.key].deleting /\ ~user[w.key].foreign
    BY <1>1, <2>1, <2>2, ObjectAssumption
       DEF FinalizerInv, CachesTellFinalizers, Foreign
  <2> QED
    BY <2>1, <2>2 DEF UserObj, Reaped
<1> HIDE DEF obj
<1>5. \/ UNCHANGED user
      \/ /\ user' = [user EXCEPT ![w.key] = Reaped(obj)]
         /\ w.key \in OnlyOurs => Reaped(obj) = NONE
  BY <1>2, <1>4 DEF WriteUser, ApiWrite, PutUser, Applied
<1>6. CachesTellFinalizers'
  BY <1>1, <1>3, <1>5, Ours
     DEF FinalizerInv, CachesTellFinalizers, Foreign, Kept, Live, HasFinalizer,
         Parts, UserStored
<1> QED
  BY <1>3, <1>6 DEF FinalizerInv, ProvisioningGuarded, Provisioning

LEMMA PassStepFinalizer ==
    ASSUME Parts, Parts', FinalizerInv, PassStep
    PROVE  FinalizerInv'
<1>1. CASE AddFinalizer
  BY <1>1, AddFinalizerFinalizer
<1>2. CASE InitStatus \/ OkStatus \/ FailStatus
  BY <1>2, StatusStepFinalizer
<1>3. CASE RemoveFinalizer
  BY <1>3, RemoveFinalizerFinalizer
<1>4. CASE ~(AddFinalizer \/ InitStatus \/ OkStatus \/ FailStatus \/ RemoveFinalizer)
  <2>1. PassGoesOn
    BY <1>4, StepGoesOn DEF Parts, WorkerInv
  <2>2. UNCHANGED <<user, userCache>>
    BY <1>4, QuietSteps
  <2> QED
    BY <2>1, <2>2, QuietStepFinalizer
<1> QED
  BY <1>1, <1>2, <1>3, <1>4

LEMMA BeginFinalizer ==
    ASSUME Parts, Parts', FinalizerInv, NEW u \in Users, Begin(u)
    PROVE  FinalizerInv'
<1>1. /\ pc = "idle" /\ UNCHANGED <<user, userCache>>
      /\ pc' = Route(userCache[u]) /\ userHeld' = {u} \ userLag
      /\ w'.key = u /\ w'.ensure = Ensures(userCache[u])
  BY DEF Begin, NoWork
<1>2. CachesTellFinalizers'
  BY <1>1 DEF FinalizerInv, CachesTellFinalizers
<1>3. ASSUME u \in OnlyOurs
      PROVE  /\ (w'.ensure /\ pc' # "addFinalizer") =>
                  user[u] # NONE /\ user[u].finalizer
             /\ ~w'.ensure => /\ ~Kept(userCache[u]) /\ ~Kept(user[u])
                              /\ u \in userHeld' => user[u].deleting
             /\ (pc' = "addFinalizer" /\ u \in userHeld') =>
                  Live(user[u]) /\ userCache[u] = user[u]
  <2> DEFINE obj == userCache[u]
  <2>1. /\ obj \in UserObj /\ obj # NONE /\ ~obj.foreign /\ Held(obj)
    BY <1>3 DEF Begin, Parts, UserStored, NothingOverdue, FinalizerInv,
                CachesTellFinalizers, Foreign
  <2>2. obj.deleting => obj.finalizer
    BY <2>1 DEF Held
  <2>3. u \in userHeld' => user[u] = obj
    BY <1>1 DEF Parts, UserStored
  <2>4. Kept(obj) => HasFinalizer(user[u])
    BY <1>3 DEF FinalizerInv, CachesTellFinalizers
  <2>5. Kept(user[u]) => ~obj.deleting
    BY <1>3, <2>1 DEF FinalizerInv, CachesTellFinalizers
  <2> HIDE DEF obj
  <2>6. pc' = Route(obj) /\ w'.ensure = Ensures(obj)
    BY <1>1 DEF obj
  <2>7. (w'.ensure /\ pc' # "addFinalizer") => user[u] # NONE /\ user[u].finalizer
    BY <2>1, <2>2, <2>4, <2>6 DEF Route, Ensures, Kept, Live, HasFinalizer, UserObj
  <2>8. ~w'.ensure => /\ ~Kept(obj) /\ ~Kept(user[u])
                      /\ u \in userHeld' => user[u].deleting
    BY <2>3, <2>5, <2>6 DEF Ensures, Kept, Live
  <2>9. (pc' = "addFinalizer" /\ u \in userHeld') => Live(user[u]) /\ obj = user[u]
    BY <2>1, <2>3, <2>6 DEF Route, Live
  <2> QED
    BY <2>7, <2>8, <2>9 DEF obj
<1> QED
  BY <1>1, <1>2, <1>3 DEF FinalizerInv, ProvisioningGuarded, Provisioning

(* Any step of the worker's surroundings that leaves the Users and their   *)
(* cached copies alone.                                                    *)
LEMMA ElsewhereFinalizer ==
    ASSUME Parts, FinalizerInv, UNCHANGED <<user, userCache, pc, w>>,
           userHeld' \subseteq userHeld
    PROVE  FinalizerInv'
BY DEF FinalizerInv, CachesTellFinalizers, ProvisioningGuarded, Provisioning

(* Somebody else writes the User, keeping our finalizer where it was.      *)
LEMMA EditUserFinalizer ==
    ASSUME Parts, Parts', FinalizerInv, NEW u \in Users, NEW obj,
           EditUser(u, obj), UNCHANGED workVars,
           u \in OnlyOurs => /\ ~Foreign(obj)
                             /\ HasFinalizer(obj) <=> HasFinalizer(user[u])
                             /\ Kept(obj) => Kept(user[u])
    PROVE  FinalizerInv'
<1>1. /\ user' = [user EXCEPT ![u] = obj]
      /\ userHeld' = userHeld \ {u}
      /\ UNCHANGED <<userCache, pc, w>>
  BY DEF EditUser, PutUser, workVars
<1>2. \A v \in Users : user'[v] = IF v = u THEN obj ELSE user[v]
  BY <1>1 DEF Parts, UserStored
<1>3. CachesTellFinalizers'
  <2>1. ASSUME NEW v \in OnlyOurs
        PROVE  /\ ~Foreign(user'[v]) /\ ~Foreign(userCache'[v])
               /\ Kept(userCache'[v]) => HasFinalizer(user'[v])
               /\ Kept(user'[v]) => userCache'[v] = NONE \/ ~userCache'[v].deleting
    <3>1. CASE v = u
      BY <1>1, <1>2, <2>1, <3>1, Ours
         DEF FinalizerInv, CachesTellFinalizers, Kept
    <3>2. CASE v # u
      BY <1>1, <1>2, <2>1, <3>2, Ours DEF FinalizerInv, CachesTellFinalizers
    <3> QED
      BY <3>1, <3>2
  <2> QED
    BY <2>1 DEF CachesTellFinalizers
<1>4. ProvisioningGuarded'
  BY <1>1, <1>2, Ours DEF FinalizerInv, ProvisioningGuarded, Provisioning,
                          HasFinalizer
<1>5. w.key \in OnlyOurs =>
        /\ (pc # "idle" /\ ~w.ensure) =>
             /\ ~Kept(userCache[w.key]) /\ ~Kept(user'[w.key])
             /\ w.key \in userHeld' => user'[w.key].deleting
        /\ (pc = "addFinalizer" /\ w.key \in userHeld') =>
             Live(user'[w.key]) /\ userCache[w.key] = user'[w.key]
  BY <1>1, <1>2, Ours DEF FinalizerInv
<1> QED
  BY <1>1, <1>3, <1>4, <1>5 DEF FinalizerInv

LEMMA UserEditsFinalizer ==
    ASSUME Parts, Parts', FinalizerInv, NEW u \in Users,
           UNCHANGED workVars, Apply(u) \/ RequestDelete(u) \/ DropForeign(u)
    PROVE  FinalizerInv'
<1>1. /\ user[u] \in UserObj \cup {NONE}
      /\ u \in OnlyOurs => ~Foreign(user[u])
  BY DEF Parts, UserStored, FinalizerInv, CachesTellFinalizers
<1>2. CASE Apply(u)
  <2>1. /\ u \in OnlyOurs => ~Foreign(NewUser(u))
        /\ ~HasFinalizer(NewUser(u))
        /\ ~Kept(NewUser(u)) /\ ~HasFinalizer(user[u])
    BY <1>2, Ours DEF Apply, NewUser, Foreign, HasFinalizer, Kept
  <2> QED
    BY <1>2, <2>1, EditUserFinalizer DEF Apply
<1>3. CASE RequestDelete(u)
  <2> DEFINE obj == [user[u] EXCEPT !.deleting = TRUE]
  <2>1. /\ obj \in UserObj /\ obj.deleting
        /\ obj.finalizer = user[u].finalizer
        /\ u \in OnlyOurs => ~obj.foreign
        /\ obj # NONE /\ user[u] # NONE
    BY <1>1, <1>3, ObjectAssumption DEF RequestDelete, Live, UserObj, Foreign
  <2>2. EditUser(u, Reaped(obj))
    BY <1>3 DEF RequestDelete
  <2> HIDE DEF obj
  <2>3. u \in OnlyOurs =>
          /\ ~Foreign(Reaped(obj)) /\ ~Kept(Reaped(obj))
          /\ HasFinalizer(Reaped(obj)) <=> HasFinalizer(user[u])
    BY <2>1, ReapedIsHeld DEF Reaped, Foreign, Kept, Live, HasFinalizer
  <2> QED
    BY <2>2, <2>3, EditUserFinalizer
<1>4. CASE DropForeign(u)
  <2>1. u \notin OnlyOurs
    BY <1>1, <1>4 DEF DropForeign, Foreign
  <2>2. PICK obj : EditUser(u, obj)
    BY <1>4 DEF DropForeign
  <2> QED
    BY <2>1, <2>2, EditUserFinalizer
<1> QED
  BY <1>2, <1>3, <1>4

LEMMA DeliverFinalizer ==
    ASSUME Parts, Parts', FinalizerInv, NEW u \in Users, Deliver(u),
           UNCHANGED workVars
    PROVE  FinalizerInv'
<1>1. /\ \A v \in Users : userCache'[v] = IF v = u THEN user[v] ELSE userCache[v]
      /\ UNCHANGED <<user, userHeld, pc, w>>
  BY DEF Deliver, workVars, Parts, UserStored
<1>2. CachesTellFinalizers'
  BY <1>1, Ours
     DEF FinalizerInv, CachesTellFinalizers, Kept, Live, HasFinalizer
<1>3. w.key \in OnlyOurs =>
        /\ (pc # "idle" /\ ~w.ensure) => ~Kept(userCache'[w.key])
        /\ (pc = "addFinalizer" /\ w.key \in userHeld) =>
             userCache'[w.key] = user[w.key]
  BY <1>1, Ours DEF FinalizerInv
<1> QED
  BY <1>1, <1>2, <1>3 DEF FinalizerInv, ProvisioningGuarded, Provisioning

LEMMA CrashFinalizer ==
    ASSUME Parts, Parts', FinalizerInv, Crash
    PROVE  FinalizerInv'
BY Ours DEF Crash, Relist, NoWork, FinalizerInv, CachesTellFinalizers,
            ProvisioningGuarded, Provisioning, Kept, Live, HasFinalizer

LEMMA InitFinalizer ==
    ASSUME Init
    PROVE  FinalizerInv
<1>1. /\ user = [u \in Users |-> NewUser(u)] /\ userCache = [u \in Users |-> NONE]
      /\ pc = "idle" /\ userHeld = {}
  BY DEF Init, ApiInit
<1>2. \A u \in Users : ~NewUser(u).finalizer
  BY DEF NewUser
<1>3. CachesTellFinalizers
  BY <1>1, <1>2, Ours DEF CachesTellFinalizers, Foreign, Kept, Live
<1> QED
  BY <1>1, <1>3 DEF FinalizerInv, ProvisioningGuarded, Provisioning

LEMMA EnvironmentFinalizer ==
    ASSUME Parts, Parts', FinalizerInv, Environment
    PROVE  FinalizerInv'
<1>1. UNCHANGED workVars /\ UNCHANGED <<pc, w>>
  BY DEF Environment, workVars
<1>2. CASE \E u \in Users : Apply(u) \/ RequestDelete(u) \/ DropForeign(u)
  BY <1>1, <1>2, UserEditsFinalizer
<1>3. CASE \E u \in Users : Deliver(u)
  BY <1>1, <1>3, DeliverFinalizer
<1>4. CASE UNCHANGED <<user, userCache, userHeld>>
  BY <1>1, <1>4, ElsewhereFinalizer
<1>5. \/ \E u \in Users : \/ Apply(u) \/ RequestDelete(u) \/ DropForeign(u)
                          \/ Deliver(u)
      \/ UNCHANGED <<user, userCache, userHeld>>
  BY DEF Environment, UserEdits, Informers, CloudChange, SyncCloud,
         DeliverCloudEvent, SyncSecret, DeliverSecretEvent, RotatePassword,
         StripSecret, DropSecret, BringSecret, EditSecret, Resync, apiVars,
         userVars
<1> QED
  BY <1>2, <1>3, <1>4, <1>5

LEMMA NextFinalizer ==
    ASSUME Parts, Parts', FinalizerInv, [Next]_vars
    PROVE  FinalizerInv'
<1>1. CASE \E u \in Users : Begin(u)
  BY <1>1, BeginFinalizer
<1>2. CASE \E u \in Users : ObjectGone(u) \/ NoClient(u)
  BY <1>2, ElsewhereFinalizer
     DEF ObjectGone, NoClient, vars, apiVars, userVars, workVars
<1>3. CASE PassStep
  BY <1>3, PassStepFinalizer
<1>4. CASE Environment
  BY <1>4, EnvironmentFinalizer
<1>5. CASE Crash
  BY <1>5, CrashFinalizer
<1>6. CASE UNCHANGED vars
  BY <1>6, ElsewhereFinalizer DEF vars, apiVars, userVars, workVars
<1> QED
  BY <1>1, <1>2, <1>3, <1>4, <1>5, <1>6 DEF Next, Worker, TakeKey

(***************************************************************************)
(* Spec => []ProvisioningGuarded: no secret, account or role is made for a *)
(* User, among those that nobody else puts a finalizer on, whose deletion  *)
(* could complete without a deleting pass.  (Of a User with another        *)
(* controller's finalizer it would be false, see bug_resurrection.)        *)
(***************************************************************************)
THEOREM FinalizerComesFirst == Spec => []ProvisioningGuarded
<1>1. Init => Parts /\ FinalizerInv
  BY InitParts, InitFinalizer
<1>2. Parts /\ FinalizerInv /\ [Next]_vars => Parts' /\ FinalizerInv'
  BY NextParts, NextFinalizer
<1>3. FinalizerInv => ProvisioningGuarded
  BY DEF FinalizerInv
<1> QED
  BY <1>1, <1>2, <1>3, PTL DEF Spec

-----------------------------------------------------------------------------
(***************************************************************************)
(* Credentials are stable.  SecretInv says why: the worker's copy of the   *)
(* secret, as long as an Update with it would be accepted, is the stored   *)
(* secret with keys added.                                                 *)
(***************************************************************************)

(* The worker's copy stays what it was, or the worker lets go of it.       *)
CopyKept ==
    \/ secretHeld' = {}
    \/ /\ secretHeld' = secretHeld
       /\ w'.key = w.key
       /\ w'.secret = w.secret
       /\ pc' \in BeforeSecret => pc \in BeforeSecret

LEMMA GoToKeepsCopy ==
    ASSUME w \in Work, NEW st, NEW label,
           label \in BeforeSecret => pc \in BeforeSecret,
           GoTo(label, st)
    PROVE  CopyKept
BY DEF GoTo, CopyKept, Work

LEMMA EndKeepsCopy ==
    ASSUME Done \/ Requeue
    PROVE  CopyKept
BY DEF Done, Requeue, LeavePass, CopyKept

LEMMA FailKeepsCopy ==
    ASSUME w \in Work, NEW st, Fail(st)
    PROVE  CopyKept
BY GoToKeepsCopy, EndKeepsCopy DEF Fail, BeforeSecret

LEMMA CopyKeptSecretInv ==
    ASSUME SecretInv, CopyKept, UNCHANGED secret
    PROVE  SecretInv'
BY DEF SecretInv, CopyKept, S, Adds

(* Only three steps of a pass touch the secret or the copy of it.          *)
LEMMA OtherStepsKeepCopy ==
    ASSUME w \in Work, PassStep, ~GetSecret, ~CreateSecret, ~UpdateSecret
    PROVE  CopyKept /\ UNCHANGED secret
<1>1. CASE AddFinalizer
  BY <1>1, GoToKeepsCopy, EndKeepsCopy DEF AddFinalizer, WriteUser, BeforeSecret
<1>2. CASE InitStatus
  BY <1>2, GoToKeepsCopy, EndKeepsCopy DEF InitStatus, WriteUser, BeforeSecret
<1>3. CASE OkStatus \/ FailStatus \/ RemoveFinalizer
  BY <1>3, EndKeepsCopy DEF OkStatus, FailStatus, RemoveFinalizer, WriteUser
<1>4. CASE CheckExistence \/ CheckPassword
  BY <1>4, FailKeepsCopy, GoToKeepsCopy
     DEF CheckExistence, CheckPassword, BeforeSecret, kubernetesVars
<1>5. CASE CheckRoles
  BY <1>5, FailKeepsCopy, GoToKeepsCopy
     DEF CheckRoles, Ensure, Revoke, AfterUser, AfterRoles, AfterRevoke,
         BeforeSecret, kubernetesVars
<1>6. CASE EnsureUser \/ UpdatePassword
  BY <1>6, FailKeepsCopy, GoToKeepsCopy
     DEF EnsureUser, UpdatePassword, AfterUser, AfterRoles, BeforeSecret,
         kubernetesVars
<1>7. CASE GetRoles
  BY <1>7, FailKeepsCopy DEF GetRoles, CopyKept, Work, BeforeSecret,
                             kubernetesVars
<1>8. CASE UpsertRoles
  BY <1>8, FailKeepsCopy, GoToKeepsCopy
     DEF UpsertRoles, AfterRoles, BeforeSecret, kubernetesVars
<1>9. CASE RevokeRoles \/ RevokeUser
  BY <1>9, FailKeepsCopy, GoToKeepsCopy
     DEF RevokeRoles, RevokeUser, AfterRevoke, BeforeSecret, kubernetesVars
<1> QED
  BY <1>1, <1>2, <1>3, <1>4, <1>5, <1>6, <1>7, <1>8, <1>9 DEF PassStep

(* Filling in the missing keys adds.                                       *)
LEMMA FillingAdds ==
    ASSUME Parts, pc # "idle", NEW sec \in SecretObj, NEW how,
           ReconcileSecret(sec, how)
    PROVE  Adds(w'.secret, sec) /\ w'.key = w.key /\ pc' \notin BeforeSecret
<1>1. PICK filled \in Fillings(sec) :
        /\ w' = [w EXCEPT !.secret = filled,
                          !.dirty = filled # sec,
                          !.status = SecretStatus(w.status, sec, how)]
        /\ pc' = "checkExistence"
  BY DEF ReconcileSecret
<1>2. filled \in SecretObj /\ filled # NONE
  BY FillingsType, ObjectAssumption
<1>3. Adds(filled, sec)
  BY <1>2 DEF Fillings, Adds
<1>4. w'.secret = filled /\ w'.key = w.key
  BY <1>1 DEF Parts, WorkerInv, Work
<1> QED
  BY <1>1, <1>3, <1>4 DEF BeforeSecret

LEMMA GetSecretCopy ==
    ASSUME Parts, SecretInv, GetSecret
    PROVE  SecretInv' /\ UNCHANGED secret
<1>1. pc = "getSecret" /\ S \in Secrets /\ UNCHANGED secret
  BY SecretNamed DEF GetSecret
<1>2. CASE /\ secretCache[S] # NONE
           /\ ReconcileSecret(secretCache[S], "Exists")
           /\ secretHeld' = {S} \ secretLag
  <2>1. secretCache[S] \in SecretObj
    BY <1>1, <1>2 DEF Parts, SecretStored
  <2>2. Adds(w'.secret, secretCache[S]) /\ w'.key = w.key /\ pc' \notin BeforeSecret
    BY <1>1, <1>2, <2>1, FillingAdds
  <2>3. S \notin secretLag => secretCache[S] = secret[S]
    BY <1>1 DEF Parts, SecretStored
  <2> QED
    BY <1>1, <1>2, <2>2, <2>3 DEF SecretInv, S, Adds
<1>3. CASE WithoutSecret([w.status EXCEPT !.SecretExists = "FailedLoad"])
  <2>1. CopyKept
    BY <1>1, <1>3, GoToKeepsCopy
       DEF WithoutSecret, BeforeSecret, Parts, WorkerInv
  <2> QED
    BY <1>1, <2>1, CopyKeptSecretInv
<1> QED
  BY <1>1, <1>2, <1>3 DEF GetSecret

LEMMA CreateSecretCopy ==
    ASSUME Parts, SecretInv, CreateSecret
    PROVE  /\ SecretInv'
           /\ \A s \in Secrets : secret[s] # NONE => secret'[s] = secret[s]
<1>1. /\ pc = "createSecret" /\ S \in Secrets
      /\ secretHeld = {} /\ w \in Work
  BY SecretNamed DEF CreateSecret, SecretInv, BeforeSecret, Parts, WorkerInv
<1> DEFINE st == [w.status EXCEPT !.SecretExists = "FailedCreation"]
<1>2. PICK o \in Outcomes :
        /\ ApiWrite(secret[S] = NONE, o)
        /\ IF Applied(o) THEN PutSecret(S, EmptySecret)
                         ELSE UNCHANGED <<secret, secretLag, secretEvent>>
        /\ \/ Failed(o) /\ Fail(st)
           \/ /\ ~Failed(o)
              /\ ReconcileSecret(EmptySecret, "Created")
              /\ secretHeld' = {S}
  BY DEF CreateSecret
<1> HIDE DEF st
<1>3. \A s \in Secrets : secret[s] # NONE => secret'[s] = secret[s]
  BY <1>1, <1>2 DEF ApiWrite, Applied, PutSecret, Parts, SecretStored
<1>4. CASE Failed(o)
  <2>1. CopyKept
    BY <1>1, <1>2, <1>4, FailKeepsCopy
  <2>2. secretHeld' = {}
    BY <1>1, <2>1 DEF CopyKept
  <2> QED
    BY <1>3, <2>2 DEF SecretInv
<1>5. CASE ~Failed(o)
  <2>1. secret'[S] = EmptySecret
    BY <1>1, <1>2, <1>5 DEF ApiWrite, Failed, Applied, PutSecret, Parts,
                            SecretStored
  <2>2. /\ Adds(w'.secret, EmptySecret) /\ w'.key = w.key
        /\ pc' \notin BeforeSecret /\ EmptySecret # NONE
    BY <1>1, <1>2, <1>5, BlankType, FillingAdds, ObjectAssumption
  <2> QED
    BY <1>2, <1>3, <1>5, <2>1, <2>2 DEF SecretInv, S
<1> QED
  BY <1>4, <1>5

LEMMA UpdateSecretCopy ==
    ASSUME Parts, SecretInv, UpdateSecret
    PROVE  SecretInv' /\ \A s \in Secrets : KeepsCredentials(s)
<1>1. /\ S \in Secrets /\ w \in Work /\ w.secret \in SecretObj
      /\ w.secret # NONE
      /\ \A s \in secretHeld : s = S
  BY SecretNamed, ObjectAssumption
     DEF UpdateSecret, Parts, WorkerInv, PassConsistent, HadSecret, Work,
         SecretInv
<1>2. PICK o \in Outcomes :
        /\ ApiWrite(S \in secretHeld, o)
        /\ IF Applied(o) THEN PutSecret(S, w.secret)
                         ELSE UNCHANGED <<secret, secretLag, secretEvent>>
  BY DEF UpdateSecret
<1>3. CopyKept /\ secretHeld' = secretHeld /\ pc' \notin BeforeSecret
        /\ w'.key = w.key /\ w'.secret = w.secret
  BY <1>1 DEF UpdateSecret, GoTo, CopyKept, BeforeSecret, Work
<1>4. CASE Applied(o)
  <2>1. S \in secretHeld /\ Adds(w.secret, secret[S])
    BY <1>2, <1>4 DEF ApiWrite, Applied, SecretInv
  <2>2. secret' = [secret EXCEPT ![S] = w.secret]
    BY <1>2, <1>4 DEF PutSecret
  <2>3. \A s \in Secrets : KeepsCredentials(s)
    BY <1>1, <2>1, <2>2 DEF KeepsCredentials, Adds, Parts, SecretStored
  <2>4. secret'[S] = w.secret /\ Adds(w.secret, w.secret)
    BY <1>1, <2>2 DEF Adds, Parts, SecretStored
  <2> QED
    BY <1>1, <1>3, <2>3, <2>4 DEF SecretInv, S
<1>5. CASE ~Applied(o)
  <2>1. UNCHANGED secret
    BY <1>2, <1>5
  <2> QED
    BY <1>3, <2>1, CopyKeptSecretInv DEF KeepsCredentials
<1> QED
  BY <1>4, <1>5

LEMMA PassStepSecret ==
    ASSUME Parts, SecretInv, PassStep
    PROVE  SecretInv' /\ \A s \in Secrets : KeepsCredentials(s)
<1>1. CASE GetSecret
  BY <1>1, GetSecretCopy DEF KeepsCredentials
<1>2. CASE CreateSecret
  BY <1>2, CreateSecretCopy DEF KeepsCredentials
<1>3. CASE UpdateSecret
  BY <1>3, UpdateSecretCopy
<1>4. CASE ~(GetSecret \/ CreateSecret \/ UpdateSecret)
  <2>1. CopyKept /\ UNCHANGED secret
    BY <1>4, OtherStepsKeepCopy DEF Parts, WorkerInv
  <2> QED
    BY <2>1, CopyKeptSecretInv DEF KeepsCredentials
<1> QED
  BY <1>1, <1>2, <1>3, <1>4

LEMMA EnvironmentSecret ==
    ASSUME Parts, SecretInv, Environment
    PROVE  SecretInv' /\ pc' = pc
<1>1. UNCHANGED <<pc, w>>
  BY DEF Environment, workVars
<1>2. CASE UNCHANGED <<secret, secretHeld>>
  BY <1>1, <1>2 DEF SecretInv, S, Adds
<1>3. CASE \E s \in Secrets : \E obj : EditSecret(s, obj)
  <2>1. PICK s \in Secrets : \E obj : EditSecret(s, obj)
    BY <1>3
  <2>2. PICK obj : EditSecret(s, obj)
    BY <2>1
  <2>3. \A r \in secretHeld' : r \in secretHeld /\ secret'[r] = secret[r]
    BY <2>2 DEF EditSecret, PutSecret, Parts, SecretStored, WorkerInv
  <2> QED
    BY <1>1, <2>2, <2>3 DEF SecretInv, S, Adds, EditSecret
<1>4. \/ UNCHANGED <<secret, secretHeld>>
      \/ \E s \in Secrets : \E obj : EditSecret(s, obj)
  BY DEF Environment, UserEdits, Informers, CloudChange, SyncCloud,
         DeliverCloudEvent, SyncSecret, DeliverSecretEvent, RotatePassword,
         StripSecret, DropSecret, BringSecret, Resync, Deliver, Apply,
         RequestDelete, DropForeign, EditUser, apiVars, secretVars
<1> QED
  BY <1>1, <1>2, <1>3, <1>4

LEMMA NextSecret ==
    ASSUME Parts, SecretInv, [Next]_vars
    PROVE  SecretInv' /\ (WorkerSteps => \A s \in Secrets : KeepsCredentials(s))
<1>1. CASE \E u \in Users : Begin(u)
  <2>1. UNCHANGED <<secret, secretHeld>> /\ pc = "idle"
    BY <1>1 DEF Begin, secretVars
  <2>2. secretHeld = {}
    BY <2>1 DEF SecretInv, BeforeSecret
  <2> QED
    BY <2>1, <2>2 DEF SecretInv, KeepsCredentials
<1>2. CASE (\E u \in Users : ObjectGone(u) \/ NoClient(u)) \/ UNCHANGED vars
  <2>1. UNCHANGED <<secret, secretHeld, pc, w>>
    BY <1>2 DEF ObjectGone, NoClient, vars, apiVars, secretVars, workVars
  <2> QED
    BY <2>1 DEF SecretInv, S, Adds, WorkerSteps
<1>3. CASE PassStep
  BY <1>3, PassStepSecret
<1>4. CASE Environment
  BY <1>4, EnvironmentSecret DEF WorkerSteps
<1>5. CASE Crash
  BY <1>5 DEF Crash, Relist, SecretInv, KeepsCredentials
<1> QED
  BY <1>1, <1>2, <1>3, <1>4, <1>5 DEF Next, Worker, TakeKey

(***************************************************************************)
(* Spec => CredentialsStable: whatever the worker does, and however stale  *)
(* what it has read, a username or a password that is in a stored secret   *)
(* stays there.                                                            *)
(***************************************************************************)
THEOREM CredentialsAreStable == Spec => CredentialsStable
<1>1. Init => Parts /\ SecretInv
  BY InitParts DEF Init, ApiInit, SecretInv
<1>2. Parts /\ SecretInv /\ [Next]_vars => Parts' /\ SecretInv'
  BY NextParts, NextSecret
<1>3. Parts /\ SecretInv /\ [Next]_vars =>
        [WorkerSteps => \A s \in Secrets : KeepsCredentials(s)]_vars
  BY NextSecret
<1> QED
  BY <1>1, <1>2, <1>3, PTL DEF Spec, CredentialsStable

-----------------------------------------------------------------------------
(***************************************************************************)
(* The finalizer follows deletion, other finalizers or not.  DeletionInv   *)
(* says why: every edit of the User makes the worker's copy stale, so an   *)
(* Update that is accepted meets the object the pass was decided on.       *)
(***************************************************************************)

LEMMA FlagsKeptDeletion ==
    ASSUME Parts, DeletionInv, PassGoesOn,
           \A u \in Users : SameFlags(user'[u], user[u])
    PROVE  DeletionInv' /\ \A u \in Users : FollowsDeletion(u)
<1>1. \A u \in Users : FollowsDeletion(u)
  BY DEF FollowsDeletion, SameFlags, HasFinalizer
<1>2. pc' # "idle" => w.key \in Users
  BY DEF PassGoesOn, Parts, WorkerInv, PassConsistent
<1>3. DeletionInv'
  BY <1>2 DEF DeletionInv, PassGoesOn, SameFlags, Parts, HeldIsThere, Live
<1> QED
  BY <1>1, <1>3

LEMMA StatusStepDeletion ==
    ASSUME Parts, DeletionInv, InitStatus \/ OkStatus \/ FailStatus
    PROVE  DeletionInv' /\ \A u \in Users : FollowsDeletion(u)
<1>1. PassGoesOn /\ pc # "idle"
  BY StepGoesOn
     DEF PassStep, AddFinalizer, InitStatus, OkStatus, FailStatus, Parts, WorkerInv
<1>2. \A u \in Users : SameFlags(user'[u], user[u])
  BY StatusStepFlags
<1> QED
  BY <1>1, <1>2, FlagsKeptDeletion

LEMMA AddFinalizerDeletion ==
    ASSUME Parts, DeletionInv, AddFinalizer
    PROVE  DeletionInv' /\ \A u \in Users : FollowsDeletion(u)
<1> DEFINE obj == [user[w.key] EXCEPT !.finalizer = TRUE]
<1>1. pc = "addFinalizer" /\ w.ensure /\ w.key \in Users /\ w \in Work
  BY DEF AddFinalizer, Parts, WorkerInv, PassConsistent, EnsureLabels
<1>2. PICK o \in Outcomes :
        /\ WriteUser(obj, o)
        /\ IF Failed(o) THEN Requeue ELSE GoTo("initStatus", w.status)
  BY DEF AddFinalizer
<1>3. DeletionInv'
  BY <1>1, <1>2 DEF GoTo, Requeue, LeavePass, DeletionInv, Work
<1>4. w.key \in userHeld =>
        /\ obj \in UserObj /\ Live(user[w.key])
        /\ HasFinalizer(Reaped(obj))
  <2>1. ASSUME w.key \in userHeld
        PROVE  /\ user[w.key] \in UserObj /\ Live(user[w.key])
               /\ obj \in UserObj /\ obj.finalizer
    BY <1>1, <2>1, HeldUser DEF DeletionInv, UserObj
  <2> HIDE DEF obj
  <2> QED
    BY <2>1, ObjectAssumption DEF Reaped, HasFinalizer
<1> HIDE DEF obj
<1>5. \/ UNCHANGED user
      \/ /\ w.key \in userHeld
         /\ user' = [user EXCEPT ![w.key] = Reaped(obj)]
  BY <1>1, <1>2, <1>4, WriteUserType
<1>6. ASSUME NEW u \in Users
      PROVE  FollowsDeletion(u)
  BY <1>1, <1>4, <1>5 DEF FollowsDeletion, Parts, UserStored
<1> QED
  BY <1>3, <1>6

LEMMA RemoveFinalizerDeletion ==
    ASSUME Parts, DeletionInv, RemoveFinalizer
    PROVE  DeletionInv' /\ \A u \in Users : FollowsDeletion(u)
<1> DEFINE obj == [user[w.key] EXCEPT !.finalizer = FALSE]
<1>1. pc = "removeFinalizer" /\ ~w.ensure /\ w.key \in Users
  BY DEF RemoveFinalizer, Parts, WorkerInv, PassConsistent, DeleteLabels
<1>2. PICK o \in Outcomes :
        WriteUser(obj, o) /\ IF Failed(o) THEN Requeue ELSE Done
  BY DEF RemoveFinalizer
<1>3. DeletionInv'
  BY <1>2 DEF Requeue, Done, LeavePass, DeletionInv
<1>4. w.key \in userHeld =>
        /\ obj \in UserObj /\ user[w.key].deleting
        /\ ~HasFinalizer(Reaped(obj))
  <2>1. ASSUME w.key \in userHeld
        PROVE  /\ user[w.key] \in UserObj /\ user[w.key].deleting
               /\ obj \in UserObj /\ ~obj.finalizer
    BY <1>1, <2>1, HeldUser DEF DeletionInv, UserObj
  <2> HIDE DEF obj
  <2> QED
    BY <2>1 DEF Reaped, HasFinalizer
<1> HIDE DEF obj
<1>5. \/ UNCHANGED user
      \/ /\ w.key \in userHeld
         /\ user' = [user EXCEPT ![w.key] = Reaped(obj)]
  BY <1>1, <1>2, <1>4, WriteUserType
<1>6. ASSUME NEW u \in Users
      PROVE  FollowsDeletion(u)
  BY <1>1, <1>4, <1>5 DEF FollowsDeletion, Parts, UserStored
<1> QED
  BY <1>3, <1>6

LEMMA PassStepDeletion ==
    ASSUME Parts, DeletionInv, PassStep
    PROVE  DeletionInv' /\ \A u \in Users : FollowsDeletion(u)
<1>1. CASE AddFinalizer
  BY <1>1, AddFinalizerDeletion
<1>2. CASE InitStatus \/ OkStatus \/ FailStatus
  BY <1>2, StatusStepDeletion
<1>3. CASE RemoveFinalizer
  BY <1>3, RemoveFinalizerDeletion
<1>4. CASE ~(AddFinalizer \/ InitStatus \/ OkStatus \/ FailStatus \/ RemoveFinalizer)
  <2>1. PassGoesOn
    BY <1>4, StepGoesOn DEF Parts, WorkerInv
  <2>2. UNCHANGED <<user, userCache>>
    BY <1>4, QuietSteps
  <2> QED
    BY <2>1, <2>2, FlagsKeptDeletion DEF SameFlags
<1> QED
  BY <1>1, <1>2, <1>3, <1>4

LEMMA EditUserDeletion ==
    ASSUME Parts, DeletionInv, NEW u \in Users, UNCHANGED workVars,
           Apply(u) \/ RequestDelete(u) \/ DropForeign(u)
    PROVE  DeletionInv' /\ \A v \in Users : FollowsDeletion(v)
<1>1. PICK obj : /\ EditUser(u, obj)
                 /\ HasFinalizer(obj) <=> HasFinalizer(user[u])
  <2>1. user[u] \in UserObj \cup {NONE}
    BY DEF Parts, UserStored
  <2>2. CASE Apply(u)
    BY <2>2 DEF Apply, NewUser, HasFinalizer
  <2>3. CASE RequestDelete(u)
    <3> DEFINE obj == [user[u] EXCEPT !.deleting = TRUE]
    <3>1. /\ obj \in UserObj /\ obj # NONE /\ user[u] # NONE
          /\ obj.finalizer = user[u].finalizer
      BY <2>1, <2>3, ObjectAssumption DEF RequestDelete, Live, UserObj
    <3>2. EditUser(u, Reaped(obj))
      BY <2>3 DEF RequestDelete
    <3> HIDE DEF obj
    <3>3. HasFinalizer(Reaped(obj)) <=> HasFinalizer(user[u])
      BY <3>1 DEF Reaped, HasFinalizer
    <3> QED
      BY <3>2, <3>3
  <2>4. CASE DropForeign(u)
    <3> DEFINE obj == [user[u] EXCEPT !.foreign = FALSE]
    <3>1. /\ obj \in UserObj /\ obj # NONE /\ user[u] # NONE
          /\ obj.finalizer = user[u].finalizer
      BY <2>1, <2>4, ObjectAssumption DEF DropForeign, UserObj
    <3>2. EditUser(u, Reaped(obj))
      BY <2>4 DEF DropForeign
    <3> HIDE DEF obj
    <3>3. HasFinalizer(Reaped(obj)) <=> HasFinalizer(user[u])
      BY <3>1 DEF Reaped, HasFinalizer
    <3> QED
      BY <3>2, <3>3
  <2> QED
    BY <2>2, <2>3, <2>4
<1>2. /\ user' = [user EXCEPT ![u] = obj]
      /\ userHeld' = userHeld \ {u} /\ UNCHANGED <<pc, w>>
  BY <1>1 DEF EditUser, PutUser, workVars
<1>3. ASSUME NEW v \in Users
      PROVE  FollowsDeletion(v)
  BY <1>1, <1>2 DEF FollowsDeletion, Parts, UserStored
<1>4. DeletionInv'
  BY <1>2 DEF DeletionInv, Live, Parts, UserStored, WorkerInv
<1> QED
  BY <1>3, <1>4

LEMMA NextDeletion ==
    ASSUME Parts, DeletionInv, [Next]_vars
    PROVE  DeletionInv' /\ \A u \in Users : FollowsDeletion(u)
<1>1. CASE \E u \in Users : Begin(u)
  <2>1. PICK u \in Users : Begin(u)
    BY <1>1
  <2>2. /\ UNCHANGED user
        /\ userHeld' = {u} \ userLag /\ pc' = Route(userCache[u])
        /\ w'.key = u /\ w'.ensure = Ensures(userCache[u])
        /\ userCache[u] # NONE
    BY <2>1 DEF Begin, NoWork
  <2>3. u \in userHeld' => user[u] = userCache[u]
    BY <2>2 DEF Parts, UserStored
  <2> QED
    BY <2>2, <2>3 DEF DeletionInv, Route, Ensures, Live, FollowsDeletion
<1>2. CASE PassStep
  BY <1>2, PassStepDeletion
<1>3. CASE Crash
  BY <1>3 DEF Crash, Relist, DeletionInv, FollowsDeletion
<1>4. CASE Environment /\ \E u \in Users : \/ Apply(u) \/ RequestDelete(u)
                                          \/ DropForeign(u)
  BY <1>4, EditUserDeletion DEF Environment
<1>5. CASE UNCHANGED <<user, userHeld, pc, w>>
  BY <1>5 DEF DeletionInv, Live, FollowsDeletion
<1>6. Environment =>
        \/ \E u \in Users : Apply(u) \/ RequestDelete(u) \/ DropForeign(u)
        \/ UNCHANGED <<user, userHeld, pc, w>>
  BY DEF Environment, UserEdits, Informers, CloudChange, SyncCloud,
         DeliverCloudEvent, SyncSecret, DeliverSecretEvent, RotatePassword,
         StripSecret, DropSecret, BringSecret, EditSecret, Resync, Deliver,
         apiVars, userVars, workVars
<1>7. (\E u \in Users : ObjectGone(u) \/ NoClient(u)) \/ UNCHANGED vars =>
        UNCHANGED <<user, userHeld, pc, w>>
  BY DEF ObjectGone, NoClient, vars, apiVars, userVars, workVars
<1> QED
  BY <1>1, <1>2, <1>3, <1>4, <1>5, <1>6, <1>7 DEF Next, Worker, TakeKey

(***************************************************************************)
(* Spec => FinalizerFollowsDeletion: our finalizer goes on live objects    *)
(* and comes off objects whose deletion was requested, whoever else has a  *)
(* finalizer on them and however old the cached User is.                   *)
(***************************************************************************)
THEOREM DeletionIsFollowed == Spec => FinalizerFollowsDeletion
<1>1. Init => Parts /\ DeletionInv
  BY InitParts DEF Init, ApiInit, DeletionInv
<1>2. Parts /\ DeletionInv /\ [Next]_vars => Parts' /\ DeletionInv'
  BY NextParts, NextDeletion
<1>3. Parts /\ DeletionInv /\ [Next]_vars =>
        [\A u \in Users : FollowsDeletion(u)]_vars
  BY NextDeletion
<1> QED
  BY <1>1, <1>2, <1>3, PTL DEF Spec, FinalizerFollowsDeletion
=============================================================================
