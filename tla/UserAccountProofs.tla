-------------------------- MODULE UserAccountProofs --------------------------
(***************************************************************************)
(* Theorems about the accounts the user controller makes in Solr: whose    *)
(* accounts a pass touches, how many are lost, and which are gone when a   *)
(* User is.                                                                *)
(***************************************************************************)
EXTENDS UserControllerProofs, FiniteSetTheorems

-----------------------------------------------------------------------------
(* What the steps do to the pass, to Solr and to the stored objects.       *)

(* Conditions are set without touching the username.                       *)
LEMMA ConditionsKeepName ==
    ASSUME NEW st \in Status, NEW r
    PROVE  /\ [st EXCEPT !.Available = r].username = st.username
           /\ [st EXCEPT !.Exists = r].username = st.username
           /\ [st EXCEPT !.PasswordUpToDate = r].username = st.username
           /\ [st EXCEPT !.HasRoles = r].username = st.username
           /\ [st EXCEPT !.SecretExists = r].username = st.username
           /\ [st EXCEPT !.Exists = r, !.PasswordUpToDate = r].username
                = st.username
           /\ [st EXCEPT !.Available = r, !.Exists = r, !.HasRoles = r,
                         !.PasswordUpToDate = r].username = st.username
BY DEF Status

LEMMA SecretStatusKeepsName ==
    ASSUME NEW st \in Status, NEW sec, NEW how
    PROVE  SecretStatus(st, sec, how).username = st.username
BY DEF SecretStatus, Status

(* The local state of a pass that failed, or ended.                        *)
LEMMA FailEffect ==
    ASSUME w \in Work, NEW st \in Status, Fail(st)
    PROVE  \/ /\ w.ensure /\ pc' = "failStatus"
              /\ w'.key = w.key /\ w'.ensure = w.ensure
              /\ w'.secret = w.secret /\ w'.status = st /\ w'.dirty = w.dirty
              /\ secretHeld' = secretHeld /\ userHeld' = userHeld
           \/ /\ ~w.ensure /\ pc' = "idle" /\ w' = NoWork
              /\ secretHeld' = {} /\ userHeld' = {}
BY DEF Fail, GoTo, Requeue, LeavePass, Work

LEMMA GoToEffect ==
    ASSUME w \in Work, NEW st \in Status, NEW label, GoTo(label, st)
    PROVE  /\ pc' = label
           /\ w'.key = w.key /\ w'.ensure = w.ensure
           /\ w'.secret = w.secret /\ w'.status = st /\ w'.dirty = w.dirty
           /\ secretHeld' = secretHeld /\ userHeld' = userHeld
BY DEF GoTo, Work

LEMMA EndEffect ==
    ASSUME Done \/ Requeue
    PROVE  pc' = "idle" /\ w' = NoWork /\ secretHeld' = {} /\ userHeld' = {}
BY DEF Done, Requeue, LeavePass

LEMMA ReconcileSecretEffect ==
    ASSUME Parts, pc # "idle", NEW sec \in SecretObj, NEW how \in Reasons,
           ReconcileSecret(sec, how)
    PROVE  /\ pc' = "checkExistence"
           /\ w'.key = w.key /\ w'.ensure = w.ensure
           /\ w'.status = SecretStatus(w.status, sec, how)
           /\ w'.secret \in Fillings(sec)
           /\ w'.secret \in SecretObj /\ w'.secret # NONE
           /\ w'.secret.username \in Names
           /\ w'.secret.password \in Passwords
           /\ w'.dirty = (w'.secret # sec)
           /\ sec.username # NONE => w'.secret.username = sec.username
           /\ sec.username = NONE => w'.secret.username \in Fresh
           /\ sec.password # NONE => w'.secret.password = sec.password
<1>1. PICK filled \in Fillings(sec) :
        /\ w' = [w EXCEPT !.secret = filled,
                          !.dirty = filled # sec,
                          !.status = SecretStatus(w.status, sec, how)]
        /\ pc' = "checkExistence"
  BY DEF ReconcileSecret
<1>2. filled \in SecretObj /\ filled.username # NONE /\ filled # NONE
  BY FillingsType, ObjectAssumption
<1>3. /\ filled.username \in Names
      /\ filled.password \in Passwords
      /\ sec.username # NONE => filled.username = sec.username
      /\ sec.password # NONE => filled.password = sec.password
  BY <1>2 DEF Fillings, SecretObj
<1>4. Fresh \in SUBSET Names
  BY DEF Fresh
<1>5. sec.username = NONE => filled.username \in Fresh
  BY <1>4, UserApiAssumption DEF Fillings
<1>6. /\ w'.key = w.key /\ w'.ensure = w.ensure /\ w'.secret = filled
      /\ w'.dirty = (filled # sec)
      /\ w'.status = SecretStatus(w.status, sec, how)
  BY <1>1 DEF Parts, WorkerInv, Work
<1> QED
  BY <1>1, <1>2, <1>3, <1>5, <1>6


(* The two ways a step inside a pass leaves the worker, as facts about the *)
(* variables: the pass goes on at label with status st, or it has failed.  *)
GoesOnTo(label, st) ==
    /\ pc' = label
    /\ w'.key = w.key
    /\ w'.ensure = w.ensure
    /\ w'.secret = w.secret
    /\ w'.dirty = w.dirty
    /\ w'.status = st
    /\ secretHeld' = secretHeld
    /\ userHeld' = userHeld

Ends ==
    /\ pc' = "idle"
    /\ w' = NoWork
    /\ secretHeld' = {}
    /\ userHeld' = {}

FailsWith(st) ==
    \/ w.ensure /\ GoesOnTo("failStatus", st)
    \/ ~w.ensure /\ Ends

(* Two statuses of the same name that say the same about the account.      *)
SameName(st) == st \in Status /\ st.username = w.status.username

LEMMA Shapes ==
    ASSUME Parts, pc # "idle", NEW st \in Status
    PROVE  /\ Fail(st) => FailsWith(st)
           /\ \A label : GoTo(label, st) => GoesOnTo(label, st)
           /\ Done \/ Requeue => Ends
           /\ w.status \in Status
<1>1. w \in Work
  BY DEF Parts, WorkerInv
<1>2. Fail(st) => FailsWith(st)
  BY <1>1, FailEffect DEF FailsWith, GoesOnTo, Ends
<1>3. \A label : GoTo(label, st) => GoesOnTo(label, st)
  BY <1>1, GoToEffect DEF GoesOnTo
<1>4. Done \/ Requeue => Ends
  BY EndEffect DEF Ends
<1> QED
  BY <1>1, <1>2, <1>3, <1>4 DEF Work

LEMMA CheckExistenceEffect ==
    ASSUME Parts, CheckExistence
    PROVE  /\ pc = "checkExistence" /\ UNCHANGED <<solrVars, kubernetesVars>>
           /\ \/ Disrupt("solrError") /\ FailsWith(w.status)
              \/ /\ Calm /\ CheckUserExistence(Username)
                 /\ \E st \in Status :
                      /\ GoesOnTo("checkUser", st) /\ SameName(st)
                      /\ st.Exists = "UserInConfig"
              \/ /\ Calm /\ ~CheckUserExistence(Username)
                 /\ \E st \in Status :
                      /\ GoesOnTo("hasRoles", st) /\ SameName(st)
                      /\ st.Exists = "UserNotInConfig"
<1> DEFINE yes == [w.status EXCEPT !.Exists = "UserInConfig"]
           no  == [w.status EXCEPT !.Exists = "UserNotInConfig",
                                   !.PasswordUpToDate = "UserNotInConfig"]
<1>1. /\ pc = "checkExistence"
      /\ UNCHANGED <<solrVars, kubernetesVars>>
      /\ \/ Disrupt("solrError") /\ Fail(w.status)
         \/ Calm /\ CheckUserExistence(Username) /\ GoTo("checkUser", yes)
         \/ Calm /\ ~CheckUserExistence(Username) /\ GoTo("hasRoles", no)
  BY DEF CheckExistence, GetFails, GetWorks
<1>2. w.status \in Status
  BY <1>1, Shapes DEF Parts, WorkerInv, Work
<1>3. yes \in Status /\ no \in Status
  BY <1>2, StatusType DEF Reasons, TrueReasons, OtherReasons
<1>4. /\ yes.username = w.status.username /\ no.username = w.status.username
      /\ yes.Exists = "UserInConfig" /\ no.Exists = "UserNotInConfig"
  BY <1>2 DEF Status
<1> HIDE DEF yes, no
<1>5. Fail(w.status) => FailsWith(w.status)
  BY <1>1, <1>2, Shapes
<1>6. GoTo("checkUser", yes) => GoesOnTo("checkUser", yes)
  BY <1>1, <1>3, Shapes
<1>7. GoTo("hasRoles", no) => GoesOnTo("hasRoles", no)
  BY <1>1, <1>3, Shapes
<1> QED
  BY <1>1, <1>3, <1>4, <1>5, <1>6, <1>7 DEF SameName

LEMMA CheckPasswordEffect ==
    ASSUME Parts, CheckPassword
    PROVE  /\ pc = "checkUser" /\ UNCHANGED <<solrVars, kubernetesVars>>
           /\ \/ /\ Disrupt("solrError")
                 /\ \E st \in Status : FailsWith(st) /\ SameName(st)
              \/ /\ Calm
                 /\ \E st \in Status :
                      /\ GoesOnTo("hasRoles", st) /\ SameName(st)
                      /\ st.Exists = w.status.Exists
                      /\ IsTrue(st.PasswordUpToDate)
                           <=> CheckUser(Username, Password)
<1> DEFINE bad == [w.status EXCEPT !.PasswordUpToDate = "Error"]
           r  == IF CheckUser(Username, Password) THEN "PasswordUpToDate"
                 ELSE "PasswordDifferent"
           good == [w.status EXCEPT !.PasswordUpToDate = r]
<1>1. /\ pc = "checkUser"
      /\ UNCHANGED <<solrVars, kubernetesVars>>
      /\ \/ Disrupt("solrError") /\ Fail(bad)
         \/ Calm /\ GoTo("hasRoles", good)
  BY DEF CheckPassword, GetFails, GetWorks
<1>2. w.status \in Status
  BY <1>1, Shapes DEF Parts, WorkerInv, Work
<1>3. r \in Reasons /\ (IsTrue(r) <=> CheckUser(Username, Password))
  BY DEF Reasons, TrueReasons, OtherReasons, IsTrue
<1> HIDE DEF r
<1>4. bad \in Status /\ good \in Status
  BY <1>2, <1>3, StatusType DEF Reasons, TrueReasons, OtherReasons
<1>5. /\ bad.username = w.status.username /\ good.username = w.status.username
      /\ good.Exists = w.status.Exists
      /\ good.PasswordUpToDate = r
  BY <1>2 DEF Status
<1> HIDE DEF bad, good
<1>6. Fail(bad) => FailsWith(bad)
  BY <1>1, <1>4, Shapes
<1>7. GoTo("hasRoles", good) => GoesOnTo("hasRoles", good)
  BY <1>1, <1>4, Shapes
<1> QED
  BY <1>1, <1>3, <1>4, <1>5, <1>6, <1>7 DEF SameName


(* What an ensuring pass decides on when it knows the roles.               *)
Provides(st) ==
    \/ ~IsTrue(st.Exists) /\ GoesOnTo("createUser", st)
    \/ /\ IsTrue(st.Exists) /\ ~IsTrue(st.PasswordUpToDate)
       /\ GoesOnTo("updateUser", st)
    \/ /\ IsTrue(st.Exists) /\ IsTrue(st.PasswordUpToDate)
       /\ GoesOnTo(AfterUser(st), Noted(st))

Revokes(st) ==
    \/ IsTrue(st.HasRoles) /\ GoesOnTo("deleteRoles", st)
    \/ ~IsTrue(st.HasRoles) /\ GoesOnTo(AfterRevoke(st), st)

LEMMA CheckRolesEffect ==
    ASSUME Parts, CheckRoles
    PROVE  /\ pc = "hasRoles" /\ UNCHANGED <<solrVars, kubernetesVars>>
           /\ \/ Disrupt("solrError") /\ FailsWith(w.status)
              \/ /\ Calm
                 /\ \E st \in Status :
                      /\ SameName(st)
                      /\ st.Exists = w.status.Exists
                      /\ st.PasswordUpToDate = w.status.PasswordUpToDate
                      /\ IsTrue(st.HasRoles) <=> HasRoles(Username)
                      /\ w.ensure => Provides(st)
                      /\ ~w.ensure => Revokes(st)
<1> DEFINE r == IF HasRoles(Username) THEN "UserHasRoles"
                ELSE "UserMissingRoles"
           st == [w.status EXCEPT !.HasRoles = r]
<1>1. /\ pc = "hasRoles"
      /\ UNCHANGED <<solrVars, kubernetesVars>>
      /\ \/ Disrupt("solrError") /\ Fail(w.status)
         \/ Calm /\ IF w.ensure THEN Ensure(st) ELSE Revoke(st)
  BY DEF CheckRoles, GetFails, GetWorks
<1>2. w.status \in Status
  BY <1>1, Shapes DEF Parts, WorkerInv, Work
<1>3. r \in Reasons /\ (IsTrue(r) <=> HasRoles(Username))
  BY DEF Reasons, TrueReasons, OtherReasons, IsTrue
<1> HIDE DEF r
<1>4. st \in Status
  BY <1>2, <1>3, StatusType
<1>5. /\ st.username = w.status.username /\ st.Exists = w.status.Exists
      /\ st.PasswordUpToDate = w.status.PasswordUpToDate
      /\ st.HasRoles = r
  BY <1>2 DEF Status
<1> HIDE DEF st
<1>6. Fail(w.status) => FailsWith(w.status)
  BY <1>1, <1>2, Shapes
<1>7. \A label : GoTo(label, st) => GoesOnTo(label, st)
  BY <1>1, <1>4, Shapes
<1>8. w.ensure => w.secret # NONE /\ w.secret.username # NONE
  BY <1>1 DEF Parts, WorkerInv, PassConsistent, Observing
<1>9. w.ensure => Noted(st) \in Status
  BY <1>4, <1>8, NotedType
<1>10. w.ensure => \A label : GoTo(label, Noted(st)) => GoesOnTo(label, Noted(st))
  BY <1>1, <1>9, Shapes
<1>11. w.ensure /\ Ensure(st) => Provides(st)
  BY <1>7, <1>10 DEF Ensure, Provides
<1>12. Revoke(st) => Revokes(st)
  BY <1>7 DEF Revoke, Revokes
<1> QED
  BY <1>1, <1>3, <1>4, <1>5, <1>6, <1>11, <1>12 DEF SameName

(* The name an ensuring pass works with is the secret's.                   *)
LEMMA EnsuringPass ==
    ASSUME Parts, pc \in HadSecret
    PROVE  /\ w.ensure /\ w.secret # NONE /\ w.secret \in SecretObj
           /\ Username = w.secret.username /\ Username \in Names
           /\ Password = w.secret.password
           /\ pc # "idle"
<1>1. pc # "idle" /\ pc \in EnsureLabels
  BY DEF HadSecret, EnsureLabels
<1>2. w.ensure /\ w.secret # NONE /\ w.secret.username # NONE
  BY <1>1 DEF Parts, WorkerInv, PassConsistent
<1>3. w.secret \in SecretObj
  BY <1>2 DEF Parts, WorkerInv, Work
<1> QED
  BY <1>1, <1>2, <1>3 DEF Username, Password, SecretObj

LEMMA NamedStatus ==
    ASSUME NEW st \in Status, Username \in Names
    PROVE  /\ Noted(st) \in Status
           /\ Noted(st).username = Username
           /\ Noted(st).HasRoles = st.HasRoles
BY DEF Noted, Status

LEMMA EnsureUserEffect ==
    ASSUME Parts, EnsureUser \/ UpdatePassword
    PROVE  /\ pc \in {"createUser", "updateUser"}
           /\ UNCHANGED <<roles, kubernetesVars>>
           /\ \E o \in Outcomes :
                /\ Post(o)
                /\ account' = IF Applied(o) THEN [account EXCEPT ![Username] = Password]
                              ELSE account
                /\ Failed(o) =>
                     \E st \in Status : FailsWith(st) /\ SameName(st)
                /\ ~Failed(o) =>
                     \E st \in Status :
                       /\ st.username = Username
                       /\ st.HasRoles = w.status.HasRoles
                       /\ GoesOnTo(AfterUser(st), st)
<1>1. pc \in {"createUser", "updateUser"} /\ pc # "idle" /\ pc \in HadSecret
  BY DEF EnsureUser, UpdatePassword, HadSecret
<1>2. w.status \in Status /\ Username \in Names
  BY <1>1, EnsuringPass DEF Parts, WorkerInv, Work
<1> DEFINE made == [w.status EXCEPT !.Exists = "CreateUser",
                                    !.PasswordUpToDate = "CreateUser"]
           set  == [w.status EXCEPT !.PasswordUpToDate = "UpdatedPassword"]
           bad  == [w.status EXCEPT !.PasswordUpToDate = "FailedPasswordCheck"]
<1>3. made \in Status /\ set \in Status /\ bad \in Status
  BY <1>2, StatusType DEF Reasons, TrueReasons, OtherReasons
<1>4. /\ bad.username = w.status.username
      /\ made.HasRoles = w.status.HasRoles
      /\ set.HasRoles = w.status.HasRoles
  BY <1>2 DEF Status
<1>5. /\ UNCHANGED <<roles, kubernetesVars>>
      /\ \E o \in Outcomes :
           /\ Post(o)
           /\ account' = IF Applied(o) THEN [account EXCEPT ![Username] = Password]
                         ELSE account
           /\ Failed(o) => Fail(w.status) \/ Fail(bad)
           /\ ~Failed(o) =>
                \/ GoTo(AfterUser(made), Noted(made))
                \/ GoTo(AfterUser(set), Noted(set))
  <2>1. CASE EnsureUser
    BY <2>1 DEF EnsureUser, CreateUser
  <2>2. CASE UpdatePassword
    BY <2>2 DEF UpdatePassword, CreateUser
  <2> QED
    BY <2>1, <2>2
<1> HIDE DEF made, set, bad
<1>6. /\ Fail(w.status) => FailsWith(w.status)
      /\ Fail(bad) => FailsWith(bad)
  BY <1>1, <1>2, <1>3, Shapes
<1>7. \A st \in {made, set} :
        /\ Noted(st) \in Status
        /\ Noted(st).username = Username
        /\ Noted(st).HasRoles = w.status.HasRoles
        /\ AfterUser(Noted(st)) = AfterUser(st)
        /\ \A label : GoTo(label, Noted(st)) => GoesOnTo(label, Noted(st))
  BY <1>1, <1>2, <1>3, <1>4, NamedStatus, Shapes DEF AfterUser
<1> QED
  BY <1>1, <1>2, <1>3, <1>4, <1>5, <1>6, <1>7 DEF SameName

LEMMA GetRolesEffect ==
    ASSUME Parts, GetRoles
    PROVE  /\ pc = "getRoles" /\ UNCHANGED <<solrVars, kubernetesVars>>
           /\ \/ Disrupt("solrError") /\ FailsWith(w.status)
              \/ Calm /\ GoesOnTo("upsertRoles", w.status)
<1>1. /\ pc = "getRoles" /\ UNCHANGED <<solrVars, kubernetesVars>>
      /\ w \in Work /\ w.status \in Status
  BY DEF GetRoles, GetFails, GetWorks, Parts, WorkerInv, Work
<1>2. Fail(w.status) => FailsWith(w.status)
  BY <1>1, Shapes
<1> QED
  BY <1>1, <1>2 DEF GetRoles, GetFails, GetWorks, GoesOnTo, Work

LEMMA UpsertRolesEffect ==
    ASSUME Parts, UpsertRoles
    PROVE  /\ pc = "upsertRoles" /\ UNCHANGED <<account, kubernetesVars>>
           /\ \E o \in Outcomes :
                /\ Post(o)
                /\ roles' = IF Applied(o)
                            THEN [roles EXCEPT ![Username] = w.roles \cup DefaultRoles]
                            ELSE roles
                /\ Failed(o) => FailsWith(w.status)
                /\ ~Failed(o) =>
                     \E st \in Status : SameName(st) /\ GoesOnTo(AfterRoles, st)
<1> DEFINE st == [w.status EXCEPT !.HasRoles = "AddededRoles"]
<1>1. /\ pc = "upsertRoles"
      /\ UNCHANGED <<account, kubernetesVars>>
      /\ \E o \in Outcomes :
           /\ Post(o)
           /\ roles' = IF Applied(o)
                       THEN [roles EXCEPT ![Username] = w.roles \cup DefaultRoles]
                       ELSE roles
           /\ Failed(o) => Fail(w.status)
           /\ ~Failed(o) => GoTo(AfterRoles, st)
  BY DEF UpsertRoles, SetRoles
<1>2. w.status \in Status
  BY <1>1, Shapes DEF Parts, WorkerInv, Work
<1>3. st \in Status
  BY <1>2, StatusType DEF Reasons, TrueReasons, OtherReasons
<1>4. st.username = w.status.username
  BY <1>2 DEF Status
<1> HIDE DEF st
<1>5. Fail(w.status) => FailsWith(w.status)
  BY <1>1, <1>2, Shapes
<1>6. GoTo(AfterRoles, st) => GoesOnTo(AfterRoles, st)
  BY <1>1, <1>3, Shapes
<1> QED
  BY <1>1, <1>3, <1>4, <1>5, <1>6 DEF SameName

LEMMA UpdateSecretEffect ==
    ASSUME Parts, UpdateSecret
    PROVE  /\ pc = "updateSecret" /\ UNCHANGED solrVars
           /\ UNCHANGED <<user, userCache, userLag, secretCache, cloudVars>>
           /\ GoesOnTo("okStatus", w.status)
           /\ \E o \in Outcomes :
                /\ ApiWrite(S \in secretHeld, o)
                /\ secret' = IF Applied(o) THEN [secret EXCEPT ![S] = w.secret]
                             ELSE secret
<1>1. /\ pc = "updateSecret" /\ UNCHANGED solrVars
      /\ UNCHANGED <<user, userCache, userLag, secretCache, cloudVars>>
      /\ GoTo("okStatus", w.status)
      /\ \E o \in Outcomes :
           /\ ApiWrite(S \in secretHeld, o)
           /\ secret' = IF Applied(o) THEN [secret EXCEPT ![S] = w.secret]
                        ELSE secret
  BY DEF UpdateSecret, PutSecret
<1>2. w.status \in Status
  BY <1>1, Shapes DEF Parts, WorkerInv, Work
<1> QED
  BY <1>1, <1>2, Shapes

LEMMA RevokeRolesEffect ==
    ASSUME Parts, RevokeRoles
    PROVE  /\ pc = "deleteRoles" /\ ~w.ensure
           /\ UNCHANGED <<account, kubernetesVars>>
           /\ \E o \in Outcomes :
                /\ Post(o)
                /\ roles' = IF Applied(o) THEN [roles EXCEPT ![Username] = {}]
                            ELSE roles
                /\ Failed(o) => Ends
                /\ ~Failed(o) => GoesOnTo(AfterRevoke(w.status), w.status)
<1>1. /\ pc = "deleteRoles"
      /\ UNCHANGED <<account, kubernetesVars>>
      /\ \E o \in Outcomes :
           /\ Post(o)
           /\ roles' = IF Applied(o) THEN [roles EXCEPT ![Username] = {}]
                       ELSE roles
           /\ Failed(o) => Fail(w.status)
           /\ ~Failed(o) => GoTo(AfterRevoke(w.status), w.status)
  BY DEF RevokeRoles, DeleteRoles, SetRoles
<1>2. w.status \in Status /\ ~w.ensure
  BY <1>1 DEF Parts, WorkerInv, Work, PassConsistent, DeleteLabels
<1> QED
  BY <1>1, <1>2, Shapes DEF FailsWith

LEMMA RevokeUserEffect ==
    ASSUME Parts, RevokeUser
    PROVE  /\ pc = "deleteUser" /\ ~w.ensure
           /\ UNCHANGED <<roles, kubernetesVars>>
           /\ \E o \in Outcomes :
                /\ Post(o)
                /\ account' = IF Applied(o) THEN [account EXCEPT ![Username] = NONE]
                              ELSE account
                /\ Failed(o) => Ends
                /\ ~Failed(o) => GoesOnTo("removeFinalizer", w.status)
<1>1. /\ pc = "deleteUser"
      /\ UNCHANGED <<roles, kubernetesVars>>
      /\ \E o \in Outcomes :
           /\ Post(o)
           /\ account' = IF Applied(o) THEN [account EXCEPT ![Username] = NONE]
                         ELSE account
           /\ Failed(o) => Fail(w.status)
           /\ ~Failed(o) => GoTo("removeFinalizer", w.status)
  BY DEF RevokeUser, DeleteUser
<1>2. w.status \in Status /\ ~w.ensure
  BY <1>1 DEF Parts, WorkerInv, Work, PassConsistent, DeleteLabels
<1> QED
  BY <1>1, <1>2, Shapes DEF FailsWith


(* The secret the pass goes on with, once it has one.                      *)
Fills(sec) ==
    /\ pc' = "checkExistence"
    /\ w'.key = w.key
    /\ w'.ensure = w.ensure
    /\ SameName(w'.status)
    /\ w'.secret \in SecretObj
    /\ w'.secret # NONE
    /\ w'.secret.username \in Names
    /\ w'.secret.password \in Passwords
    /\ w'.dirty = (w'.secret # sec)
    /\ sec.username # NONE => w'.secret.username = sec.username
    /\ sec.username = NONE => w'.secret.username \in Fresh
    /\ sec.password # NONE => w'.secret.password = sec.password
    /\ userHeld' = userHeld

LEMMA ReconcileSecretFills ==
    ASSUME Parts, pc # "idle", NEW sec \in SecretObj, NEW how \in Reasons,
           ReconcileSecret(sec, how), UNCHANGED userHeld
    PROVE  Fills(sec)
<1>1. w.status \in Status
  BY DEF Parts, WorkerInv, Work
<1>2. SameName(SecretStatus(w.status, sec, how))
  BY <1>1, SecretStatusType, SecretStatusKeepsName DEF SameName
<1> QED
  BY <1>2, ReconcileSecretEffect DEF Fills

LEMMA GetSecretEffect ==
    ASSUME Parts, GetSecret
    PROVE  /\ pc = "getSecret" /\ S \in Secrets /\ w.secret = NONE
           /\ UNCHANGED <<solrVars, user, userCache, userLag, secret,
                          secretCache, cloudVars>>
           /\ IF S \in secretLag THEN Disrupt("stale") ELSE Calm
           /\ \/ /\ secretCache[S] \in SecretObj /\ secretCache[S] # NONE
                 /\ Fills(secretCache[S])
                 /\ secretHeld' = {S} \ secretLag
              \/ /\ secretCache[S] = NONE
                 /\ \E st \in Status :
                      /\ SameName(st)
                      /\ GoesOnTo(IF w.ensure THEN "createSecret"
                                  ELSE "checkExistence", st)
<1> DEFINE st == [w.status EXCEPT !.SecretExists = "FailedLoad"]
<1>1. /\ pc = "getSecret" /\ pc # "idle" /\ pc \in BeforeSecret
      /\ UNCHANGED <<solrVars, user, userCache, userLag, secret,
                     secretCache, cloudVars>>
      /\ IF S \in secretLag THEN Disrupt("stale") ELSE Calm
      /\ \/ /\ secretCache[S] # NONE
            /\ ReconcileSecret(secretCache[S], "Exists")
            /\ secretHeld' = {S} \ secretLag
            /\ UNCHANGED userHeld
         \/ secretCache[S] = NONE /\ WithoutSecret(st)
  BY DEF GetSecret, BeforeSecret
<1>2. S \in Secrets /\ w.secret = NONE /\ w.status \in Status
  BY <1>1, SecretNamed DEF Parts, WorkerInv, PassConsistent, Work
<1>3. secretCache[S] # NONE => secretCache[S] \in SecretObj
  BY <1>2 DEF Parts, SecretStored
<1>4. "Exists" \in Reasons
  BY DEF Reasons, TrueReasons
<1>5. (/\ secretCache[S] # NONE
       /\ ReconcileSecret(secretCache[S], "Exists")
       /\ UNCHANGED userHeld) => Fills(secretCache[S])
  BY <1>1, <1>3, <1>4, ReconcileSecretFills
<1>6. st \in Status /\ st.username = w.status.username
  BY <1>2, StatusType, ConditionsKeepName DEF Reasons, OtherReasons
<1> HIDE DEF st
<1>7. WithoutSecret(st) =>
        GoesOnTo(IF w.ensure THEN "createSecret" ELSE "checkExistence", st)
  BY <1>1, <1>6, Shapes DEF WithoutSecret
<1> QED
  BY <1>1, <1>2, <1>3, <1>5, <1>6, <1>7 DEF SameName

LEMMA CreateSecretEffect ==
    ASSUME Parts, CreateSecret
    PROVE  /\ pc = "createSecret" /\ S \in Secrets /\ w.secret = NONE
           /\ w.ensure
           /\ UNCHANGED <<solrVars, user, userCache, userLag, secretCache,
                          cloudVars>>
           /\ \E o \in Outcomes :
                /\ ApiWrite(secret[S] = NONE, o)
                /\ secret' = IF Applied(o) THEN [secret EXCEPT ![S] = EmptySecret]
                             ELSE secret
                /\ Failed(o) =>
                     \E st \in Status : FailsWith(st) /\ SameName(st)
                /\ ~Failed(o) => Fills(EmptySecret) /\ secretHeld' = {S}
<1> DEFINE st == [w.status EXCEPT !.SecretExists = "FailedCreation"]
<1>1. /\ pc = "createSecret" /\ pc # "idle" /\ pc \in BeforeSecret
      /\ pc \in EnsureLabels
      /\ UNCHANGED <<solrVars, user, userCache, userLag, secretCache,
                     cloudVars>>
      /\ \E o \in Outcomes :
           /\ ApiWrite(secret[S] = NONE, o)
           /\ secret' = IF Applied(o) THEN [secret EXCEPT ![S] = EmptySecret]
                        ELSE secret
           /\ Failed(o) => Fail(st)
           /\ ~Failed(o) => /\ ReconcileSecret(EmptySecret, "Created")
                            /\ secretHeld' = {S} /\ UNCHANGED userHeld
  BY DEF CreateSecret, BeforeSecret, EnsureLabels, PutSecret
<1>2. S \in Secrets /\ w.secret = NONE /\ w.status \in Status /\ w.ensure
  BY <1>1, SecretNamed DEF Parts, WorkerInv, PassConsistent, Work
<1>3. "Created" \in Reasons
  BY DEF Reasons, TrueReasons
<1>4. ReconcileSecret(EmptySecret, "Created") /\ UNCHANGED userHeld
        => Fills(EmptySecret)
  BY <1>1, <1>3, BlankType, ReconcileSecretFills
<1>5. st \in Status /\ st.username = w.status.username
  BY <1>2, StatusType, ConditionsKeepName DEF Reasons, OtherReasons
<1> HIDE DEF st
<1>6. Fail(st) => FailsWith(st)
  BY <1>1, <1>5, Shapes
<1> QED
  BY <1>1, <1>2, <1>4, <1>5, <1>6 DEF SameName

-----------------------------------------------------------------------------
(* The five writes to the User.                                            *)
UserWriteFrame ==
    UNCHANGED <<solrVars, userCache, secret, secretCache, secretLag, cloudVars>>

StatusIs(st) ==
    \/ UNCHANGED user
    \/ /\ w.key \in userHeld
       /\ user' = [user EXCEPT ![w.key] = [user[w.key] EXCEPT !.status = st]]

FinalizerIs(b) ==
    \/ UNCHANGED user
    \/ /\ w.key \in userHeld
       /\ user' = [user EXCEPT ![w.key] =
                     Reaped([user[w.key] EXCEPT !.finalizer = b])]

LEMMA StatusWriteEffect ==
    ASSUME Parts, pc # "idle", NEW st \in Status, NEW o,
           WriteUser([user[w.key] EXCEPT !.status = st], o)
    PROVE  UserWriteFrame /\ StatusIs(st) /\ ApiWrite(w.key \in userHeld, o)
<1> DEFINE obj == [user[w.key] EXCEPT !.status = st]
<1>1. w.key \in userHeld => /\ obj \in UserObj /\ Reaped(obj) # NONE
  BY HeldUser, EditedUser
<1>2. Reaped(obj) # NONE => Reaped(obj) = obj
  BY DEF Reaped
<1>3. WriteUser(obj, o)
  OBVIOUS
<1> HIDE DEF obj
<1>4. \/ UNCHANGED user
      \/ w.key \in userHeld /\ user' = [user EXCEPT ![w.key] = Reaped(obj)]
  BY <1>1, <1>3, WriteUserType
<1>5. UserWriteFrame /\ ApiWrite(w.key \in userHeld, o)
  BY <1>3 DEF WriteUser, UserWriteFrame
<1>6. StatusIs(st)
  BY <1>1, <1>2, <1>4 DEF StatusIs, obj
<1> QED
  BY <1>5, <1>6

LEMMA FinalizerWriteEffect ==
    ASSUME Parts, pc # "idle", NEW b \in BOOLEAN, NEW o,
           WriteUser([user[w.key] EXCEPT !.finalizer = b], o)
    PROVE  UserWriteFrame /\ FinalizerIs(b) /\ ApiWrite(w.key \in userHeld, o)
<1> DEFINE obj == [user[w.key] EXCEPT !.finalizer = b]
<1>1. w.key \in userHeld => obj \in UserObj
  BY HeldUser DEF UserObj
<1>2. WriteUser(obj, o)
  OBVIOUS
<1> HIDE DEF obj
<1>3. \/ UNCHANGED user
      \/ w.key \in userHeld /\ user' = [user EXCEPT ![w.key] = Reaped(obj)]
  BY <1>1, <1>2, WriteUserType
<1>4. UserWriteFrame /\ ApiWrite(w.key \in userHeld, o)
  BY <1>2 DEF WriteUser, UserWriteFrame
<1>5. FinalizerIs(b)
  BY <1>3 DEF FinalizerIs, obj
<1> QED
  BY <1>4, <1>5

LEMMA AddFinalizerEffect ==
    ASSUME Parts, AddFinalizer
    PROVE  /\ pc = "addFinalizer" /\ UserWriteFrame /\ FinalizerIs(TRUE)
           /\ \E o \in Outcomes :
                /\ ApiWrite(w.key \in userHeld, o)
                /\ IF Failed(o) THEN Ends ELSE GoesOnTo("initStatus", w.status)
<1>1. pc = "addFinalizer" /\ w.status \in Status
  BY DEF AddFinalizer, Parts, WorkerInv, Work
<1>2. PICK o \in Outcomes :
        /\ WriteUser([user[w.key] EXCEPT !.finalizer = TRUE], o)
        /\ IF Failed(o) THEN Requeue ELSE GoTo("initStatus", w.status)
  BY DEF AddFinalizer
<1>3. UserWriteFrame /\ FinalizerIs(TRUE) /\ ApiWrite(w.key \in userHeld, o)
  BY <1>1, <1>2, FinalizerWriteEffect
<1> QED
  BY <1>1, <1>2, <1>3, Shapes

LEMMA InitStatusEffect ==
    ASSUME Parts, InitStatus
    PROVE  /\ pc = "initStatus" /\ UserWriteFrame
           /\ \E st \in Status, o \in Outcomes :
                /\ SameName(st) /\ st.Available = "Reconciling"
                /\ StatusIs(st)
                /\ ApiWrite(w.key \in userHeld, o)
                /\ IF Failed(o) THEN Ends ELSE GoesOnTo("getSecret", st)
<1> DEFINE st == [w.status EXCEPT !.Available = "Reconciling",
                                  !.Exists = "Reconciling",
                                  !.HasRoles = "Reconciling",
                                  !.PasswordUpToDate = "Reconciling"]
<1>1. pc = "initStatus" /\ w.status \in Status
  BY DEF InitStatus, Parts, WorkerInv, Work
<1>2. PICK o \in Outcomes :
        /\ WriteUser([user[w.key] EXCEPT !.status = st], o)
        /\ IF Failed(o) THEN Requeue ELSE GoTo("getSecret", st)
  BY DEF InitStatus
<1>3. st \in Status /\ SameName(st) /\ st.Available = "Reconciling"
  <2>1. st \in Status
    BY <1>1, StatusType DEF Reasons, OtherReasons
  <2>2. st.username = w.status.username /\ st.Available = "Reconciling"
    BY <1>1 DEF Status
  <2> QED
    BY <2>1, <2>2 DEF SameName
<1> HIDE DEF st
<1>4. UserWriteFrame /\ StatusIs(st) /\ ApiWrite(w.key \in userHeld, o)
  BY <1>1, <1>2, <1>3, StatusWriteEffect
<1>5. IF Failed(o) THEN Ends ELSE GoesOnTo("getSecret", st)
  BY <1>1, <1>2, <1>3, Shapes
<1> QED
  BY <1>1, <1>3, <1>4, <1>5

(* The two status updates that end a pass.                                 *)
LEMMA LastStatusEffect ==
    ASSUME Parts, OkStatus \/ FailStatus
    PROVE  /\ pc \in {"okStatus", "failStatus"} /\ UserWriteFrame /\ Ends
           /\ \E o \in Outcomes : ApiWrite(w.key \in userHeld, o)
           /\ \E st \in Status :
                /\ SameName(st)
                /\ StatusIs(st)
                /\ st.Available = IF pc = "okStatus" THEN "ReconcileSuccess"
                                  ELSE "ReconciliationFailed"
<1> DEFINE r == IF pc = "okStatus" THEN "ReconcileSuccess"
                ELSE "ReconciliationFailed"
           st == [w.status EXCEPT !.Available = r]
<1>1. pc \in {"okStatus", "failStatus"} /\ w.status \in Status
  BY DEF OkStatus, FailStatus, Parts, WorkerInv, Work
<1>2. PICK o \in Outcomes :
        /\ WriteUser([user[w.key] EXCEPT !.status = st], o)
        /\ Done \/ Requeue
  <2>1. CASE OkStatus
    BY <2>1 DEF OkStatus
  <2>2. CASE FailStatus
    BY <2>2 DEF FailStatus
  <2> QED
    BY <2>1, <2>2
<1>3. r \in Reasons
  BY DEF Reasons, TrueReasons, OtherReasons
<1> HIDE DEF r
<1>4. st \in Status /\ st.Available = r /\ SameName(st)
  BY <1>1, <1>3, StatusType DEF SameName, Status
<1> HIDE DEF st
<1>5. UserWriteFrame /\ StatusIs(st) /\ ApiWrite(w.key \in userHeld, o)
  BY <1>1, <1>2, <1>4, StatusWriteEffect
<1>6. Ends
  BY <1>1, <1>2, <1>4, Shapes
<1> QED
  BY <1>1, <1>4, <1>5, <1>6 DEF r

LEMMA RemoveFinalizerEffect ==
    ASSUME Parts, RemoveFinalizer
    PROVE  /\ pc = "removeFinalizer" /\ UserWriteFrame /\ FinalizerIs(FALSE)
           /\ Ends
           /\ \E o \in Outcomes : ApiWrite(w.key \in userHeld, o)
<1>1. pc = "removeFinalizer" /\ w.status \in Status
  BY DEF RemoveFinalizer, Parts, WorkerInv, Work
<1>2. PICK o \in Outcomes :
        /\ WriteUser([user[w.key] EXCEPT !.finalizer = FALSE], o)
        /\ Done \/ Requeue
  BY DEF RemoveFinalizer
<1>3. UserWriteFrame /\ FinalizerIs(FALSE) /\ ApiWrite(w.key \in userHeld, o)
  BY <1>1, <1>2, FinalizerWriteEffect
<1> QED
  BY <1>1, <1>2, <1>3, Shapes


(***************************************************************************)
(* The steps of a pass by what they can disturb: nine talk to Solr and     *)
(* leave the cluster alone, three read or write the secret, five write to  *)
(* the User.                                                               *)
(***************************************************************************)
Checks == CheckExistence \/ CheckPassword \/ CheckRoles \/ GetRoles

Makes == EnsureUser \/ UpdatePassword \/ UpsertRoles

Retires == RevokeRoles \/ RevokeUser

UserWrites ==
    \/ AddFinalizer \/ InitStatus \/ OkStatus \/ FailStatus \/ RemoveFinalizer

LEMMA StepsByEffect ==
    PassStep <=> \/ Checks \/ Makes \/ Retires
                 \/ GetSecret \/ CreateSecret \/ UpdateSecret
                 \/ UserWrites
BY DEF PassStep, Checks, Makes, Retires, UserWrites

(* Solr's part of every step of a pass.                                    *)
LEMMA OnlyItsName ==
    ASSUME Parts, PassStep
    PROVE  /\ pc # "idle"
           /\ \A n \in Names : n # Username =>
                account'[n] = account[n] /\ roles'[n] = roles[n]
<1>1. CASE Checks
  <2>1. pc # "idle" /\ UNCHANGED <<solrVars, kubernetesVars>>
    BY <1>1, CheckExistenceEffect, CheckPasswordEffect, CheckRolesEffect,
       GetRolesEffect DEF Checks
  <2> QED
    BY <2>1 DEF solrVars
<1>2. CASE Makes \/ Retires
  <2>1. /\ pc # "idle"
        /\ \/ UNCHANGED solrVars
           \/ \E p : account' = [account EXCEPT ![Username] = p] /\ UNCHANGED roles
           \/ \E r : roles' = [roles EXCEPT ![Username] = r] /\ UNCHANGED account
    BY <1>2, EnsureUserEffect, UpsertRolesEffect, RevokeRolesEffect,
       RevokeUserEffect DEF Makes, Retires, solrVars
  <2> QED
    BY <2>1 DEF Parts, SolrTypeOK, solrVars
<1>3. CASE GetSecret \/ CreateSecret \/ UpdateSecret
  BY <1>3, GetSecretEffect, CreateSecretEffect, UpdateSecretEffect DEF solrVars
<1>4. CASE UserWrites
  BY <1>4, AddFinalizerEffect, InitStatusEffect, LastStatusEffect,
     RemoveFinalizerEffect DEF UserWrites, UserWriteFrame, solrVars
<1> QED
  BY <1>1, <1>2, <1>3, <1>4, StepsByEffect

-----------------------------------------------------------------------------
(***************************************************************************)
(* Own accounts only.  OwnersInv says why: with a secret of its own for    *)
(* each User, no status, secret or cached copy that a pass for the User    *)
(* reads mentions a name generated for another.                            *)
(***************************************************************************)
UserNames ==
    \A u \in Users : \A obj \in {user[u], userCache[u]} :
      obj # NONE => obj.status.username \in MayHave(u)

SecretNames ==
    \A u \in Users : \A sec \in {SecretFor(u), secretCache[SecretOf[u]]} :
      sec # NONE => sec.username \in MayHave(u)

PassNames ==
    pc # "idle" =>
      /\ w.status.username \in MayHave(w.key)
      /\ w.secret # NONE => w.secret.username \in MayHave(w.key)

LEMMA OwnersParts ==
    /\ OwnersInv <=> UserNames /\ SecretNames /\ PassNames
    /\ OwnersInv' <=> UserNames' /\ SecretNames' /\ PassNames'
BY DEF OwnersInv, UserNames, SecretNames, PassNames

LEMMA FreshIsOwn ==
    ASSUME NEW n \in Fresh
    PROVE  n \in MayHave(w.key)
BY DEF Fresh, MayHave

(* The name a pass works with, if it is one, is the pass's own.            *)
LEMMA UsernameIsOwn ==
    ASSUME Parts, PassNames, pc # "idle"
    PROVE  Username \in MayHave(w.key)
BY DEF PassNames, Username

LEMMA GoesOnNames ==
    ASSUME Parts, PassNames, pc # "idle",
           \/ Ends
           \/ \E st : /\ st.username \in MayHave(w.key)
                      /\ \/ FailsWith(st)
                         \/ \E label : GoesOnTo(label, st)
    PROVE  PassNames'
<1>1. CASE Ends
  BY <1>1 DEF Ends, PassNames
<1>2. CASE \E st : /\ st.username \in MayHave(w.key)
                   /\ \/ FailsWith(st)
                      \/ \E label : GoesOnTo(label, st)
  BY <1>2 DEF FailsWith, GoesOnTo, Ends, PassNames, MayHave
<1> QED
  BY <1>1, <1>2

LEMMA SameNameIsOwn ==
    ASSUME PassNames, pc # "idle", NEW st, SameName(st)
    PROVE  st.username \in MayHave(w.key)
BY DEF PassNames, SameName

LEMMA ChecksNames ==
    ASSUME Parts, PassNames, Checks
    PROVE  PassNames'
<1>1. CASE CheckExistence
  <2>1. /\ pc # "idle"
        /\ \/ FailsWith(w.status)
           \/ \E st, label : SameName(st) /\ GoesOnTo(label, st)
    BY <1>1, CheckExistenceEffect
  <2>2. w.status.username \in MayHave(w.key)
    BY <2>1 DEF PassNames
  <2> QED
    BY <2>1, <2>2, GoesOnNames, SameNameIsOwn
<1>2. CASE CheckPassword
  <2>1. /\ pc # "idle"
        /\ \E st : /\ SameName(st)
                   /\ FailsWith(st) \/ \E label : GoesOnTo(label, st)
    BY <1>2, CheckPasswordEffect
  <2> QED
    BY <2>1, GoesOnNames, SameNameIsOwn
<1>3. CASE CheckRoles
  <2>1. pc = "hasRoles" /\ pc # "idle"
    BY <1>3, CheckRolesEffect
  <2>2. CASE FailsWith(w.status)
    BY <2>1, <2>2, GoesOnNames DEF PassNames
  <2>3. CASE \E st \in Status : /\ SameName(st)
                                /\ w.ensure => Provides(st)
                                /\ ~w.ensure => Revokes(st)
    <3>1. PICK st \in Status : /\ SameName(st)
                               /\ w.ensure => Provides(st)
                               /\ ~w.ensure => Revokes(st)
      BY <2>3
    <3>2. w.ensure => w.secret \in SecretObj /\ w.secret.username # NONE
      BY <2>1 DEF Parts, WorkerInv, PassConsistent, Observing, Work
    <3>3. w.ensure => Noted(st).username = Username
      BY <3>2 DEF Noted, Status
    <3>4. \/ \E label : GoesOnTo(label, st)
          \/ w.ensure /\ \E label : GoesOnTo(label, Noted(st))
      BY <3>1 DEF Provides, Revokes
    <3> QED
      BY <2>1, <3>1, <3>3, <3>4, UsernameIsOwn, SameNameIsOwn, GoesOnNames
  <2> QED
    BY <1>3, <2>2, <2>3, CheckRolesEffect
<1>4. CASE GetRoles
  <2>1. /\ pc # "idle"
        /\ FailsWith(w.status) \/ \E label : GoesOnTo(label, w.status)
    BY <1>4, GetRolesEffect
  <2> QED
    BY <2>1, GoesOnNames DEF PassNames
<1> QED
  BY <1>1, <1>2, <1>3, <1>4 DEF Checks

LEMMA MakesNames ==
    ASSUME Parts, PassNames, Makes
    PROVE  PassNames'
<1>1. CASE EnsureUser \/ UpdatePassword
  <2>1. /\ pc # "idle"
        /\ \E st : /\ SameName(st) \/ st.username = Username
                   /\ FailsWith(st) \/ \E label : GoesOnTo(label, st)
    BY <1>1, EnsureUserEffect
  <2> QED
    BY <2>1, GoesOnNames, SameNameIsOwn, UsernameIsOwn
<1>2. CASE UpsertRoles
  <2>1. /\ pc # "idle"
        /\ \/ FailsWith(w.status)
           \/ \E st, label : SameName(st) /\ GoesOnTo(label, st)
    BY <1>2, UpsertRolesEffect
  <2>2. w.status.username \in MayHave(w.key)
    BY <2>1 DEF PassNames
  <2> QED
    BY <2>1, <2>2, GoesOnNames, SameNameIsOwn
<1> QED
  BY <1>1, <1>2 DEF Makes

LEMMA RetiresNames ==
    ASSUME Parts, PassNames, Retires
    PROVE  PassNames'
<1>1. /\ pc # "idle"
      /\ Ends \/ \E label : GoesOnTo(label, w.status)
  BY RevokeRolesEffect, RevokeUserEffect DEF Retires
<1> QED
  BY <1>1, GoesOnNames DEF PassNames

(* A pass that fills in its own secret has a name of its own.              *)
LEMMA FillsNames ==
    ASSUME Parts, PassNames, pc # "idle", NEW sec, Fills(sec),
           sec.username \in MayHave(w.key)
    PROVE  PassNames'
<1>1. w'.status.username \in MayHave(w.key)
  BY SameNameIsOwn DEF Fills
<1>2. w'.secret.username \in MayHave(w.key)
  BY FreshIsOwn DEF Fills
<1> QED
  BY <1>1, <1>2 DEF Fills, PassNames, MayHave

LEMMA SecretStepsNames ==
    ASSUME Parts, OwnSecrets, SecretNames, PassNames,
           GetSecret \/ CreateSecret \/ UpdateSecret
    PROVE  PassNames' /\ SecretNames'
<1>1. CASE GetSecret
  <2>1. pc # "idle" /\ S \in Secrets /\ UNCHANGED <<secret, secretCache>>
    BY <1>1, GetSecretEffect
  <2>2. w.key \in Users /\ S = SecretOf[w.key]
    BY <2>1 DEF Parts, WorkerInv, PassConsistent, S
  <2>3. CASE secretCache[S] # NONE /\ Fills(secretCache[S])
    <3>1. secretCache[S].username \in MayHave(w.key)
      BY <2>2, <2>3 DEF SecretNames
    <3> QED
      BY <2>1, <2>3, <3>1, FillsNames DEF SecretNames, SecretFor
  <2>4. CASE \E st, label : SameName(st) /\ GoesOnTo(label, st)
    BY <2>1, <2>4, SameNameIsOwn, GoesOnNames DEF SecretNames, SecretFor
  <2> QED
    BY <1>1, <2>3, <2>4, GetSecretEffect
<1>2. CASE CreateSecret
  <2>1. /\ pc # "idle" /\ S \in Secrets /\ UNCHANGED secretCache
        /\ secret' = [secret EXCEPT ![S] = EmptySecret] \/ UNCHANGED secret
        /\ \/ \E st : FailsWith(st) /\ SameName(st)
           \/ Fills(EmptySecret)
    BY <1>2, CreateSecretEffect
  <2>2. EmptySecret.username = NONE
    BY DEF EmptySecret
  <2>3. PassNames'
    BY <2>1, <2>2, FillsNames, SameNameIsOwn, GoesOnNames DEF MayHave
  <2>4. SecretNames'
    BY <2>1, <2>2, UserApiAssumption
       DEF SecretNames, SecretFor, MayHave, Parts, SecretStored
  <2> QED
    BY <2>3, <2>4
<1>3. CASE UpdateSecret
  <2>1. /\ pc = "updateSecret" /\ UNCHANGED secretCache
        /\ secret' = [secret EXCEPT ![S] = w.secret] \/ UNCHANGED secret
        /\ GoesOnTo("okStatus", w.status)
    BY <1>3, UpdateSecretEffect
  <2>2. w.key \in Users /\ S = SecretOf[w.key] /\ w.secret # NONE
    BY <2>1 DEF Parts, WorkerInv, PassConsistent, HadSecret, S
  <2>3. PassNames'
    BY <2>1, GoesOnNames DEF PassNames
  <2>4. w.secret.username \in MayHave(w.key)
    BY <2>1, <2>2 DEF PassNames
  <2>5. ASSUME NEW u \in Users, SecretFor(u)' # NONE
        PROVE  SecretFor(u)'.username \in MayHave(u)
    <3>1. CASE u = w.key
      BY <2>1, <2>2, <2>4, <2>5, <3>1, UserApiAssumption
         DEF SecretFor, SecretNames, Parts, SecretStored
    <3>2. CASE u # w.key
      <4>1. SecretOf[u] # S
        BY <2>2, <3>2 DEF OwnSecrets
      <4>2. SecretFor(u)' = SecretFor(u)
        BY <2>1, <4>1, UserApiAssumption DEF SecretFor, Parts, SecretStored
      <4> QED
        BY <2>5, <4>2 DEF SecretNames
    <3> QED
      BY <3>1, <3>2
  <2> QED
    BY <2>1, <2>3, <2>5 DEF SecretNames, MayHave
<1> QED
  BY <1>1, <1>2, <1>3


(* A write to the User gives its status a name the pass has, or none.      *)
LEMMA StatusIsNames ==
    ASSUME Parts, UserNames, pc # "idle", NEW st \in Status,
           st.username \in MayHave(w.key), StatusIs(st), UNCHANGED userCache
    PROVE  UserNames'
<1>1. w.key \in userHeld => user[w.key] \in UserObj
  BY HeldUser
<1>2. \A u \in Users :
        \/ user'[u] = user[u]
        \/ u = w.key /\ user'[u].status = st
  BY <1>1 DEF StatusIs, Parts, UserStored, UserObj
<1> QED
  BY <1>2 DEF UserNames, MayHave

LEMMA FinalizerIsNames ==
    ASSUME Parts, UserNames, pc # "idle", NEW b \in BOOLEAN, FinalizerIs(b),
           UNCHANGED userCache
    PROVE  UserNames'
<1>1. w.key \in userHeld => user[w.key] \in UserObj /\ user[w.key] # NONE
  BY HeldUser, ObjectAssumption
<1>2. \A u \in Users :
        \/ user'[u] = user[u]
        \/ user'[u] = NONE
        \/ user[u] # NONE /\ user'[u].status = user[u].status
  BY <1>1 DEF FinalizerIs, Reaped, Parts, UserStored, UserObj
<1> QED
  BY <1>2 DEF UserNames, MayHave

LEMMA UserWritesNames ==
    ASSUME Parts, UserNames, SecretNames, PassNames, UserWrites
    PROVE  UserNames' /\ SecretNames' /\ PassNames'
<1>1. UserWriteFrame /\ pc # "idle"
  BY AddFinalizerEffect, InitStatusEffect, LastStatusEffect,
     RemoveFinalizerEffect DEF UserWrites
<1>2. SecretNames' /\ UNCHANGED userCache
  BY <1>1 DEF UserWriteFrame, SecretNames, SecretFor, MayHave
<1>3. w.status.username \in MayHave(w.key)
  BY <1>1 DEF PassNames
<1>4. CASE AddFinalizer \/ RemoveFinalizer
  <2>1. /\ FinalizerIs(TRUE) \/ FinalizerIs(FALSE)
        /\ Ends \/ \E label : GoesOnTo(label, w.status)
    BY <1>4, AddFinalizerEffect, RemoveFinalizerEffect
  <2> QED
    BY <1>1, <1>2, <1>3, <2>1, FinalizerIsNames, GoesOnNames
<1>5. CASE InitStatus \/ OkStatus \/ FailStatus
  <2>1. \E st \in Status : /\ SameName(st)
                           /\ StatusIs(st)
                           /\ Ends \/ \E label : GoesOnTo(label, st)
    BY <1>5, InitStatusEffect, LastStatusEffect
  <2> QED
    BY <1>1, <1>2, <2>1, StatusIsNames, GoesOnNames, SameNameIsOwn
<1> QED
  BY <1>2, <1>4, <1>5 DEF UserWrites

LEMMA PassStepOwners ==
    ASSUME Parts, OwnSecrets, OwnersInv, PassStep
    PROVE  OwnersInv'
<1>1. UserNames /\ SecretNames /\ PassNames
  BY OwnersParts
<1>2. CASE Checks \/ Makes \/ Retires
  <2>1. UNCHANGED kubernetesVars
    BY <1>2, CheckExistenceEffect, CheckPasswordEffect, CheckRolesEffect,
       GetRolesEffect, EnsureUserEffect, UpsertRolesEffect,
       RevokeRolesEffect, RevokeUserEffect DEF Checks, Makes, Retires
  <2>2. UserNames' /\ SecretNames'
    BY <1>1, <2>1 DEF kubernetesVars, UserNames, SecretNames, SecretFor, MayHave
  <2> QED
    BY <1>1, <1>2, <2>2, ChecksNames, MakesNames, RetiresNames, OwnersParts
<1>3. CASE GetSecret \/ CreateSecret \/ UpdateSecret
  <2>1. UNCHANGED <<user, userCache>>
    BY <1>3, GetSecretEffect, CreateSecretEffect, UpdateSecretEffect
  <2>2. UserNames'
    BY <1>1, <2>1 DEF UserNames, MayHave
  <2> QED
    BY <1>1, <1>3, <2>2, SecretStepsNames, OwnersParts
<1>4. CASE UserWrites
  BY <1>1, <1>4, UserWritesNames, OwnersParts
<1> QED
  BY <1>2, <1>3, <1>4, StepsByEffect

LEMMA BeginOwners ==
    ASSUME Parts, OwnersInv, NEW u \in Users, Begin(u)
    PROVE  OwnersInv'
<1>1. UserNames /\ SecretNames
  BY OwnersParts
<1>2. /\ userCache[u] # NONE
      /\ UNCHANGED <<user, userCache, secret, secretCache>>
      /\ w' = [NoWork EXCEPT !.key = u,
                             !.ensure = Ensures(userCache[u]),
                             !.status = userCache[u].status,
                             !.endpoint = cloudCache]
  BY DEF Begin, secretVars
<1>3. w'.key = u /\ w'.status = userCache[u].status /\ w'.secret = NONE
  BY <1>2 DEF NoWork
<1>4. PassNames'
  BY <1>1, <1>2, <1>3 DEF PassNames, UserNames, MayHave
<1>5. UserNames' /\ SecretNames'
  BY <1>1, <1>2 DEF UserNames, SecretNames, SecretFor, MayHave
<1> QED
  BY <1>4, <1>5, OwnersParts

(* People write a User without a name, or leave the name alone; they write *)
(* a secret with a name it has, none, or one that people choose.           *)
LEMMA EditUserNames ==
    ASSUME Parts, UserNames, NEW u \in Users,
           Apply(u) \/ RequestDelete(u) \/ DropForeign(u)
    PROVE  UserNames'
<1>1. user[u] # NONE => user[u] \in UserObj
  BY DEF Parts, UserStored
<1>2. /\ UNCHANGED userCache
      /\ \E obj : /\ user' = [user EXCEPT ![u] = obj]
                  /\ \/ obj = NONE
                     \/ obj.status.username = NONE
                     \/ user[u] # NONE /\ obj.status = user[u].status
  <2>1. CASE Apply(u)
    <3>1. NewUser(u).status.username = NONE
      BY DEF NewUser, BlankStatus
    <3>2. EditUser(u, NewUser(u))
      BY <2>1 DEF Apply
    <3> QED
      BY <3>1, <3>2 DEF EditUser, PutUser
  <2>2. CASE RequestDelete(u)
    <3> DEFINE obj == [user[u] EXCEPT !.deleting = TRUE]
    <3>1. user[u] # NONE /\ EditUser(u, Reaped(obj))
      BY <2>2 DEF RequestDelete, Live
    <3>2. obj.status = user[u].status
      BY <1>1, <3>1 DEF UserObj
    <3> HIDE DEF obj
    <3> QED
      BY <3>1, <3>2 DEF EditUser, PutUser, Reaped
  <2>3. CASE DropForeign(u)
    <3> DEFINE obj == [user[u] EXCEPT !.foreign = FALSE]
    <3>1. user[u] # NONE /\ EditUser(u, Reaped(obj))
      BY <2>3 DEF DropForeign
    <3>2. obj.status = user[u].status
      BY <1>1, <3>1 DEF UserObj
    <3> HIDE DEF obj
    <3> QED
      BY <3>1, <3>2 DEF EditUser, PutUser, Reaped
  <2> QED
    BY <2>1, <2>2, <2>3
<1> QED
  BY <1>2 DEF UserNames, MayHave, Parts, UserStored

(* The secret as people leave it.                                          *)
Edited(s, obj) ==
    \/ obj = NONE
    \/ obj.username = NONE
    \/ secret[s] # NONE /\ obj.username = secret[s].username
    \/ /\ "bring" \in Disruptions
       /\ obj.username \in Names
       /\ OwnerOf[obj.username] = "human"

LEMMA EditSecretEffect ==
    ASSUME Parts, NEW s \in Secrets,
           RotatePassword(s) \/ StripSecret(s) \/ DropSecret(s) \/ BringSecret(s)
    PROVE  /\ UNCHANGED <<solrVars, userVars, secretCache, cloudVars, queue>>
           /\ secretHeld' = secretHeld \ {s}
           /\ spent' = spent + 1
           /\ \E obj \in SecretObj \cup {NONE} :
                /\ Edited(s, obj)
                /\ secret' = [secret EXCEPT ![s] = obj]
<1>1. \E obj \in SecretObj \cup {NONE} :
        EditSecret(s, obj) /\ Edited(s, obj) /\ spent' = spent + 1
  <2>1. secret[s] # NONE => secret[s] \in SecretObj
    BY DEF Parts, SecretStored
  <2>2. CASE RotatePassword(s)
    BY <2>1, <2>2 DEF RotatePassword, Edited, SecretObj, Disrupt
  <2>3. CASE StripSecret(s)
    BY <2>1, <2>3 DEF StripSecret, Edited, SecretObj, Disrupt
  <2>4. CASE DropSecret(s)
    BY <2>4 DEF DropSecret, Edited, Disrupt
  <2>5. CASE BringSecret(s)
    BY <2>5, BlankType DEF BringSecret, Edited, EmptySecret, SecretObj, Disrupt
  <2> QED
    BY <2>2, <2>3, <2>4, <2>5
<1> QED
  BY <1>1 DEF EditSecret, PutSecret

LEMMA EditSecretNames ==
    ASSUME Parts, OwnSecrets, SecretNames, NEW s \in Secrets,
           RotatePassword(s) \/ StripSecret(s) \/ DropSecret(s) \/ BringSecret(s)
    PROVE  SecretNames'
<1>1. PICK obj \in SecretObj \cup {NONE} :
        /\ Edited(s, obj)
        /\ secret' = [secret EXCEPT ![s] = obj]
        /\ UNCHANGED secretCache
  BY EditSecretEffect
<1>2. \A r \in Secrets : secret'[r] = IF r = s THEN obj ELSE secret[r]
  BY <1>1 DEF Parts, SecretStored
<1>3. \A u \in Users : SecretOf[u] \in Secrets
  BY UserApiAssumption
<1>4. ASSUME NEW u \in Users, SecretOf[u] = s, obj # NONE
      PROVE  obj.username \in MayHave(u)
  <2>1. secret[s] # NONE => secret[s].username \in MayHave(u)
    BY <1>4 DEF SecretNames, SecretFor
  <2> QED
    BY <1>1, <1>4, <2>1 DEF Edited, MayHave
<1> QED
  BY <1>1, <1>2, <1>3, <1>4 DEF SecretNames, SecretFor, MayHave

LEMMA EnvironmentOwners ==
    ASSUME Parts, OwnSecrets, OwnersInv, Environment
    PROVE  OwnersInv'
<1>1. /\ UserNames /\ SecretNames /\ PassNames
      /\ UNCHANGED <<pc, w>>
  BY OwnersParts DEF Environment, workVars
<1>2. PassNames'
  BY <1>1 DEF PassNames, MayHave
<1>3. CASE \E u \in Users : Apply(u) \/ RequestDelete(u) \/ DropForeign(u)
  <2>1. UNCHANGED <<secret, secretCache>>
    BY <1>3 DEF Apply, RequestDelete, DropForeign, EditUser, secretVars
  <2>2. SecretNames'
    BY <1>1, <2>1 DEF SecretNames, SecretFor, MayHave
  <2> QED
    BY <1>1, <1>2, <1>3, <2>2, EditUserNames, OwnersParts
<1>4. CASE \E s \in Secrets : \/ RotatePassword(s) \/ StripSecret(s)
                              \/ DropSecret(s) \/ BringSecret(s)
  <2>1. UNCHANGED <<user, userCache>>
    BY <1>4, EditSecretEffect DEF userVars
  <2>2. UserNames'
    BY <1>1, <2>1 DEF UserNames, MayHave
  <2> QED
    BY <1>1, <1>2, <1>4, <2>2, EditSecretNames, OwnersParts
<1>5. CASE \E u \in Users : Deliver(u)
  <2>1. PICK u \in Users : Deliver(u)
    BY <1>5
  <2>2. /\ UNCHANGED <<user, secret, secretCache>>
        /\ userCache' = [userCache EXCEPT ![u] = user[u]]
    BY <2>1 DEF Deliver, secretVars
  <2>3. UserNames' /\ SecretNames'
    BY <1>1, <2>2
       DEF UserNames, SecretNames, SecretFor, MayHave, Parts, UserStored
  <2> QED
    BY <1>2, <2>3, OwnersParts
<1>6. CASE \E s \in Secrets : SyncSecret(s)
  <2>1. PICK s \in Secrets : SyncSecret(s)
    BY <1>6
  <2>2. /\ UNCHANGED <<user, userCache, secret>>
        /\ secretCache' = [secretCache EXCEPT ![s] = secret[s]]
    BY <2>1 DEF SyncSecret, userVars
  <2>3. UserNames' /\ SecretNames'
    BY <1>1, <2>2, UserApiAssumption
       DEF UserNames, SecretNames, SecretFor, MayHave, Parts, SecretStored
  <2> QED
    BY <1>2, <2>3, OwnersParts
<1>7. CASE \/ \E u \in Users : Resync(u)
           \/ \E s \in Secrets : DeliverSecretEvent(s)
           \/ CloudChange \/ SyncCloud \/ DeliverCloudEvent
           \/ SolrDrift /\ UNCHANGED apiVars
  <2>1. UNCHANGED <<user, userCache, secret, secretCache>>
    BY <1>7 DEF Resync, DeliverSecretEvent, CloudChange, SyncCloud,
                DeliverCloudEvent, apiVars, userVars, secretVars
  <2>2. UserNames' /\ SecretNames'
    BY <1>1, <2>1 DEF UserNames, SecretNames, SecretFor, MayHave
  <2> QED
    BY <1>2, <2>2, OwnersParts
<1> QED
  BY <1>3, <1>4, <1>5, <1>6, <1>7 DEF Environment, UserEdits, Informers

LEMMA NextOwners ==
    ASSUME Parts, OwnSecrets, OwnersInv, [Next]_vars
    PROVE  OwnersInv'
<1>1. CASE PassStep
  BY <1>1, PassStepOwners
<1>2. CASE \E u \in Users : Begin(u)
  BY <1>2, BeginOwners
<1>3. CASE (\E u \in Users : ObjectGone(u) \/ NoClient(u)) \/ UNCHANGED vars
  <2>1. UNCHANGED <<user, userCache, secret, secretCache, pc, w>>
    BY <1>3 DEF ObjectGone, NoClient, vars, apiVars, userVars, secretVars,
                workVars
  <2> QED
    BY <2>1 DEF OwnersInv, SecretFor, MayHave
<1>4. CASE Environment
  BY <1>4, EnvironmentOwners
<1>5. CASE Crash
  <2>1. /\ UNCHANGED <<user, secret>> /\ pc' = "idle"
        /\ userCache' = user /\ secretCache' = secret
    BY <1>5 DEF Crash, Relist
  <2> QED
    BY <2>1 DEF OwnersInv, SecretFor, MayHave
<1> QED
  BY <1>1, <1>2, <1>3, <1>4, <1>5 DEF Next, Worker, TakeKey

LEMMA InitOwners ==
    ASSUME Init
    PROVE  OwnersInv
BY UserApiAssumption
   DEF Init, ApiInit, OwnersInv, SecretFor, MayHave, NewUser, BlankStatus

(* The accounts a step touches are the pass's own.                         *)
OwnAccountsStep ==
    WorkerSteps =>
      \A n \in Names :
        (account'[n] # account[n] \/ roles'[n] # roles[n]) =>
          OwnerOf[n] \in {w.key, "human"}

LEMMA NextOwnAccounts ==
    ASSUME Parts, OwnersInv, [Next]_vars
    PROVE  OwnAccountsStep
<1>1. CASE PassStep
  <2>1. pc # "idle" /\ PassNames
    BY <1>1, OnlyItsName, OwnersParts
  <2>2. Username \in Names => OwnerOf[Username] \in {w.key, "human"}
    BY <2>1, UsernameIsOwn, SolrAssumption DEF MayHave
  <2> QED
    BY <1>1, <2>2, OnlyItsName DEF OwnAccountsStep
<1>2. CASE ~PassStep
  <2>1. UNCHANGED solrVars \/ UNCHANGED pc
    BY <1>2 DEF Next, Worker, TakeKey, ObjectGone, NoClient, Begin, Crash,
                Environment, vars, workVars
  <2> QED
    BY <2>1 DEF OwnAccountsStep, WorkerSteps, solrVars
<1> QED
  BY <1>1, <1>2

(***************************************************************************)
(* Spec => OwnAccountsOnly, when no two Users name the same secret: the    *)
(* accounts and roles a pass changes are those of names generated for its  *)
(* own User, or chosen by people; whatever is stale, edited or failing.    *)
(***************************************************************************)
THEOREM OwnAccountsAreTouched ==
    ASSUME OwnSecrets
    PROVE  Spec => OwnAccountsOnly
<1>1. Init => Parts /\ OwnersInv
  BY InitParts, InitOwners
<1>2. Parts /\ OwnersInv /\ [Next]_vars => Parts' /\ OwnersInv'
  BY NextParts, NextOwners
<1>3. Parts /\ OwnersInv /\ [Next]_vars => [OwnAccountsStep]_vars
  BY NextOwnAccounts
<1> QED
  BY <1>1, <1>2, <1>3, PTL DEF Spec, OwnAccountsOnly, OwnAccountsStep


-----------------------------------------------------------------------------
(***************************************************************************)
(* Orphans are paid for.  LostInv says why: a disruption can make at most  *)
(* one more account lost, or put one at risk, and without a disruption a   *)
(* pass publishes the account it makes.                                    *)
(***************************************************************************)
PublishedNames == {Published(u) : u \in Users}

Paid ==
    /\ spent' \in {spent, spent + 1}
    /\ \/ Lost' \subseteq Lost
       \/ spent' = spent + 1 /\ \E x : Lost' \subseteq Lost \cup {x}

LEMMA PaidIsEnough ==
    ASSUME Parts, LostInv, Paid
    PROVE  IsFiniteSet(Lost') /\ Cardinality(Lost') <= spent'
<1>1. /\ IsFiniteSet(Lost) /\ Cardinality(Lost) <= spent
      /\ spent \in Nat /\ Cardinality(Lost) \in Nat
  BY FS_CardinalityType DEF LostInv, Parts
<1>2. CASE Lost' \subseteq Lost
  <2>1. IsFiniteSet(Lost') /\ Cardinality(Lost') <= Cardinality(Lost)
    BY <1>1, <1>2, FS_Subset
  <2>2. Cardinality(Lost') \in Nat
    BY <2>1, FS_CardinalityType
  <2> QED
    BY <1>1, <2>1, <2>2 DEF Paid
<1>3. CASE spent' = spent + 1 /\ \E x : Lost' \subseteq Lost \cup {x}
  <2>1. PICK x : Lost' \subseteq Lost \cup {x}
    BY <1>3
  <2>2. /\ IsFiniteSet(Lost \cup {x})
        /\ Cardinality(Lost \cup {x}) <= Cardinality(Lost) + 1
        /\ Cardinality(Lost \cup {x}) \in Nat
    <3>1. /\ IsFiniteSet(Lost \cup {x})
          /\ Cardinality(Lost \cup {x}) =
               IF x \in Lost THEN Cardinality(Lost) ELSE Cardinality(Lost) + 1
      BY <1>1, FS_AddElement
    <3> QED
      BY <1>1, <3>1
  <2>3. /\ IsFiniteSet(Lost')
        /\ Cardinality(Lost') <= Cardinality(Lost \cup {x})
    BY <2>1, <2>2, FS_Subset
  <2>4. Cardinality(Lost') \in Nat
    BY <2>3, FS_CardinalityType
  <2> QED
    BY <1>1, <1>3, <2>2, <2>3, <2>4
<1> QED
  BY <1>2, <1>3 DEF Paid

LEMMA SpentGrows ==
    ASSUME NEW o, Calm \/ (\E kind : Disrupt(kind)) \/ Post(o)
    PROVE  spent' \in {spent, spent + 1}
BY DEF Calm, Disrupt, Post

LEMMA SamePublished ==
    ASSUME UNCHANGED secret
    PROVE  PublishedNames' = PublishedNames
BY DEF PublishedNames, Published, SecretFor

LEMMA LostMember ==
    ASSUME NEW n
    PROVE  /\ n \in Lost <=> /\ (n \in Names /\ account[n] # NONE) \/ n \in AtRisk
                             /\ n \notin PublishedNames
                             /\ n \notin Safe
           /\ n \in Lost' <=>
                /\ (n \in Names /\ account'[n] # NONE) \/ n \in AtRisk'
                /\ n \notin PublishedNames'
                /\ n \notin Safe'
BY DEF Lost, PublishedNames

(* Outside of the steps from the secret to its update, nothing is at risk. *)
LEMMA NotMaking ==
    /\ ~Making => AtRisk = {} /\ Safe = {}
    /\ ~Making' => AtRisk' = {} /\ Safe' = {}
BY DEF AtRisk, Safe

(* Nothing is lost by a step outside of them that makes no account.        *)
LEMMA NotMakingLost ==
    ASSUME ~Making, ~Making', UNCHANGED secret,
           \A n \in Names : account'[n] # NONE => account[n] # NONE
    PROVE  Lost' \subseteq Lost
BY NotMaking, SamePublished, LostMember

(* A pass that stops making loses at most the account it was making.       *)
LEMMA StopsMaking ==
    ASSUME ~Making', UNCHANGED secret,
           \A n \in Names : n # w.secret.username =>
             (account'[n] # NONE => account[n] # NONE)
    PROVE  Lost' \subseteq Lost \cup {w.secret.username}
<1>1. \A n : n \in Safe => n = w.secret.username
  BY DEF Safe
<1>2. \A n : n \in AtRisk => n = w.secret.username
  BY DEF AtRisk
<1> QED
  BY <1>1, <1>2, NotMaking, SamePublished, LostMember

(* A pass that goes on making loses nothing.                               *)
LEMMA GoesOnMaking ==
    ASSUME Making, Making', UNCHANGED secret, NEW label, NEW st,
           GoesOnTo(label, st),
           \A n \in Names : n # w.secret.username =>
             (account'[n] # NONE => account[n] # NONE)
    PROVE  Lost' \subseteq Lost
<1>1. AtRisk' = AtRisk /\ Safe' = Safe
  BY DEF GoesOnTo, AtRisk, Safe, S
<1>2. w.secret.username \in AtRisk \cup Safe
  BY DEF AtRisk, Safe
<1> QED
  BY <1>1, <1>2, SamePublished, LostMember

(* A pass that has nothing to update has published its account.            *)
LEMMA NothingToUpdate ==
    ASSUME Parts, SecretInv, CleanCopy, Making, ~w.dirty, ~Making',
           w.key \in Users, UNCHANGED secret,
           \A n \in Names : n # w.secret.username =>
             (account'[n] # NONE => account[n] # NONE)
    PROVE  Lost' \subseteq Lost
<1>1. CASE S \in secretHeld
  <2>1. secret[S] # NONE /\ secret[S].username = w.secret.username
    BY <1>1 DEF SecretInv, CleanCopy, Making
  <2>2. w.secret.username \in PublishedNames
    BY <2>1 DEF PublishedNames, Published, SecretFor, S
  <2>3. \A n : n \in Safe => n = w.secret.username
    BY DEF Safe
  <2>4. AtRisk = {}
    BY <1>1 DEF AtRisk
  <2> QED
    BY <2>2, <2>3, <2>4, NotMaking, SamePublished, LostMember
<1>2. CASE S \notin secretHeld
  <2>1. AtRisk = {w.secret.username} /\ Safe = {}
    BY <1>2 DEF AtRisk, Safe
  <2> QED
    BY <2>1, NotMaking, SamePublished, LostMember
<1> QED
  BY <1>1, <1>2

LEMMA PassMaking ==
    ASSUME Parts, pc \in Observing \cup HadSecret
    PROVE  /\ Making <=> w.ensure
           /\ w.key \in Users
<1>1. pc # "idle"
  BY DEF Observing, HadSecret
<1>2. pc \in HadSecret => w.ensure
  BY EnsuringPass
<1> QED
  BY <1>1, <1>2 DEF Parts, WorkerInv, PassConsistent, Making

(* The steps that go on without a disruption.                              *)
LEMMA GoesOnLost ==
    ASSUME Parts, SecretInv, CleanCopy, pc \in Observing \cup HadSecret,
           NEW label, NEW st, GoesOnTo(label, st), UNCHANGED secret,
           \A n \in Names : n # w.secret.username =>
             (account'[n] # NONE => account[n] # NONE),
           w.ensure => \/ label \in Observing \cup HadSecret
                       \/ label = "okStatus" /\ ~w.dirty,
           ~w.ensure => UNCHANGED account
    PROVE  Lost' \subseteq Lost
<1>1. /\ Making <=> w.ensure
      /\ w.key \in Users
  BY PassMaking
<1>2. CASE ~w.ensure
  <2>1. ~Making /\ ~Making'
    BY <1>2 DEF Making, GoesOnTo
  <2> QED
    BY <1>2, <2>1, NotMakingLost
<1>3. CASE w.ensure /\ label \in Observing \cup HadSecret
  <2>1. Making'
    BY <1>1, <1>3 DEF Making, GoesOnTo
  <2> QED
    BY <1>1, <1>3, <2>1, GoesOnMaking
<1>4. CASE w.ensure /\ label = "okStatus" /\ ~w.dirty
  <2>1. ~Making'
    BY <1>4 DEF Making, GoesOnTo, Observing, HadSecret
  <2> QED
    BY <1>1, <1>4, <2>1, NothingToUpdate
<1> QED
  BY <1>2, <1>3, <1>4

LEMMA FailsPaid ==
    ASSUME NEW st, FailsWith(st), spent' = spent + 1, UNCHANGED secret,
           \A n \in Names : n # w.secret.username =>
             (account'[n] # NONE => account[n] # NONE)
    PROVE  Paid
<1>1. ~Making'
  BY DEF FailsWith, GoesOnTo, Ends, Making, NoWork, Observing, HadSecret
<1>2. Lost' \subseteq Lost \cup {w.secret.username}
  BY <1>1, StopsMaking
<1> QED
  BY <1>2 DEF Paid

(* The copy stays clean where neither it nor the secret changes.           *)
LEMMA CleanCopyKept ==
    ASSUME CleanCopy, UNCHANGED secret,
           \/ Ends
           \/ \E label, st : GoesOnTo(label, st)
           \/ \E st : FailsWith(st)
           \/ UNCHANGED w /\ secretHeld' \subseteq secretHeld
    PROVE  CleanCopy'
<1>1. CASE Ends
  BY <1>1 DEF Ends, CleanCopy, NoWork
<1>2. CASE \E label, st : GoesOnTo(label, st)
  BY <1>2 DEF GoesOnTo, CleanCopy, S
<1>3. CASE UNCHANGED w /\ secretHeld' \subseteq secretHeld
  BY <1>3 DEF CleanCopy, S
<1> QED
  BY <1>1, <1>2, <1>3 DEF FailsWith


LEMMA ChecksPaid ==
    ASSUME Parts, SecretInv, CleanCopy, Checks
    PROVE  Paid /\ CleanCopy'
<1>1. /\ pc \in Observing \cup HadSecret
      /\ UNCHANGED <<account, secret>>
      /\ \/ /\ \E kind : Disrupt(kind)
            /\ \E st : FailsWith(st)
         \/ /\ Calm
            /\ \E label, st :
                 /\ GoesOnTo(label, st)
                 /\ w.ensure => \/ label \in Observing \cup HadSecret
                                \/ label = "okStatus" /\ ~w.dirty
  <2>1. CASE CheckExistence
    BY <2>1, CheckExistenceEffect
       DEF Observing, solrVars, kubernetesVars
  <2>2. CASE CheckPassword
    BY <2>2, CheckPasswordEffect DEF Observing, solrVars, kubernetesVars
  <2>3. CASE CheckRoles
    <3>1. /\ pc \in Observing /\ UNCHANGED <<account, secret>>
          /\ \/ Disrupt("solrError") /\ FailsWith(w.status)
             \/ /\ Calm
                /\ \E st : (w.ensure => Provides(st)) /\ (~w.ensure => Revokes(st))
      BY <2>3, CheckRolesEffect DEF Observing, solrVars, kubernetesVars
    <3>2. ASSUME NEW st, w.ensure, Provides(st)
          PROVE  \E label, st2 :
                   /\ GoesOnTo(label, st2)
                   /\ \/ label \in Observing \cup HadSecret
                      \/ label = "okStatus" /\ ~w.dirty
      <4>1. AfterUser(st) \in HadSecret \/ (AfterUser(st) = "okStatus" /\ ~w.dirty)
        BY DEF AfterUser, AfterRoles, HadSecret
      <4>2. "createUser" \in HadSecret /\ "updateUser" \in HadSecret
        BY DEF HadSecret
      <4> QED
        BY <3>2, <4>1, <4>2 DEF Provides
    <3>3. ASSUME NEW st, Revokes(st)
          PROVE  \E label, st2 : GoesOnTo(label, st2)
      BY <3>3 DEF Revokes
    <3> QED
      BY <3>1, <3>2, <3>3
  <2>4. CASE GetRoles
    BY <2>4, GetRolesEffect DEF HadSecret, solrVars, kubernetesVars
  <2> QED
    BY <2>1, <2>2, <2>3, <2>4 DEF Checks
<1>2. CASE (\E kind : Disrupt(kind)) /\ \E st : FailsWith(st)
  <2>1. spent' = spent + 1
    BY <1>2 DEF Disrupt
  <2> QED
    BY <1>1, <1>2, <2>1, FailsPaid, CleanCopyKept
<1>3. CASE /\ Calm
           /\ \E label, st :
                /\ GoesOnTo(label, st)
                /\ w.ensure => \/ label \in Observing \cup HadSecret
                               \/ label = "okStatus" /\ ~w.dirty
  <2>1. Lost' \subseteq Lost
    BY <1>1, <1>3, GoesOnLost
  <2> QED
    BY <1>1, <1>3, <2>1, CleanCopyKept DEF Paid, Calm
<1> QED
  BY <1>1, <1>2, <1>3

LEMMA MakesPaid ==
    ASSUME Parts, SecretInv, CleanCopy, Makes
    PROVE  Paid /\ CleanCopy'
<1>1. /\ pc \in HadSecret /\ UNCHANGED secret
      /\ account' = [account EXCEPT ![Username] = Password] \/ UNCHANGED account
      /\ \E o \in Outcomes :
           /\ Post(o)
           /\ Failed(o) => \E st : FailsWith(st)
           /\ ~Failed(o) =>
                \E label, st :
                  /\ GoesOnTo(label, st)
                  /\ \/ label \in HadSecret
                     \/ label = "okStatus" /\ ~w.dirty
  <2>1. CASE EnsureUser \/ UpdatePassword
    <3>1. \A st : AfterUser(st) \in HadSecret \/ (AfterUser(st) = "okStatus" /\ ~w.dirty)
      BY DEF AfterUser, AfterRoles, HadSecret
    <3>2. /\ pc \in {"createUser", "updateUser"} /\ UNCHANGED secret
          /\ \E o \in Outcomes :
               /\ Post(o)
               /\ account' = IF Applied(o) THEN [account EXCEPT ![Username] = Password]
                             ELSE account
               /\ Failed(o) => \E st : FailsWith(st)
               /\ ~Failed(o) => \E st : GoesOnTo(AfterUser(st), st)
      BY <2>1, EnsureUserEffect DEF kubernetesVars
    <3>3. pc \in HadSecret
      BY <3>2 DEF HadSecret
    <3> QED
      BY <3>1, <3>2, <3>3
  <2>2. CASE UpsertRoles
    <3>1. AfterRoles \in HadSecret \/ (AfterRoles = "okStatus" /\ ~w.dirty)
      BY DEF AfterRoles, HadSecret
    <3> QED
      BY <2>2, <3>1, UpsertRolesEffect DEF HadSecret, kubernetesVars
  <2> QED
    BY <2>1, <2>2 DEF Makes
<1>2. w.ensure /\ Username = w.secret.username
  BY <1>1, EnsuringPass
<1>3. \A n \in Names : n # w.secret.username =>
        (account'[n] # NONE => account[n] # NONE)
  BY <1>1, <1>2 DEF Parts, SolrTypeOK
<1>4. PICK o \in Outcomes :
        /\ Post(o)
        /\ Failed(o) => \E st : FailsWith(st)
        /\ ~Failed(o) =>
             \E label, st :
               /\ GoesOnTo(label, st)
               /\ \/ label \in HadSecret
                  \/ label = "okStatus" /\ ~w.dirty
  BY <1>1
<1>5. CASE Failed(o)
  <2>1. spent' = spent + 1
    BY <1>4, <1>5 DEF Post, Failed, Disrupt
  <2> QED
    BY <1>1, <1>3, <1>4, <1>5, <2>1, FailsPaid, CleanCopyKept
<1>6. CASE ~Failed(o)
  <2>1. Lost' \subseteq Lost
    BY <1>1, <1>2, <1>3, <1>4, <1>6, GoesOnLost
  <2>2. spent' \in {spent, spent + 1}
    BY <1>4, SpentGrows
  <2> QED
    BY <1>1, <1>4, <1>6, <2>1, <2>2, CleanCopyKept DEF Paid
<1> QED
  BY <1>5, <1>6

LEMMA RetiresPaid ==
    ASSUME Parts, CleanCopy, Retires
    PROVE  Paid /\ CleanCopy'
<1>1. /\ ~w.ensure /\ UNCHANGED secret
      /\ account' = [account EXCEPT ![Username] = NONE] \/ UNCHANGED account
      /\ Ends \/ \E label, st : GoesOnTo(label, st)
      /\ \E o : Post(o)
  BY RevokeRolesEffect, RevokeUserEffect DEF Retires, kubernetesVars
<1>2. ~Making /\ ~Making'
  BY <1>1 DEF Making, GoesOnTo, Ends, NoWork
<1>3. \A n \in Names : account'[n] # NONE => account[n] # NONE
  BY <1>1 DEF Parts, SolrTypeOK
<1>4. Lost' \subseteq Lost
  BY <1>1, <1>2, <1>3, NotMakingLost
<1>5. spent' \in {spent, spent + 1}
  BY <1>1, SpentGrows
<1> QED
  BY <1>1, <1>4, <1>5, CleanCopyKept DEF Paid

LEMMA GetSecretPaid ==
    ASSUME Parts, CleanCopy, GetSecret
    PROVE  Paid /\ CleanCopy'
<1>1. /\ S \in Secrets /\ w.secret = NONE
      /\ UNCHANGED <<account, secret>>
      /\ IF S \in secretLag THEN Disrupt("stale") ELSE Calm
  BY GetSecretEffect DEF solrVars
<1>2. ~Making
  BY <1>1 DEF Making
<1>3. CASE /\ secretCache[S] \in SecretObj /\ secretCache[S] # NONE
           /\ Fills(secretCache[S])
           /\ secretHeld' = {S} \ secretLag
  <2>1. S' = S /\ w'.secret # NONE
    BY <1>3 DEF Fills, S
  <2>2. CASE S \in secretLag
    <3>1. secretHeld' = {} /\ spent' = spent + 1
      BY <1>1, <1>3, <2>2 DEF Disrupt
    <3>2. AtRisk' \subseteq {w'.secret.username} /\ Safe' = {}
      BY <3>1 DEF AtRisk, Safe
    <3>3. Lost' \subseteq Lost \cup {w'.secret.username}
      BY <1>1, <1>2, <3>2, NotMaking, SamePublished, LostMember
    <3> QED
      BY <3>1, <3>3 DEF Paid, CleanCopy
  <2>3. CASE S \notin secretLag
    <3>1. S' \in secretHeld' /\ spent' = spent
      BY <1>1, <1>3, <2>1, <2>3 DEF Calm
    <3>2. AtRisk' = {}
      BY <3>1 DEF AtRisk
    <3>3. Lost' \subseteq Lost
      BY <1>1, <1>2, <3>2, NotMaking, SamePublished, LostMember
    <3>4. secretCache[S] = secret[S]
      BY <1>1, <2>3 DEF Parts, SecretStored
    <3>5. CleanCopy'
      BY <1>1, <1>3, <2>1, <3>4 DEF CleanCopy, Fills
    <3> QED
      BY <3>1, <3>3, <3>5 DEF Paid
  <2> QED
    BY <2>2, <2>3
<1>4. CASE \E label, st : GoesOnTo(label, st)
  <2>1. ~Making'
    BY <1>1, <1>4 DEF Making, GoesOnTo
  <2>2. Lost' \subseteq Lost
    BY <1>1, <1>2, <2>1, NotMakingLost
  <2> QED
    BY <1>1, <1>4, <2>2, CleanCopyKept DEF Paid, Calm, Disrupt
<1> QED
  BY <1>3, <1>4, GetSecretEffect

LEMMA CreateSecretPaid ==
    ASSUME Parts, CleanCopy, CreateSecret
    PROVE  Paid /\ CleanCopy'
<1>1. PICK o \in Outcomes :
        /\ S \in Secrets /\ w.secret = NONE /\ UNCHANGED account
        /\ ApiWrite(secret[S] = NONE, o)
        /\ secret' = IF Applied(o) THEN [secret EXCEPT ![S] = EmptySecret]
                     ELSE secret
        /\ Failed(o) => \E st \in Status : FailsWith(st) /\ SameName(st)
        /\ ~Failed(o) => Fills(EmptySecret) /\ secretHeld' = {S}
  BY CreateSecretEffect DEF solrVars
<1>2. /\ spent' \in {spent, spent + 1} /\ o # "refused"
      /\ Applied(o) => secret[S] = NONE
  BY <1>1 DEF ApiWrite, Applied, Calm, Disrupt
<1>3. \A s \in Secrets : \/ secret'[s] = secret[s]
                         \/ s = S /\ secret[s] = NONE /\ secret'[s] = EmptySecret
  BY <1>1, <1>2 DEF Parts, SecretStored
<1>4. EmptySecret.username = NONE /\ EmptySecret # NONE
  BY BlankType, ObjectAssumption DEF EmptySecret
<1>5. PublishedNames' = PublishedNames
  <2>1. \A u \in Users : Published(u)' = Published(u)
    BY <1>3, <1>4, UserApiAssumption DEF Published, SecretFor
  <2> QED
    BY <2>1 DEF PublishedNames
<1>6. ~Making
  BY <1>1 DEF Making
<1>7. AtRisk' = {} /\ CleanCopy'
  <2>1. CASE Failed(o)
    <3>1. w'.secret = NONE
      BY <1>1, <2>1 DEF FailsWith, GoesOnTo, Ends, NoWork
    <3> QED
      BY <3>1 DEF AtRisk, Making, CleanCopy
  <2>2. CASE ~Failed(o)
    <3>1. S' = S /\ secretHeld' = {S} /\ Fills(EmptySecret)
      BY <1>1, <2>2 DEF Fills, S
    <3>2. w'.secret.username # NONE
      BY <3>1, SolrAssumption DEF Fills
    <3>3. w'.dirty
      BY <1>4, <3>1, <3>2 DEF Fills
    <3> QED
      BY <3>1, <3>3 DEF AtRisk, CleanCopy
  <2> QED
    BY <2>1, <2>2
<1>8. Lost' \subseteq Lost
  BY <1>1, <1>5, <1>6, <1>7, NotMaking, LostMember
<1> QED
  BY <1>2, <1>7, <1>8 DEF Paid

LEMMA UpdateSecretPaid ==
    ASSUME Parts, SecretInv, CleanCopy, UpdateSecret
    PROVE  Paid /\ CleanCopy'
<1>1. PICK o \in Outcomes :
        /\ pc = "updateSecret" /\ UNCHANGED account
        /\ GoesOnTo("okStatus", w.status)
        /\ ApiWrite(S \in secretHeld, o)
        /\ secret' = IF Applied(o) THEN [secret EXCEPT ![S] = w.secret]
                     ELSE secret
  BY UpdateSecretEffect DEF solrVars
<1>2. /\ spent' \in {spent, spent + 1}
      /\ Applied(o) => S \in secretHeld
      /\ ~Applied(o) => spent' = spent + 1 \/ S \notin secretHeld
  BY <1>1 DEF ApiWrite, Applied, Calm, Disrupt
<1>3. /\ Making /\ w.key \in Users /\ ~Making'
      /\ w.secret # NONE /\ w.secret.username \in Names
  BY <1>1, EnsuringPass, PassMaking
     DEF Making, HadSecret, Observing, GoesOnTo
<1>4. S \in Secrets /\ S = SecretOf[w.key]
  BY <1>3, UserApiAssumption DEF S
<1>5. CASE Applied(o)
  <2>1. S \in secretHeld /\ secret[S] # NONE /\ Adds(w.secret, secret[S])
    BY <1>2, <1>5 DEF SecretInv
  <2>2. \A s \in Secrets : secret'[s] = IF s = S THEN w.secret ELSE secret[s]
    BY <1>1, <1>5 DEF Parts, SecretStored
  <2>3. Safe = {w.secret.username}
    BY <1>3, <2>1 DEF Safe
  <2>4. w.secret.username \in PublishedNames'
    BY <1>3, <1>4, <2>2 DEF PublishedNames, Published, SecretFor
  <2>5. \A n \in Names : n \in PublishedNames => n \in PublishedNames'
    <3>1. ASSUME NEW u \in Users, Published(u) # NONE
          PROVE  Published(u)' = Published(u)
      <4>1. SecretOf[u] \in Secrets
        BY UserApiAssumption
      <4> QED
        BY <1>3, <2>1, <2>2, <3>1, <4>1 DEF Published, SecretFor, Adds
    <3> QED
      BY <3>1, SolrAssumption DEF PublishedNames
  <2>6. Lost' \subseteq Lost
    BY <1>1, <1>3, <2>3, <2>4, <2>5, NotMaking, LostMember
  <2>7. CleanCopy'
    BY <1>1, <1>4, <2>2 DEF CleanCopy, GoesOnTo, S
  <2> QED
    BY <1>2, <2>6, <2>7 DEF Paid
<1>6. CASE ~Applied(o)
  <2>1. UNCHANGED secret
    BY <1>1, <1>6
  <2>2. CleanCopy'
    BY <1>1, <2>1, CleanCopyKept
  <2>3. Lost' \subseteq Lost \cup {w.secret.username}
    BY <1>1, <1>3, <2>1, StopsMaking
  <2>4. CASE S \notin secretHeld
    <3>1. AtRisk = {w.secret.username} /\ Safe = {}
      BY <1>3, <2>4 DEF AtRisk, Safe
    <3>2. Lost' \subseteq Lost
      BY <1>1, <1>3, <2>1, <3>1, NotMaking, SamePublished, LostMember
    <3> QED
      BY <1>2, <2>2, <3>2 DEF Paid
  <2> QED
    BY <1>2, <1>6, <2>2, <2>3, <2>4 DEF Paid
<1> QED
  BY <1>5, <1>6

LEMMA UserWritesPaid ==
    ASSUME Parts, CleanCopy, UserWrites
    PROVE  Paid /\ CleanCopy'
<1>1. /\ pc \in {"addFinalizer", "initStatus", "okStatus", "failStatus",
                 "removeFinalizer"}
      /\ UNCHANGED <<account, secret>>
      /\ \E o : ApiWrite(w.key \in userHeld, o)
      /\ \/ Ends
         \/ GoesOnTo("initStatus", w.status)
         \/ \E st : GoesOnTo("getSecret", st)
  BY AddFinalizerEffect, InitStatusEffect, LastStatusEffect,
     RemoveFinalizerEffect DEF UserWrites, UserWriteFrame, solrVars
<1>2. ~Making /\ ~Making'
  BY <1>1 DEF Making, GoesOnTo, Ends, Observing, HadSecret
<1>3. Lost' \subseteq Lost
  BY <1>1, <1>2, NotMakingLost
<1>4. spent' \in {spent, spent + 1}
  BY <1>1 DEF ApiWrite, Calm, Disrupt
<1> QED
  BY <1>1, <1>3, <1>4, CleanCopyKept DEF Paid

LEMMA PassStepPaid ==
    ASSUME Parts, SecretInv, CleanCopy, PassStep
    PROVE  Paid /\ CleanCopy'
BY ChecksPaid, MakesPaid, RetiresPaid, GetSecretPaid, CreateSecretPaid,
   UpdateSecretPaid, UserWritesPaid, StepsByEffect


(* An edit of a secret takes away one name it showed, or the pass under    *)
(* way its claim to the name it is about to publish there, but not both:   *)
(* the copy the pass has contains what the secret shows.                   *)
LEMMA EditSecretPaid ==
    ASSUME Parts, SecretInv, CleanCopy, UNCHANGED <<pc, w>>, NEW s \in Secrets,
           RotatePassword(s) \/ StripSecret(s) \/ DropSecret(s) \/ BringSecret(s)
    PROVE  Paid /\ CleanCopy'
<1>1. /\ UNCHANGED account
      /\ secretHeld' = secretHeld \ {s}
      /\ spent' = spent + 1
      /\ \E obj : secret' = [secret EXCEPT ![s] = obj]
  BY EditSecretEffect DEF solrVars
<1>2. \A r \in Secrets : r # s => secret'[r] = secret[r]
  BY <1>1 DEF Parts, SecretStored
<1>3. CleanCopy'
  BY <1>1, <1>2 DEF CleanCopy, S, Parts, WorkerInv
<1>4. Making' = Making /\ S' = S
  BY DEF Making, S
<1>5. ASSUME NEW n \in PublishedNames, n \notin PublishedNames'
      PROVE  n = IF secret[s] = NONE THEN NONE ELSE secret[s].username
  <2>1. PICK u \in Users : n = Published(u)
    BY <1>5 DEF PublishedNames
  <2>2. SecretOf[u] = s
    BY <1>2, <1>5, <2>1, UserApiAssumption
       DEF PublishedNames, Published, SecretFor
  <2> QED
    BY <2>1, <2>2 DEF Published, SecretFor
<1>6. CASE Making /\ s = S /\ S \in secretHeld
  <2>1. secret[S] # NONE /\ Adds(w.secret, secret[S])
    BY <1>6 DEF SecretInv
  <2>2. Safe = {w.secret.username} /\ AtRisk = {}
    BY <1>6 DEF Safe, AtRisk
  <2>3. AtRisk' = {w.secret.username}
    BY <1>1, <1>4, <1>6 DEF AtRisk
  <2>4. \A n \in Names : n \in PublishedNames /\ n \notin PublishedNames'
                           => n = w.secret.username
    BY <1>5, <1>6, <2>1, SolrAssumption DEF Adds
  <2>5. Lost' \subseteq Lost \cup {w.secret.username}
    BY <1>1, <2>2, <2>3, <2>4, LostMember
  <2> QED
    BY <1>1, <1>3, <2>5 DEF Paid
<1>7. CASE ~(Making /\ s = S /\ S \in secretHeld)
  <2>1. Safe' = Safe /\ AtRisk' = AtRisk
    BY <1>1, <1>4, <1>7 DEF Safe, AtRisk
  <2>2. Lost' \subseteq Lost \cup {IF secret[s] = NONE THEN NONE
                                   ELSE secret[s].username}
    BY <1>1, <1>5, <2>1, LostMember
  <2> QED
    BY <1>1, <1>3, <2>2 DEF Paid
<1> QED
  BY <1>6, <1>7

(* Nothing else changes what is published or who is about to publish.      *)
LEMMA ElsewherePaid ==
    ASSUME Parts, CleanCopy, UNCHANGED <<pc, w, secret, secretHeld>>,
           Calm \/ \E kind : Disrupt(kind),
           \A n \in Names : account'[n] # NONE => account[n] # NONE
    PROVE  Paid /\ CleanCopy'
<1>1. Safe' = Safe /\ AtRisk' = AtRisk
  BY DEF Safe, AtRisk, Making, S
<1>2. Lost' \subseteq Lost
  BY <1>1, SamePublished, LostMember
<1>3. spent' \in {spent, spent + 1}
  BY DEF Calm, Disrupt
<1> QED
  BY <1>2, <1>3, CleanCopyKept DEF Paid

LEMMA EnvironmentPaid ==
    ASSUME Parts, SecretInv, CleanCopy, Environment
    PROVE  Paid /\ CleanCopy'
<1>1. UNCHANGED <<pc, w>>
  BY DEF Environment, workVars
<1>2. CASE \E s \in Secrets : \/ RotatePassword(s) \/ StripSecret(s)
                              \/ DropSecret(s) \/ BringSecret(s)
  BY <1>1, <1>2, EditSecretPaid
<1>3. CASE SolrDrift /\ UNCHANGED apiVars
  <2>1. \A n \in Names : account'[n] # NONE => account[n] # NONE
    BY <1>3 DEF SolrDrift, Parts, SolrTypeOK
  <2>2. UNCHANGED <<secret, secretHeld>> /\ Disrupt("drift")
    BY <1>3 DEF SolrDrift, apiVars, secretVars
  <2> QED
    BY <1>1, <2>1, <2>2, ElsewherePaid
<1>4. CASE \/ \E u \in Users : Apply(u) \/ RequestDelete(u) \/ DropForeign(u)
           \/ CloudChange
           \/ Informers
  <2>1. /\ UNCHANGED <<account, secret, secretHeld>>
        /\ Calm \/ \E kind : Disrupt(kind)
    BY <1>4 DEF Apply, RequestDelete, DropForeign, EditUser, CloudChange,
                Informers, Deliver, Resync, SyncSecret, DeliverSecretEvent,
                SyncCloud, DeliverCloudEvent, solrVars, secretVars
  <2> QED
    BY <1>1, <2>1, ElsewherePaid
<1> QED
  BY <1>2, <1>3, <1>4 DEF Environment, UserEdits

LEMMA NextLost ==
    ASSUME Parts, SecretInv, LostInv, [Next]_vars
    PROVE  LostInv'
<1>1. CleanCopy
  BY DEF LostInv
<1>2. CASE PassStep
  BY <1>1, <1>2, PassStepPaid, PaidIsEnough DEF LostInv
<1>3. CASE \E u \in Users : Begin(u)
  <2>1. /\ pc = "idle" /\ w'.secret = NONE
        /\ UNCHANGED <<account, secret>>
        /\ Calm \/ Disrupt("stale")
    BY <1>3 DEF Begin, NoWork, solrVars, secretVars
  <2>2. ~Making /\ ~Making' /\ CleanCopy'
    BY <2>1 DEF Making, Observing, HadSecret, CleanCopy
  <2>3. Lost' \subseteq Lost
    BY <2>1, <2>2, NotMakingLost
  <2> QED
    BY <2>1, <2>2, <2>3, PaidIsEnough DEF Paid, Calm, Disrupt, LostInv
<1>4. CASE (\E u \in Users : ObjectGone(u) \/ NoClient(u)) \/ UNCHANGED vars
  <2>1. UNCHANGED <<account, pc, w, secret, secretHeld>> /\ Calm
    BY <1>4 DEF ObjectGone, NoClient, vars, solrVars, apiVars, secretVars,
                workVars, Calm
  <2> QED
    BY <1>1, <2>1, ElsewherePaid, PaidIsEnough DEF LostInv
<1>5. CASE Environment
  BY <1>1, <1>5, EnvironmentPaid, PaidIsEnough DEF LostInv
<1>6. CASE Crash
  <2>1. /\ spent' = spent + 1 /\ w' = NoWork
        /\ UNCHANGED <<account, secret>>
    BY <1>6 DEF Crash, Disrupt, Relist, solrVars
  <2>2. ~Making' /\ CleanCopy'
    BY <2>1 DEF Making, CleanCopy, NoWork
  <2>3. Lost' \subseteq Lost \cup {w.secret.username}
    BY <2>1, <2>2, StopsMaking
  <2> QED
    BY <2>1, <2>2, <2>3, PaidIsEnough DEF Paid, LostInv
<1> QED
  BY <1>2, <1>3, <1>4, <1>5, <1>6 DEF Next, Worker, TakeKey

LEMMA InitLost ==
    ASSUME Init
    PROVE  LostInv
<1>1. AtRisk = {} /\ w.secret = NONE /\ spent = 0
  BY DEF Init, AtRisk, Making, NoWork
<1>2. \A n \in Names : account[n] = NONE
  BY DEF Init, SolrInit
<1>3. Lost = {}
  BY <1>1, <1>2, LostMember
<1> QED
  BY <1>1, <1>3, FS_EmptySet DEF LostInv, CleanCopy

(* What is lost includes the orphans of the property.                      *)
LEMMA LostCountsOrphans ==
    ASSUME Parts, LostInv
    PROVE  OrphansPaidFor
<1>1. Orphans \subseteq Lost
  BY DEF Orphans, Lost, Safe, Making, Username
<1>2. /\ Cardinality(Orphans) <= Cardinality(Lost)
      /\ IsFiniteSet(Orphans)
  BY <1>1, FS_Subset DEF LostInv
<1>3. Cardinality(Orphans) \in Nat /\ Cardinality(Lost) \in Nat /\ spent \in Nat
  BY <1>2, FS_CardinalityType DEF LostInv, Parts
<1> QED
  BY <1>2, <1>3 DEF LostInv, OrphansPaidFor

(***************************************************************************)
(* Spec => []OrphansPaidFor, with no hypothesis: whatever fails, crashes,  *)
(* is stale or edited, in any order and for any number of Users, even such *)
(* as share a secret, the accounts that nobody can find any more are never *)
(* more than the disruptions there have been.                              *)
(***************************************************************************)
THEOREM OrphansArePaidFor == Spec => []OrphansPaidFor
<1>1. Init => Parts /\ SecretInv /\ LostInv
  BY InitParts, InitLost DEF Init, ApiInit, SecretInv
<1>2. Parts /\ SecretInv /\ LostInv /\ [Next]_vars
        => Parts' /\ SecretInv' /\ LostInv'
  BY NextParts, NextSecret, NextLost
<1>3. Parts /\ LostInv => OrphansPaidFor
  BY LostCountsOrphans
<1> QED
  BY <1>1, <1>2, <1>3, PTL DEF Spec
=============================================================================
