------------------------ MODULE UserCredentialProofs ------------------------
(***************************************************************************)
(* Theorems about the credentials a User has: that they are retired before *)
(* the finalizer comes off, and that they work while they are shown.       *)
(*                                                                         *)
(* The first three have the disruptions they do not survive for a          *)
(* hypothesis, as kinds a behaviour may not contain; with any one of them  *)
(* admitted, TLC shows the property violated.  The last is about           *)
(* behaviours in which there has been none so far.                         *)
(***************************************************************************)
EXTENDS UserAccountProofs

Excluded(kinds) == kinds \cap Disruptions = {}

LEMMA ExcludedNeverHappens ==
    ASSUME NEW kinds, Excluded(kinds), NEW kind \in kinds
    PROVE  ~Disrupt(kind)
BY DEF Excluded, Disrupt

-----------------------------------------------------------------------------
(* What steps leave as it is.                                              *)

(* A pass keeps its name and its kind for as long as it goes on.           *)
LEMMA GoesOnKeepsName ==
    ASSUME NEW label, NEW st, GoesOnTo(label, st), SameName(st)
    PROVE  Username' = Username /\ Password' = Password
BY DEF GoesOnTo, SameName, Username, Password

(* The four ways a step inside a pass leaves the worker.                   *)
LEMMA PassShapes ==
    ASSUME Parts, PassStep
    PROVE  \/ Ends
           \/ \E st : FailsWith(st)
           \/ \E label, st : GoesOnTo(label, st)
           \/ \E sec : Fills(sec)
<1>1. CASE Checks
  BY <1>1, CheckExistenceEffect, CheckPasswordEffect, CheckRolesEffect,
     GetRolesEffect DEF Checks, Provides, Revokes
<1>2. CASE Makes
  BY <1>2, EnsureUserEffect, UpsertRolesEffect DEF Makes
<1>3. CASE Retires
  BY <1>3, RevokeRolesEffect, RevokeUserEffect DEF Retires
<1>4. CASE GetSecret \/ CreateSecret \/ UpdateSecret
  BY <1>4, GetSecretEffect, CreateSecretEffect, UpdateSecretEffect
<1>5. CASE UserWrites
  BY <1>5, AddFinalizerEffect, InitStatusEffect, LastStatusEffect,
     RemoveFinalizerEffect DEF UserWrites
<1> QED
  BY <1>1, <1>2, <1>3, <1>4, <1>5, StepsByEffect

LEMMA PassKeepsKind ==
    ASSUME Parts, PassStep
    PROVE  \/ pc' = "idle" /\ w' = NoWork /\ userHeld' = {}
           \/ w'.ensure = w.ensure /\ w'.key = w.key /\ userHeld' = userHeld
BY PassShapes DEF Ends, FailsWith, GoesOnTo, Fills

(* Who writes what.                                                        *)
LEMMA WorkerChanges ==
    ASSUME [Next]_vars
    PROVE  \/ PassStep
           \/ \E u \in Users : Begin(u)
           \/ Crash
           \/ UNCHANGED <<pc, w>> /\ (UNCHANGED solrVars \/ SolrDrift)
<1>1. CASE \E u \in Users : ObjectGone(u) \/ NoClient(u)
  BY <1>1 DEF ObjectGone, NoClient, vars, workVars
<1>2. CASE Environment
  <2>1. UNCHANGED solrVars \/ SolrDrift
    BY <1>2 DEF Environment, UserEdits, Informers, Apply, RequestDelete,
                DropForeign, EditUser, RotatePassword, StripSecret, DropSecret,
                BringSecret, EditSecret, CloudChange, Deliver, Resync,
                SyncSecret, DeliverSecretEvent, SyncCloud, DeliverCloudEvent
  <2> QED
    BY <1>2, <2>1 DEF Environment, workVars
<1> QED
  BY <1>1, <1>2 DEF Next, Worker, TakeKey, vars, workVars

LEMMA SolrChanges ==
    ASSUME Parts, ~Disrupt("drift"), [Next]_vars
    PROVE  UNCHANGED solrVars \/ Makes \/ Retires
<1>1. CASE PassStep
  <2>1. CASE Checks \/ GetSecret \/ CreateSecret \/ UpdateSecret
    BY <2>1, CheckExistenceEffect, CheckPasswordEffect, CheckRolesEffect,
       GetRolesEffect, GetSecretEffect, CreateSecretEffect,
       UpdateSecretEffect DEF Checks
  <2>2. CASE UserWrites
    BY <2>2, AddFinalizerEffect, InitStatusEffect, LastStatusEffect,
       RemoveFinalizerEffect DEF UserWrites, UserWriteFrame
  <2> QED
    BY <1>1, <2>1, <2>2, StepsByEffect
<1>2. CASE Crash \/ \E u \in Users : Begin(u)
  BY <1>2 DEF Crash, Begin
<1> QED
  BY <1>1, <1>2, WorkerChanges DEF SolrDrift

LEMMA SecretChanges ==
    ASSUME Parts, [Next]_vars
    PROVE  \/ UNCHANGED secret
           \/ CreateSecret \/ UpdateSecret
           \/ \E s \in Secrets : \/ RotatePassword(s) \/ StripSecret(s)
                                 \/ DropSecret(s) \/ BringSecret(s)
<1>1. CASE PassStep
  <2>1. CASE Checks \/ Makes \/ Retires \/ GetSecret
    BY <2>1, CheckExistenceEffect, CheckPasswordEffect, CheckRolesEffect,
       GetRolesEffect, EnsureUserEffect, UpsertRolesEffect,
       RevokeRolesEffect, RevokeUserEffect, GetSecretEffect
       DEF Checks, Makes, Retires, kubernetesVars
  <2>2. CASE UserWrites
    BY <2>2, AddFinalizerEffect, InitStatusEffect, LastStatusEffect,
       RemoveFinalizerEffect DEF UserWrites, UserWriteFrame
  <2> QED
    BY <1>1, <2>1, <2>2, StepsByEffect
<1>2. CASE TakeKey \/ Crash \/ UNCHANGED vars
  BY <1>2 DEF TakeKey, ObjectGone, NoClient, Begin, Crash, Relist, vars,
              apiVars, secretVars
<1>3. CASE Environment
  BY <1>3 DEF Environment, UserEdits, Informers, Apply, RequestDelete,
              DropForeign, EditUser, CloudChange, Deliver, Resync, SyncSecret,
              DeliverSecretEvent, SyncCloud, DeliverCloudEvent, apiVars,
              secretVars
<1> QED
  BY <1>1, <1>2, <1>3 DEF Next, Worker

LEMMA UserChanges ==
    ASSUME Parts, [Next]_vars
    PROVE  \/ UNCHANGED user
           \/ UserWrites
           \/ \E u \in Users : Apply(u) \/ RequestDelete(u) \/ DropForeign(u)
<1>1. CASE PassStep /\ ~UserWrites
  BY <1>1, StepsByEffect, CheckExistenceEffect, CheckPasswordEffect,
     CheckRolesEffect, GetRolesEffect, EnsureUserEffect, UpsertRolesEffect,
     RevokeRolesEffect, RevokeUserEffect, GetSecretEffect,
     CreateSecretEffect, UpdateSecretEffect
     DEF Checks, Makes, Retires, kubernetesVars
<1>2. CASE TakeKey \/ Crash \/ UNCHANGED vars
  BY <1>2 DEF TakeKey, ObjectGone, NoClient, Begin, Crash, Relist, vars,
              apiVars, userVars
<1>3. CASE Environment
  BY <1>3 DEF Environment, UserEdits, Informers, RotatePassword, StripSecret,
              DropSecret, BringSecret, EditSecret, CloudChange, Deliver,
              Resync, SyncSecret, DeliverSecretEvent, SyncCloud,
              DeliverCloudEvent, apiVars, userVars
<1> QED
  BY <1>1, <1>2, <1>3 DEF Next, Worker

(* What a pass begins with.                                                *)
LEMMA BeginEffect ==
    ASSUME NEW u \in Users, Begin(u)
    PROVE  /\ pc = "idle" /\ userCache[u] # NONE
           /\ pc' = Route(userCache[u])
           /\ w'.key = u /\ w'.ensure = Ensures(userCache[u])
           /\ w'.status = userCache[u].status /\ w'.secret = NONE
           /\ userHeld' = {u} \ userLag
           /\ UNCHANGED <<solrVars, user, userCache, userLag, secretVars>>
<1>1. /\ pc = "idle" /\ userCache[u] # NONE
      /\ pc' = Route(userCache[u])
      /\ userHeld' = {u} \ userLag
      /\ UNCHANGED <<solrVars, user, userCache, userLag, secretVars>>
      /\ w' = [NoWork EXCEPT !.key = u,
                             !.ensure = Ensures(userCache[u]),
                             !.status = userCache[u].status,
                             !.endpoint = cloudCache]
  BY DEF Begin
<1>2. /\ w'.key = u /\ w'.ensure = Ensures(userCache[u])
      /\ w'.status = userCache[u].status /\ w'.secret = NONE
  BY <1>1 DEF NoWork
<1> QED
  BY <1>1, <1>2

(* Without anybody who brings secrets, an edit of one leaves its name or   *)
(* takes it away.                                                          *)
LEMMA EditedName ==
    ASSUME Parts, NEW s \in Secrets, ~Disrupt("bring"),
           RotatePassword(s) \/ StripSecret(s) \/ DropSecret(s) \/ BringSecret(s)
    PROVE  /\ UNCHANGED <<solrVars, userVars, secretCache>>
           /\ \A u \in Users : Published(u)' \in {NONE, Published(u)}
<1>1. UNCHANGED <<solrVars, userVars, secretCache>>
  BY EditSecretEffect
<1>2. secret[s] # NONE
  BY DEF RotatePassword, StripSecret, DropSecret, BringSecret
<1>3. secret[s] \in SecretObj
  BY <1>2 DEF Parts, SecretStored
<1>4. PICK obj : /\ secret' = [secret EXCEPT ![s] = obj]
                 /\ \/ obj = NONE
                    \/ obj.username \in {NONE, secret[s].username}
  <2>1. CASE RotatePassword(s)
    <3>1. PICK p : EditSecret(s, [secret[s] EXCEPT !.password = p])
      BY <2>1 DEF RotatePassword
    <3>2. [secret[s] EXCEPT !.password = p].username = secret[s].username
      BY <1>3 DEF SecretObj
    <3> QED
      BY <3>1, <3>2 DEF EditSecret, PutSecret
  <2>2. CASE StripSecret(s)
    <3>1. PICK key \in {"username", "password"} :
            EditSecret(s, [secret[s] EXCEPT ![key] = NONE])
      BY <2>2 DEF StripSecret
    <3>2. [secret[s] EXCEPT ![key] = NONE].username
            \in {NONE, secret[s].username}
      BY <1>3, <3>1 DEF SecretObj
    <3> QED
      BY <3>1, <3>2 DEF EditSecret, PutSecret
  <2>3. CASE DropSecret(s)
    BY <2>3 DEF DropSecret, EditSecret, PutSecret
  <2> QED
    BY <2>1, <2>2, <2>3 DEF BringSecret
<1>5. \A u \in Users : SecretOf[u] \in Secrets
  BY UserApiAssumption
<1>6. \A r \in Secrets : secret'[r] = IF r = s THEN obj ELSE secret[r]
  BY <1>4 DEF Parts, SecretStored
<1> QED
  BY <1>1, <1>2, <1>4, <1>5, <1>6 DEF Published, SecretFor

-----------------------------------------------------------------------------
(***************************************************************************)
(* Retirement.  RolesInv and RetirementInv are preserved by every step     *)
(* that is none of four disruptions: a read of a secret the cache is       *)
(* behind with, a POST that Solr refuses, an edit of Solr by somebody      *)
(* else, a secret put where there was none.                                *)
(***************************************************************************)
Undisturbed ==
    \A kind \in {"stale", "solrRefuse", "drift", "bring"} : ~Disrupt(kind)

LEMMA SolrAnswers ==
    ASSUME Undisturbed, NEW o, Post(o), ~Failed(o)
    PROVE  Applied(o)
BY DEF Undisturbed, Post, Failed, Applied

LEMMA NextRoles ==
    ASSUME Parts, RolesInv, Undisturbed, [Next]_vars
    PROVE  RolesInv'
<1>1. CASE UpsertRoles \/ RevokeRoles
  <2>1. \/ UNCHANGED roles
        \/ \E r : /\ roles' = [roles EXCEPT ![Username] = r]
                  /\ r = {} \/ DefaultRoles \subseteq r
    BY <1>1, UpsertRolesEffect, RevokeRolesEffect
  <2> QED
    BY <2>1 DEF RolesInv, Privileged, Parts, SolrTypeOK
<1>2. CASE ~(UpsertRoles \/ RevokeRoles)
  <2>1. UNCHANGED solrVars \/ Makes \/ Retires
    BY SolrChanges DEF Undisturbed
  <2>2. UNCHANGED roles
    BY <1>2, <2>1, EnsureUserEffect, RevokeUserEffect
       DEF Makes, Retires, solrVars
  <2> QED
    BY <2>2 DEF RolesInv, Privileged
<1> QED
  BY <1>1, <1>2

(* RetirementInv by its parts.                                             *)
Retiring == ~w.ensure /\ pc \notin {"idle", "getSecret"}

KnowsName ==
    Published(w.key) # NONE =>
      w.secret # NONE /\ w.secret.username = Published(w.key)

SoFarRetired ==
    /\ (/\ pc \in {"checkUser", "hasRoles", "deleteRoles"}
        /\ ~IsTrue(w.status.Exists)) => NoAccount(Username)
    /\ pc = "deleteUser" => NoRoles(Username)
    /\ pc = "removeFinalizer" => NoRoles(Username) /\ NoAccount(Username)

LEMMA RetirementParts ==
    /\ RetirementInv <=> (Retiring => KnowsName /\ SoFarRetired)
    /\ RetirementInv' <=> (Retiring' => KnowsName' /\ SoFarRetired')
BY DEF RetirementInv, Retiring, KnowsName, SoFarRetired

LEMMA KnowsNameKept ==
    ASSUME KnowsName, UNCHANGED secret, NEW label, NEW st, GoesOnTo(label, st)
    PROVE  KnowsName'
BY DEF KnowsName, Published, SecretFor, GoesOnTo

LEMMA ChecksRetire ==
    ASSUME Parts, RolesInv, RetirementInv, Undisturbed, Checks, ~w.ensure
    PROVE  RetirementInv'
<1>1. pc \notin {"idle", "getSecret"} /\ UNCHANGED <<solrVars, kubernetesVars>>
  BY CheckExistenceEffect, CheckPasswordEffect, CheckRolesEffect,
     GetRolesEffect DEF Checks
<1>2. KnowsName /\ SoFarRetired /\ UNCHANGED <<account, roles, secret>>
  BY <1>1, RetirementParts DEF Retiring, solrVars, kubernetesVars
<1>3. CASE \E st : FailsWith(st)
  <2>1. pc' = "idle"
    BY <1>3 DEF FailsWith, Ends
  <2> QED
    BY <2>1, RetirementParts DEF Retiring
<1>4. ASSUME NEW label, NEW st, GoesOnTo(label, st), SameName(st)
      PROVE  /\ KnowsName'
             /\ pc' = label /\ w'.status = st
             /\ NoAccount(Username)' <=> NoAccount(Username)
             /\ NoRoles(Username)' <=> NoRoles(Username)
  <2>1. KnowsName' /\ Username' = Username
    BY <1>2, <1>4, KnowsNameKept, GoesOnKeepsName
  <2> QED
    BY <1>2, <1>4, <2>1 DEF GoesOnTo, NoAccount, NoRoles
<1>5. CASE CheckExistence
  <2>1. CASE \E st \in Status : /\ GoesOnTo("checkUser", st) /\ SameName(st)
                                /\ st.Exists = "UserInConfig"
    BY <1>4, <2>1, RetirementParts DEF SoFarRetired, IsTrue, TrueReasons
  <2>2. CASE /\ ~CheckUserExistence(Username)
             /\ \E st \in Status : GoesOnTo("hasRoles", st) /\ SameName(st)
    <3>1. NoAccount(Username)
      BY <2>2 DEF CheckUserExistence, NoAccount
    <3> QED
      BY <1>4, <2>2, <3>1, RetirementParts DEF SoFarRetired
  <2> QED
    BY <1>3, <1>5, <2>1, <2>2, CheckExistenceEffect
<1>6. CASE CheckPassword
  <2>1. pc = "checkUser"
    BY <1>6, CheckPasswordEffect
  <2>2. CASE \E st \in Status : /\ GoesOnTo("hasRoles", st) /\ SameName(st)
                                /\ st.Exists = w.status.Exists
    BY <1>2, <1>4, <2>1, <2>2, RetirementParts DEF SoFarRetired
  <2> QED
    BY <1>3, <1>6, <2>2, CheckPasswordEffect
<1>7. CASE CheckRoles
  <2>1. pc = "hasRoles"
    BY <1>7, CheckRolesEffect
  <2>2. CASE \E st \in Status : /\ SameName(st)
                                /\ st.Exists = w.status.Exists
                                /\ IsTrue(st.HasRoles) <=> HasRoles(Username)
                                /\ Revokes(st)
    <3>1. PICK st \in Status : /\ SameName(st)
                               /\ st.Exists = w.status.Exists
                               /\ IsTrue(st.HasRoles) <=> HasRoles(Username)
                               /\ Revokes(st)
      BY <2>2
    <3>2. ~IsTrue(st.Exists) => NoAccount(Username)
      BY <1>2, <2>1, <3>1 DEF SoFarRetired
    <3>3. CASE GoesOnTo("deleteRoles", st)
      BY <1>4, <3>1, <3>2, <3>3, RetirementParts DEF SoFarRetired
    <3>4. CASE ~IsTrue(st.HasRoles) /\ GoesOnTo(AfterRevoke(st), st)
      <4>1. NoRoles(Username)
        BY <3>1, <3>4 DEF HasRoles, RolesInv, Privileged, NoRoles
      <4> QED
        BY <1>4, <3>1, <3>2, <3>4, <4>1, RetirementParts
           DEF SoFarRetired, AfterRevoke
    <3> QED
      BY <3>1, <3>3, <3>4 DEF Revokes
  <2> QED
    BY <1>3, <1>7, <2>2, CheckRolesEffect
<1>8. CASE GetRoles
  BY <1>8, GetRolesEffect DEF Parts, WorkerInv, PassConsistent, EnsureLabels
<1> QED
  BY <1>5, <1>6, <1>7, <1>8 DEF Checks

LEMMA RetiresRetire ==
    ASSUME Parts, RetirementInv, Undisturbed, Retires
    PROVE  RetirementInv'
<1>1. pc \notin {"idle", "getSecret"} /\ ~w.ensure /\ UNCHANGED secret
  BY RevokeRolesEffect, RevokeUserEffect DEF Retires, kubernetesVars
<1>2. KnowsName /\ SoFarRetired
  BY <1>1, RetirementParts DEF Retiring
<1>3. CASE Ends
  BY <1>3, RetirementParts DEF Retiring, Ends
<1>4. SameName(w.status)
  BY <1>1 DEF Parts, WorkerInv, Work, SameName
<1>5. ASSUME NEW label, GoesOnTo(label, w.status)
      PROVE  /\ KnowsName' /\ Username' = Username
             /\ pc' = label /\ w'.status = w.status
  BY <1>1, <1>2, <1>4, <1>5, KnowsNameKept, GoesOnKeepsName DEF GoesOnTo
<1>6. CASE RevokeRoles
  <2>1. PICK o \in Outcomes :
          /\ pc = "deleteRoles" /\ UNCHANGED account
          /\ Post(o)
          /\ roles' = IF Applied(o) THEN [roles EXCEPT ![Username] = {}]
                      ELSE roles
          /\ Failed(o) => Ends
          /\ ~Failed(o) => GoesOnTo(AfterRevoke(w.status), w.status)
    BY <1>6, RevokeRolesEffect
  <2>2. CASE ~Failed(o)
    <3>1. roles' = [roles EXCEPT ![Username] = {}]
      BY <2>1, <2>2, SolrAnswers
    <3>2. NoRoles(Username)'
      BY <1>5, <2>1, <2>2, <3>1 DEF NoRoles, Parts, SolrTypeOK
    <3>3. ~IsTrue(w.status.Exists) => NoAccount(Username)'
      BY <1>2, <1>5, <2>1, <2>2 DEF SoFarRetired, NoAccount
    <3> QED
      BY <1>5, <2>1, <2>2, <3>2, <3>3, RetirementParts
         DEF SoFarRetired, AfterRevoke
  <2> QED
    BY <1>3, <2>1, <2>2
<1>7. CASE RevokeUser
  <2>1. PICK o \in Outcomes :
          /\ pc = "deleteUser" /\ UNCHANGED roles
          /\ Post(o)
          /\ account' = IF Applied(o) THEN [account EXCEPT ![Username] = NONE]
                        ELSE account
          /\ Failed(o) => Ends
          /\ ~Failed(o) => GoesOnTo("removeFinalizer", w.status)
    BY <1>7, RevokeUserEffect
  <2>2. CASE ~Failed(o)
    <3>1. account' = [account EXCEPT ![Username] = NONE]
      BY <2>1, <2>2, SolrAnswers
    <3>2. NoAccount(Username)'
      BY <1>5, <2>1, <2>2, <3>1 DEF NoAccount, Parts, SolrTypeOK
    <3>3. NoRoles(Username)'
      BY <1>2, <1>5, <2>1, <2>2 DEF SoFarRetired, NoRoles
    <3> QED
      BY <1>5, <2>1, <2>2, <3>2, <3>3, RetirementParts DEF SoFarRetired
  <2> QED
    BY <1>3, <2>1, <2>2
<1> QED
  BY <1>6, <1>7 DEF Retires

LEMMA GetSecretRetires ==
    ASSUME Parts, Undisturbed, GetSecret
    PROVE  RetirementInv'
<1>1. /\ pc = "getSecret" /\ S \in Secrets /\ w.secret = NONE
      /\ UNCHANGED secret
      /\ S \notin secretLag
      /\ \/ secretCache[S] # NONE /\ Fills(secretCache[S])
         \/ /\ secretCache[S] = NONE
            /\ \E st : GoesOnTo(IF w.ensure THEN "createSecret"
                                ELSE "checkExistence", st)
  BY GetSecretEffect DEF Undisturbed
<1>2. secretCache[S] = secret[S]
  BY <1>1 DEF Parts, SecretStored
<1>3. /\ w'.key = w.key /\ w'.ensure = w.ensure
      /\ ~w.ensure => pc' = "checkExistence"
  BY <1>1 DEF Fills, GoesOnTo
<1>4. Published(w.key)' = Published(w.key)
  BY <1>1, <1>3 DEF Published, SecretFor
<1>5. KnowsName'
  BY <1>1, <1>2, <1>3, <1>4 DEF KnowsName, Fills, Published, SecretFor, S
<1>6. ~w.ensure => SoFarRetired'
  BY <1>3 DEF SoFarRetired
<1> QED
  BY <1>3, <1>5, <1>6, RetirementParts DEF Retiring

LEMMA NextRetirement ==
    ASSUME Parts, RolesInv, RetirementInv, Undisturbed, [Next]_vars
    PROVE  RetirementInv'
<1>1. CASE PassStep /\ w.ensure
  <2>1. w'.ensure \/ pc' = "idle"
    BY <1>1, PassKeepsKind
  <2> QED
    BY <2>1, RetirementParts DEF Retiring
<1>2. CASE PassStep /\ ~w.ensure
  <2>1. CASE Makes \/ CreateSecret \/ UpdateSecret \/ AddFinalizer
             \/ InitStatus \/ OkStatus \/ FailStatus
    <3>1. pc \in EnsureLabels
      BY <2>1, EnsureUserEffect, UpsertRolesEffect, CreateSecretEffect,
         UpdateSecretEffect, AddFinalizerEffect, InitStatusEffect,
         LastStatusEffect DEF Makes, EnsureLabels
    <3> QED
      BY <1>2, <3>1 DEF Parts, WorkerInv, PassConsistent
  <2>2. CASE RemoveFinalizer
    BY <2>2, RemoveFinalizerEffect, RetirementParts DEF Ends, Retiring
  <2> QED
    BY <1>2, <2>1, <2>2, ChecksRetire, RetiresRetire, GetSecretRetires,
       StepsByEffect DEF UserWrites
<1>3. CASE \E u \in Users : Begin(u)
  <2>1. PICK u \in Users : Begin(u)
    BY <1>3
  <2>2. /\ pc' = Route(userCache[u])
        /\ w'.ensure = Ensures(userCache[u])
    BY <2>1 DEF Begin, NoWork
  <2>3. pc' = "getSecret" \/ w'.ensure
    BY <2>2 DEF Route, Ensures
  <2> QED
    BY <2>3, RetirementParts DEF Retiring
<1>4. CASE (\E u \in Users : ObjectGone(u) \/ NoClient(u)) \/ UNCHANGED vars
  <2>1. UNCHANGED <<account, roles, secret, pc, w>>
    BY <1>4 DEF ObjectGone, NoClient, vars, apiVars, secretVars, workVars,
                solrVars
  <2> QED
    BY <2>1 DEF RetirementInv, Published, SecretFor, NoAccount, NoRoles,
                Username
<1>5. CASE Environment
  <2>1. UNCHANGED <<pc, w>>
    BY <1>5 DEF Environment, workVars
  <2>2. UNCHANGED solrVars /\ (w.key \in Users => Published(w.key)' \in
                                               {NONE, Published(w.key)})
    <3>1. CASE \E s \in Secrets : \/ RotatePassword(s) \/ StripSecret(s)
                                  \/ DropSecret(s) \/ BringSecret(s)
      <4>1. /\ UNCHANGED solrVars
            /\ \A u \in Users : Published(u)' \in {NONE, Published(u)}
        BY <3>1, EditedName DEF Undisturbed
      <4> QED
        BY <2>1, <4>1 DEF Published, SecretFor
    <3>2. CASE ~(\E s \in Secrets : \/ RotatePassword(s) \/ StripSecret(s)
                                    \/ DropSecret(s) \/ BringSecret(s))
      <4>1. ~SolrDrift
        BY DEF Undisturbed, SolrDrift
      <4>2. UNCHANGED <<solrVars, secret>>
        BY <1>5, <3>2, <4>1
           DEF Environment, UserEdits, Informers, Apply, RequestDelete,
               DropForeign, EditUser, CloudChange, Deliver, Resync, SyncSecret,
               DeliverSecretEvent, SyncCloud, DeliverCloudEvent, secretVars
      <4> QED
        BY <2>1, <4>2 DEF Published, SecretFor
    <3> QED
      BY <3>1, <3>2
  <2>3. pc # "idle" => w.key \in Users
    BY DEF Parts, WorkerInv, PassConsistent
  <2>4. SoFarRetired => SoFarRetired'
    BY <2>1, <2>2 DEF SoFarRetired, NoAccount, NoRoles, Username, solrVars
  <2>5. Retiring /\ KnowsName => KnowsName'
    BY <2>1, <2>2, <2>3 DEF KnowsName, Retiring
  <2>6. Retiring' <=> Retiring
    BY <2>1 DEF Retiring
  <2> QED
    BY <2>4, <2>5, <2>6, RetirementParts
<1>6. CASE Crash
  BY <1>6, RetirementParts DEF Crash, Retiring
<1> QED
  BY <1>1, <1>2, <1>3, <1>4, <1>5, <1>6 DEF Next, Worker, TakeKey

(* Only a deleting pass takes the finalizer off, and only its User's.      *)
LEMMA FinalizerComesOff ==
    ASSUME Parts, [Next]_vars, NEW u \in Users,
           HasFinalizer(user[u]), ~HasFinalizer(user'[u])
    PROVE  pc = "removeFinalizer" /\ u = w.key /\ ~w.ensure
<1>1. user[u] \in UserObj /\ user[u].finalizer
  BY DEF HasFinalizer, Parts, UserStored
<1>2. CASE UNCHANGED user
  BY <1>2
<1>3. CASE RemoveFinalizer
  <2>1. pc = "removeFinalizer" /\ pc # "idle" /\ FinalizerIs(FALSE)
    BY <1>3, RemoveFinalizerEffect
  <2>2. u = w.key
    BY <2>1 DEF FinalizerIs, Parts, UserStored
  <2> QED
    BY <2>1, <2>2 DEF Parts, WorkerInv, PassConsistent, DeleteLabels
<1>4. CASE InitStatus \/ OkStatus \/ FailStatus
  <2>1. pc # "idle" /\ \E st \in Status : StatusIs(st)
    BY <1>4, InitStatusEffect, LastStatusEffect
  <2>2. w.key \in userHeld => user[w.key] \in UserObj
    BY <2>1, HeldUser
  <2>3. PICK st \in Status : StatusIs(st)
    BY <2>1
  <2>4. CASE w.key = u /\ user' = [user EXCEPT ![u] = [user[u] EXCEPT !.status = st]]
    <3>1. user'[u] = [user[u] EXCEPT !.status = st]
      BY <2>4 DEF Parts, UserStored
    <3>2. user'[u] \in UserObj /\ user'[u].finalizer
      BY <1>1, <3>1 DEF UserObj
    <3> QED
      BY <3>2, ObjectAssumption DEF HasFinalizer
  <2> QED
    BY <2>3, <2>4 DEF StatusIs, Parts, UserStored
<1>5. CASE AddFinalizer
  <2>1. pc # "idle" /\ FinalizerIs(TRUE)
    BY <1>5, AddFinalizerEffect
  <2>2. CASE w.key = u /\ user' = [user EXCEPT ![u] =
                                    Reaped([user[u] EXCEPT !.finalizer = TRUE])]
    <3> DEFINE obj == [user[u] EXCEPT !.finalizer = TRUE]
    <3>1. obj \in UserObj /\ obj.finalizer
      BY <1>1 DEF UserObj
    <3>2. user'[u] = Reaped(obj)
      BY <2>2 DEF Parts, UserStored
    <3> HIDE DEF obj
    <3>3. user'[u] = obj
      BY <3>1, <3>2 DEF Reaped
    <3> QED
      BY <3>1, <3>3, ObjectAssumption DEF HasFinalizer
  <2> QED
    BY <2>1, <2>2 DEF FinalizerIs, Parts, UserStored
<1>6. CASE \E v \in Users : Apply(v) \/ RequestDelete(v) \/ DropForeign(v)
  <2>1. PICK v \in Users : Apply(v) \/ RequestDelete(v) \/ DropForeign(v)
    BY <1>6
  <2>2. CASE v # u
    BY <2>1, <2>2 DEF Apply, RequestDelete, DropForeign, EditUser, PutUser,
                      Parts, UserStored
  <2>3. CASE v = u
    <3> DEFINE del == [user[u] EXCEPT !.deleting = TRUE]
               drop == [user[u] EXCEPT !.foreign = FALSE]
    <3>1. user' = [user EXCEPT ![u] = Reaped(del)]
          \/ user' = [user EXCEPT ![u] = Reaped(drop)]
      BY <2>1, <2>3 DEF Apply, RequestDelete, DropForeign, EditUser, PutUser,
                        HasFinalizer
    <3>2. /\ del \in UserObj /\ del.finalizer
          /\ drop \in UserObj /\ drop.finalizer
      BY <1>1 DEF UserObj
    <3> HIDE DEF del, drop
    <3>3. user'[u] = Reaped(del) \/ user'[u] = Reaped(drop)
      BY <3>1 DEF Parts, UserStored
    <3>4. user'[u] = del \/ user'[u] = drop
      BY <3>2, <3>3 DEF Reaped
    <3> QED
      BY <3>2, <3>4, ObjectAssumption DEF HasFinalizer
  <2> QED
    BY <2>2, <2>3
<1> QED
  BY <1>2, <1>3, <1>4, <1>5, <1>6, UserChanges DEF UserWrites

RetiredStep ==
    \A u \in Users :
      (HasFinalizer(user[u]) /\ ~HasFinalizer(user'[u]) /\ Published(u) # NONE)
        => account[Published(u)] = NONE /\ roles[Published(u)] = {}

LEMMA NextRetired ==
    ASSUME Parts, RetirementInv, [Next]_vars
    PROVE  RetiredStep
<1> SUFFICES ASSUME NEW u \in Users,
                    HasFinalizer(user[u]), ~HasFinalizer(user'[u]),
                    Published(u) # NONE
             PROVE  account[Published(u)] = NONE /\ roles[Published(u)] = {}
  BY DEF RetiredStep
<1>1. pc = "removeFinalizer" /\ u = w.key /\ ~w.ensure
  BY FinalizerComesOff
<1>2. KnowsName /\ SoFarRetired
  BY <1>1, RetirementParts DEF Retiring
<1>3. Username = Published(u)
  BY <1>1, <1>2 DEF KnowsName, Username
<1>4. Published(u) \in Names
  BY UserApiAssumption DEF Published, SecretFor, Parts, SecretStored, SecretObj
<1> QED
  BY <1>1, <1>2, <1>3, <1>4 DEF SoFarRetired, NoRoles, NoAccount

LEMMA InitRetirement ==
    ASSUME Init
    PROVE  RolesInv /\ RetirementInv
BY DEF Init, SolrInit, RolesInv, RetirementInv

(***************************************************************************)
(* Spec => FinalizerRemovalRetiresPublished, when Solr refuses no request  *)
(* and nobody else edits it, and when the secret a deleting pass reads is  *)
(* the stored one.  Requests that fail or are applied in spite of an       *)
(* error, crashes, edits and losses of secrets, Users that share one,      *)
(* other finalizers and stale Users are all admitted.                      *)
(***************************************************************************)
THEOREM PublishedAreRetired ==
    ASSUME Excluded({"stale", "solrRefuse", "drift", "bring"})
    PROVE  Spec => FinalizerRemovalRetiresPublished
<1>1. Undisturbed
  BY ExcludedNeverHappens DEF Undisturbed
<1>2. Init => Parts /\ RolesInv /\ RetirementInv
  BY InitParts, InitRetirement
<1>3. Parts /\ RolesInv /\ RetirementInv /\ [Next]_vars
        => Parts' /\ RolesInv' /\ RetirementInv'
  BY <1>1, NextParts, NextRoles, NextRetirement
<1>4. Parts /\ RetirementInv /\ [Next]_vars => [RetiredStep]_vars
  BY NextRetired
<1> QED
  BY <1>2, <1>3, <1>4, PTL
     DEF Spec, FinalizerRemovalRetiresPublished, RetiredStep


-----------------------------------------------------------------------------
(***************************************************************************)
(* Progress.  ProgressInv says what an ensuring pass knows of Solr at each *)
(* of its steps; nobody else edits Solr and Solr refuses no request, so    *)
(* that what it knows stays true.                                          *)
(***************************************************************************)
SolrObeys == ~Disrupt("drift") /\ ~Disrupt("solrRefuse")

LEMMA ObeyingSolrAnswers ==
    ASSUME SolrObeys, NEW o, Post(o), ~Failed(o)
    PROVE  Applied(o)
BY DEF SolrObeys, Post, Failed, Applied

LEMMA FillsPassword ==
    ASSUME Parts, Filled, [Next]_vars
    PROVE  Filled'
<1>1. CASE PassStep
  <2>1. CASE Ends
    BY <2>1 DEF Ends, NoWork, Filled
  <2>2. CASE \E label, st : GoesOnTo(label, st)
    BY <2>2 DEF GoesOnTo, Filled
  <2>3. CASE \E sec : Fills(sec)
    BY <2>3, SolrAssumption DEF Fills, Filled
  <2> QED
    BY <1>1, <2>1, <2>2, <2>3, PassShapes DEF FailsWith
<1>2. CASE Crash \/ \E u \in Users : Begin(u)
  <2>1. w'.secret = NONE
    BY <1>2, BeginEffect DEF Crash, NoWork
  <2> QED
    BY <2>1 DEF Filled
<1> QED
  BY <1>1, <1>2, WorkerChanges DEF Filled

(* Progress by its parts.                                                  *)
Found == IsTrue(w.status.Exists) /\ IsTrue(w.status.PasswordUpToDate)

SoFarProvided ==
    /\ pc = "hasRoles" /\ Found => Login(Username, Password)
    /\ pc \in {"createUser", "updateUser"} /\ IsTrue(w.status.HasRoles) =>
         Privileged(Username)
    /\ pc \in Provided => /\ Login(Username, Password)
                          /\ w.status.username = Username
    /\ pc \in {"updateSecret", "okStatus"} => Privileged(Username)

LEMMA ProgressParts ==
    /\ Progress <=> (w.ensure => SoFarProvided)
    /\ Progress' <=> (w'.ensure => SoFarProvided')
BY DEF Progress, SoFarProvided, Found

(* A pass that has a secret works with its name and password.              *)
LEMMA GoesOnKeepsSecret ==
    ASSUME w.secret # NONE, NEW label, NEW st, GoesOnTo(label, st)
    PROVE  /\ pc' = label /\ w'.status = st
           /\ Username' = Username /\ Password' = Password
           /\ Username = w.secret.username /\ Password = w.secret.password
BY DEF GoesOnTo, Username, Password

(* Where a pass that has given up stands, nothing is claimed.              *)
LEMMA FailsProvided ==
    ASSUME NEW st, FailsWith(st)
    PROVE  SoFarProvided'
BY DEF FailsWith, GoesOnTo, Ends, SoFarProvided, Provided

LEMMA ChecksProgress ==
    ASSUME Parts, Progress, Checks, w.ensure
    PROVE  SoFarProvided'
<1>1. /\ pc \in Observing \cup {"getRoles"} /\ UNCHANGED solrVars
  BY CheckExistenceEffect, CheckPasswordEffect, CheckRolesEffect,
     GetRolesEffect DEF Checks, Observing
<1>2. /\ SoFarProvided /\ w.secret # NONE /\ w.secret.username # NONE
      /\ w.secret \in SecretObj /\ w.status \in Status
  BY <1>1, ProgressParts
     DEF Parts, WorkerInv, PassConsistent, Observing, HadSecret, Work
<1>3. ASSUME NEW label, NEW st, GoesOnTo(label, st)
      PROVE  /\ pc' = label /\ w'.status = st /\ Username' = Username
             /\ Login(Username, Password)' <=> Login(Username, Password)
             /\ Privileged(Username)' <=> Privileged(Username)
  BY <1>1, <1>2, <1>3, GoesOnKeepsSecret DEF solrVars, Login, Privileged
<1>4. CASE CheckExistence
  <2>1. CASE \E st \in Status : GoesOnTo("checkUser", st)
    BY <1>3, <2>1 DEF SoFarProvided, Provided
  <2>2. CASE \E st \in Status : /\ GoesOnTo("hasRoles", st)
                                /\ st.Exists = "UserNotInConfig"
    BY <1>3, <2>2
       DEF SoFarProvided, Provided, Found, IsTrue, TrueReasons
  <2> QED
    BY <1>4, <2>1, <2>2, CheckExistenceEffect, FailsProvided
<1>5. CASE CheckPassword
  <2>1. CASE \E st \in Status : /\ GoesOnTo("hasRoles", st)
                                /\ IsTrue(st.PasswordUpToDate)
                                     <=> CheckUser(Username, Password)
    <3>1. CheckUser(Username, Password) => Login(Username, Password)
      BY DEF CheckUser, CheckUserExistence, Login, Parts, SolrTypeOK
    <3> QED
      BY <1>3, <2>1, <3>1 DEF SoFarProvided, Provided, Found
  <2> QED
    BY <1>5, <2>1, CheckPasswordEffect, FailsProvided
<1>6. CASE CheckRoles
  <2>1. pc = "hasRoles"
    BY <1>6, CheckRolesEffect
  <2>2. CASE \E st \in Status :
               /\ st.Exists = w.status.Exists
               /\ st.PasswordUpToDate = w.status.PasswordUpToDate
               /\ IsTrue(st.HasRoles) <=> HasRoles(Username)
               /\ Provides(st)
    <3>1. PICK st \in Status :
               /\ st.Exists = w.status.Exists
               /\ st.PasswordUpToDate = w.status.PasswordUpToDate
               /\ IsTrue(st.HasRoles) <=> HasRoles(Username)
               /\ Provides(st)
      BY <2>2
    <3>2. IsTrue(st.HasRoles) <=> Privileged(Username)
      BY <3>1 DEF HasRoles, Privileged
    <3>3. CASE GoesOnTo("createUser", st) \/ GoesOnTo("updateUser", st)
      BY <1>3, <3>2, <3>3 DEF SoFarProvided, Provided
    <3>4. CASE /\ IsTrue(st.Exists) /\ IsTrue(st.PasswordUpToDate)
               /\ GoesOnTo(AfterUser(st), Noted(st))
      <4>1. Login(Username, Password)
        BY <1>2, <2>1, <3>1, <3>4 DEF SoFarProvided, Found
      <4>2. Noted(st).username = Username
        BY DEF Noted, Status
      <4>3. \/ AfterUser(st) = "getRoles"
            \/ AfterUser(st) \in {"updateSecret", "okStatus"}
               /\ IsTrue(st.HasRoles)
        BY DEF AfterUser, AfterRoles
      <4> QED
        BY <1>3, <3>2, <3>4, <4>1, <4>2, <4>3 DEF SoFarProvided, Provided
    <3> QED
      BY <3>1, <3>3, <3>4 DEF Provides
  <2> QED
    BY <1>6, <2>2, CheckRolesEffect, FailsProvided
<1>7. CASE GetRoles
  <2>1. pc = "getRoles"
    BY <1>7, GetRolesEffect
  <2>2. CASE GoesOnTo("upsertRoles", w.status)
    BY <1>2, <1>3, <2>1, <2>2 DEF SoFarProvided, Provided
  <2> QED
    BY <1>7, <2>2, GetRolesEffect, FailsProvided
<1> QED
  BY <1>4, <1>5, <1>6, <1>7 DEF Checks

LEMMA MakesProgress ==
    ASSUME Parts, ProgressInv, SolrObeys, Makes
    PROVE  SoFarProvided'
<1>1. /\ pc \in HadSecret /\ w.ensure /\ w.secret # NONE
      /\ w.secret \in SecretObj /\ Username \in Names
      /\ Password \in Passwords
  <2>1. pc \in HadSecret
    BY EnsureUserEffect, UpsertRolesEffect DEF Makes, HadSecret
  <2>2. Password # NONE
    BY <2>1, EnsuringPass DEF ProgressInv, Filled
  <2> QED
    BY <2>1, <2>2, EnsuringPass DEF SecretObj
<1>2. SoFarProvided
  BY <1>1, ProgressParts DEF ProgressInv
<1>3. ASSUME NEW label, NEW st, GoesOnTo(label, st)
      PROVE  /\ pc' = label /\ w'.status = st
             /\ Username' = Username /\ Password' = Password
  BY <1>1, <1>3, GoesOnKeepsSecret
<1>4. CASE EnsureUser \/ UpdatePassword
  <2>1. PICK o \in Outcomes :
          /\ pc \in {"createUser", "updateUser"} /\ UNCHANGED roles
          /\ Post(o)
          /\ account' = IF Applied(o) THEN [account EXCEPT ![Username] = Password]
                        ELSE account
          /\ Failed(o) => \E st \in Status : FailsWith(st) /\ SameName(st)
          /\ ~Failed(o) =>
               \E st \in Status : /\ st.username = Username
                                  /\ st.HasRoles = w.status.HasRoles
                                  /\ GoesOnTo(AfterUser(st), st)
    BY <1>4, EnsureUserEffect
  <2>2. CASE ~Failed(o)
    <3>1. PICK st \in Status : /\ st.username = Username
                               /\ st.HasRoles = w.status.HasRoles
                               /\ GoesOnTo(AfterUser(st), st)
      BY <2>1, <2>2
    <3>2. account' = [account EXCEPT ![Username] = Password]
      BY <2>1, <2>2, ObeyingSolrAnswers
    <3>3. Login(Username, Password)'
      BY <1>1, <1>3, <3>1, <3>2 DEF Login, Parts, SolrTypeOK
    <3>4. IsTrue(st.HasRoles) => Privileged(Username)'
      BY <1>2, <1>3, <2>1, <3>1 DEF SoFarProvided, Privileged
    <3>5. \/ AfterUser(st) = "getRoles"
          \/ AfterUser(st) \in {"updateSecret", "okStatus"}
             /\ IsTrue(st.HasRoles)
      BY DEF AfterUser, AfterRoles
    <3> QED
      BY <1>3, <3>1, <3>3, <3>4, <3>5 DEF SoFarProvided, Provided
  <2> QED
    BY <2>1, <2>2, FailsProvided
<1>5. CASE UpsertRoles
  <2>1. PICK o \in Outcomes :
          /\ pc = "upsertRoles" /\ UNCHANGED account
          /\ Post(o)
          /\ roles' = IF Applied(o)
                      THEN [roles EXCEPT ![Username] = w.roles \cup DefaultRoles]
                      ELSE roles
          /\ Failed(o) => FailsWith(w.status)
          /\ ~Failed(o) =>
               \E st \in Status : SameName(st) /\ GoesOnTo(AfterRoles, st)
    BY <1>5, UpsertRolesEffect
  <2>2. CASE ~Failed(o)
    <3>1. PICK st \in Status : SameName(st) /\ GoesOnTo(AfterRoles, st)
      BY <2>1, <2>2
    <3>2. roles' = [roles EXCEPT ![Username] = w.roles \cup DefaultRoles]
      BY <2>1, <2>2, ObeyingSolrAnswers
    <3>3. Privileged(Username)'
      BY <1>1, <1>3, <3>1, <3>2 DEF Privileged, Parts, SolrTypeOK
    <3>4. Login(Username, Password)' /\ st.username = Username
      BY <1>2, <1>3, <2>1, <3>1 DEF SoFarProvided, Provided, Login, SameName
    <3> QED
      BY <1>3, <3>1, <3>3, <3>4 DEF SoFarProvided, Provided, AfterRoles
  <2> QED
    BY <2>1, <2>2, FailsProvided
<1> QED
  BY <1>4, <1>5 DEF Makes

LEMMA NextProgress ==
    ASSUME Parts, ProgressInv, SolrObeys, [Next]_vars
    PROVE  ProgressInv'
<1>1. Filled' /\ Progress
  BY FillsPassword DEF ProgressInv
<1>2. CASE Checks /\ w.ensure
  BY <1>1, <1>2, ChecksProgress, ProgressParts DEF ProgressInv
<1>3. CASE Makes
  BY <1>1, <1>3, MakesProgress, ProgressParts DEF ProgressInv
<1>4. CASE PassStep /\ ~w.ensure
  <2>1. ~w'.ensure \/ pc' = "idle"
    BY <1>4, PassKeepsKind
  <2>2. pc' = "idle" => SoFarProvided'
    BY DEF SoFarProvided, Provided
  <2> QED
    BY <1>1, <2>1, <2>2, ProgressParts DEF ProgressInv
<1>5. CASE UpdateSecret
  <2>1. /\ pc = "updateSecret" /\ UNCHANGED solrVars
        /\ GoesOnTo("okStatus", w.status) /\ w.secret # NONE /\ w.ensure
    BY <1>5, UpdateSecretEffect, EnsuringPass DEF HadSecret
  <2>2. SoFarProvided
    BY <1>1, <2>1, ProgressParts
  <2>3. SoFarProvided'
    BY <2>1, <2>2, GoesOnKeepsSecret
       DEF SoFarProvided, Provided, Login, Privileged, solrVars
  <2> QED
    BY <1>1, <2>3, ProgressParts DEF ProgressInv
<1>6. CASE Retires
  BY <1>4, <1>6, RevokeRolesEffect, RevokeUserEffect, StepsByEffect DEF Retires
<1>7. CASE \/ GetSecret \/ CreateSecret \/ UserWrites
           \/ Crash \/ \E u \in Users : Begin(u)
  <2>1. pc' \in {"idle", "failStatus", "checkExistence", "createSecret",
                 "initStatus", "getSecret", "addFinalizer"}
    <3>1. CASE GetSecret \/ CreateSecret
      BY <3>1, GetSecretEffect, CreateSecretEffect
         DEF Fills, GoesOnTo, FailsWith, Ends
    <3>2. CASE UserWrites
      BY <3>2, AddFinalizerEffect, InitStatusEffect, LastStatusEffect,
         RemoveFinalizerEffect DEF UserWrites, GoesOnTo, Ends
    <3>3. CASE Crash \/ \E u \in Users : Begin(u)
      BY <3>3 DEF Crash, Begin, Route
    <3> QED
      BY <1>7, <3>1, <3>2, <3>3
  <2>2. SoFarProvided'
    BY <2>1 DEF SoFarProvided, Provided
  <2> QED
    BY <1>1, <2>2, ProgressParts DEF ProgressInv
<1>8. CASE UNCHANGED <<pc, w>> /\ (UNCHANGED solrVars \/ SolrDrift)
  <2>1. UNCHANGED solrVars
    BY <1>8 DEF SolrObeys, SolrDrift
  <2>2. SoFarProvided => SoFarProvided'
    BY <1>8, <2>1 DEF SoFarProvided, Found, Username, Password, Login,
                      Privileged, solrVars
  <2> QED
    BY <1>1, <1>8, <2>2, ProgressParts DEF ProgressInv
<1> QED
  BY <1>2, <1>3, <1>4, <1>5, <1>6, <1>7, <1>8, WorkerChanges, StepsByEffect

LEMMA InitProgress ==
    ASSUME Init
    PROVE  ProgressInv
BY DEF Init, NoWork, ProgressInv, Filled, Progress, Provided


-----------------------------------------------------------------------------
(***************************************************************************)
(* Published credentials work.                                             *)
(***************************************************************************)

(* Names of different Users are different, and people choose none.         *)
LEMMA NamesApart ==
    ASSUME "bring" \notin Disruptions, NEW u \in Users, NEW v \in Users,
           NEW n \in MayHave(u), n \in MayHave(v), n # NONE
    PROVE  u = v /\ n \in Names
BY DEF MayHave

(* Without anybody who applies Users again, none comes back to life.       *)
LEMMA LiveStays ==
    ASSUME Parts, ~Disrupt("apply"), [Next]_vars, NEW u \in Users, Live(user'[u])
    PROVE  Live(user[u])
<1>1. CASE UNCHANGED user
  BY <1>1
<1>2. user[u] # NONE => user[u] \in UserObj
  BY DEF Parts, UserStored
<1>3. CASE UserWrites
  <2>1. /\ pc # "idle"
        /\ \/ \E st \in Status : StatusIs(st)
           \/ FinalizerIs(TRUE) \/ FinalizerIs(FALSE)
    BY <1>3, AddFinalizerEffect, InitStatusEffect, LastStatusEffect,
       RemoveFinalizerEffect DEF UserWrites
  <2>2. w.key \in userHeld => user[w.key] \in UserObj /\ user[w.key] # NONE
    BY <2>1, HeldUser, ObjectAssumption
  <2>3. \/ user'[u] = user[u]
        \/ /\ user[u] # NONE
           /\ \E obj : /\ obj.deleting = user[u].deleting
                       /\ user'[u] \in {obj, Reaped(obj)}
    BY <1>2, <2>1, <2>2 DEF StatusIs, FinalizerIs, UserObj, Parts, UserStored
  <2> QED
    BY <2>3 DEF Live, Reaped
<1>4. CASE \E v \in Users : RequestDelete(v) \/ DropForeign(v)
  <2>1. PICK v \in Users : RequestDelete(v) \/ DropForeign(v)
    BY <1>4
  <2>2. user[v] \in UserObj /\ user[v] # NONE
    BY <2>1 DEF RequestDelete, DropForeign, Live, Parts, UserStored
  <2>3. CASE RequestDelete(v)
    <3>1. user' = [user EXCEPT ![v] = Reaped([user[v] EXCEPT !.deleting = TRUE])]
      BY <2>3 DEF RequestDelete, EditUser, PutUser
    <3> QED
      BY <2>2, <2>3, <3>1 DEF RequestDelete, UserObj, Parts, UserStored
  <2>4. CASE DropForeign(v)
    <3> DEFINE obj == [user[v] EXCEPT !.foreign = FALSE]
    <3>1. user' = [user EXCEPT ![v] = Reaped(obj)]
      BY <2>4 DEF DropForeign, EditUser, PutUser
    <3>2. obj.deleting = user[v].deleting
      BY <2>2 DEF UserObj
    <3> HIDE DEF obj
    <3>3. user'[u] = IF u = v THEN Reaped(obj) ELSE user[u]
      BY <3>1 DEF Parts, UserStored
    <3> QED
      BY <2>2, <3>2, <3>3 DEF Live, Reaped
  <2> QED
    BY <2>1, <2>3, <2>4
<1> QED
  BY <1>1, <1>3, <1>4, UserChanges DEF Apply

LEMMA CacheChanges ==
    ASSUME Parts, [Next]_vars, NEW u \in Users
    PROVE  \/ userCache'[u] = userCache[u]
           \/ userCache'[u] = user[u] /\ user'[u] = user[u]
<1>1. CASE PassStep
  <2>1. CASE Checks \/ Makes \/ Retires
    BY <2>1, CheckExistenceEffect, CheckPasswordEffect, CheckRolesEffect,
       GetRolesEffect, EnsureUserEffect, UpsertRolesEffect,
       RevokeRolesEffect, RevokeUserEffect
       DEF Checks, Makes, Retires, kubernetesVars
  <2>2. CASE GetSecret \/ CreateSecret \/ UpdateSecret
    BY <2>2, GetSecretEffect, CreateSecretEffect, UpdateSecretEffect
  <2>3. CASE UserWrites
    BY <2>3, AddFinalizerEffect, InitStatusEffect, LastStatusEffect,
       RemoveFinalizerEffect DEF UserWrites, UserWriteFrame
  <2> QED
    BY <1>1, <2>1, <2>2, <2>3, StepsByEffect
<1>2. CASE \E v \in Users : Deliver(v)
  BY <1>2 DEF Deliver, Parts, UserStored
<1>3. CASE Crash
  BY <1>3 DEF Crash, Relist
<1>4. CASE TakeKey \/ UNCHANGED vars \/ (Environment /\ ~\E v \in Users : Deliver(v))
  <2>1. UNCHANGED userCache
    BY <1>4 DEF TakeKey, ObjectGone, NoClient, Begin, vars, apiVars, userVars,
                Environment, UserEdits, Informers, Apply, RequestDelete,
                DropForeign, EditUser, RotatePassword, StripSecret,
                DropSecret, BringSecret, EditSecret, CloudChange, Resync,
                SyncSecret, DeliverSecretEvent, SyncCloud, DeliverCloudEvent
  <2> QED
    BY <2>1
<1> QED
  BY <1>1, <1>2, <1>3, <1>4 DEF Next, Worker

LEMMA NextRetiredInv ==
    ASSUME Parts, RetiredInv, ~Disrupt("apply"), [Next]_vars
    PROVE  RetiredInv'
<1>1. ASSUME NEW u \in Users, userCache'[u] # NONE, userCache'[u].deleting
      PROVE  ~Live(user'[u])
  BY <1>1, CacheChanges, LiveStays DEF RetiredInv, Live
<1>2. (pc' # "idle" /\ ~w'.ensure) => ~Live(user'[w'.key])
  <2>1. CASE PassStep
    <3>1. pc # "idle" /\ w.key \in Users
      BY <2>1, OnlyItsName DEF Parts, WorkerInv, PassConsistent
    <3> QED
      BY <2>1, <3>1, PassKeepsKind, LiveStays DEF RetiredInv
  <2>2. CASE \E u \in Users : Begin(u)
    BY <2>2, BeginEffect DEF Ensures, RetiredInv
  <2>3. CASE Crash
    BY <2>3 DEF Crash
  <2>4. CASE UNCHANGED <<pc, w>>
    <3>1. pc # "idle" => w.key \in Users
      BY DEF Parts, WorkerInv, PassConsistent
    <3> QED
      BY <2>4, <3>1, LiveStays DEF RetiredInv
  <2> QED
    BY <2>1, <2>2, <2>3, <2>4, WorkerChanges
<1> QED
  BY <1>1, <1>2 DEF RetiredInv

(* PasswordsInv by its parts.                                              *)
SecretsAgree ==
    \A s \in Secrets : /\ Complete(secret[s])
                       /\ Complete(secretCache[s])
                       /\ Agree(secret[s], secretCache[s])

PassAgrees ==
    pc # "idle" => Agree(w.secret, secret[S]) /\ Agree(w.secret, secretCache[S])

LEMMA PasswordsParts ==
    /\ PasswordsInv <=> SecretsAgree /\ PassAgrees
    /\ PasswordsInv' <=> SecretsAgree' /\ PassAgrees'
BY DEF PasswordsInv, SecretsAgree, PassAgrees

LEMMA NothingAgrees ==
    /\ Complete(NONE)
    /\ \A a : Agree(a, NONE) /\ Agree(NONE, a)
    /\ Complete(EmptySecret)
    /\ \A a : Agree(a, EmptySecret) /\ Agree(EmptySecret, a)
BY DEF Complete, Agree, EmptySecret

(* A name that is generated is mentioned by no secret.                     *)
LEMMA FreshIsNew ==
    ASSUME NEW n \in Fresh, NEW s \in Secrets
    PROVE  /\ secret[s] # NONE => secret[s].username # n
           /\ secretCache[s] # NONE => secretCache[s].username # n
BY DEF Fresh, Mentioned

(* Where neither the pass nor the secrets change, but that the pass ends.  *)
LEMMA PasswordsKept ==
    ASSUME PasswordsInv, UNCHANGED <<secret, secretCache>>,
           \/ UNCHANGED <<pc, w>>
           \/ w'.secret = NONE
           \/ pc # "idle" /\ w'.secret = w.secret /\ w'.key = w.key
    PROVE  PasswordsInv'
<1>1. SecretsAgree /\ PassAgrees
  BY PasswordsParts
<1>2. SecretsAgree'
  BY <1>1 DEF SecretsAgree, Complete, Agree
<1>3. PassAgrees'
  BY <1>1, NothingAgrees DEF PassAgrees, Agree, S
<1> QED
  BY <1>2, <1>3, PasswordsParts

LEMMA GetSecretPasswords ==
    ASSUME Parts, PasswordsInv, GetSecret
    PROVE  PasswordsInv'
<1>1. /\ pc = "getSecret" /\ S \in Secrets /\ w.secret = NONE
      /\ UNCHANGED <<secret, secretCache>>
      /\ \/ /\ secretCache[S] \in SecretObj /\ secretCache[S] # NONE
            /\ Fills(secretCache[S])
         \/ \E label, st : GoesOnTo(label, st)
  BY GetSecretEffect
<1>2. CASE /\ secretCache[S] \in SecretObj /\ secretCache[S] # NONE
           /\ Fills(secretCache[S])
  <2>1. SecretsAgree /\ SecretsAgree'
    BY <1>1, PasswordsParts DEF SecretsAgree, Complete, Agree
  <2>2. S' = S
    BY <1>2 DEF Fills, S
  <2>3. Agree(w'.secret, secret[S]) /\ Agree(w'.secret, secretCache[S])
    <3>1. CASE secretCache[S].username = NONE
      BY <1>1, <1>2, <3>1, FreshIsNew DEF Agree, Fills
    <3>2. CASE secretCache[S].username # NONE
      <4>1. secretCache[S].password # NONE
        BY <1>1, <1>2, <2>1, <3>2 DEF SecretsAgree, Complete
      <4>2. /\ w'.secret.username = secretCache[S].username
            /\ w'.secret.password = secretCache[S].password
        BY <1>2, <3>2, <4>1 DEF Fills
      <4> QED
        BY <1>1, <1>2, <2>1, <3>2, <4>2 DEF SecretsAgree, Agree
    <3> QED
      BY <3>1, <3>2
  <2> QED
    BY <1>1, <2>1, <2>2, <2>3, PasswordsParts DEF PassAgrees
<1>3. CASE \E label, st : GoesOnTo(label, st)
  BY <1>1, <1>3, PasswordsKept DEF GoesOnTo
<1> QED
  BY <1>1, <1>2, <1>3

LEMMA CreateSecretPasswords ==
    ASSUME Parts, PasswordsInv, CreateSecret
    PROVE  PasswordsInv'
<1>1. /\ S \in Secrets /\ w.secret = NONE /\ UNCHANGED secretCache
      /\ \/ UNCHANGED secret
         \/ secret' = [secret EXCEPT ![S] = EmptySecret]
      /\ \/ \E st : FailsWith(st)
         \/ Fills(EmptySecret)
  BY CreateSecretEffect
<1>2. \A s \in Secrets : secret'[s] \in {secret[s], EmptySecret}
  BY <1>1 DEF Parts, SecretStored
<1>3. SecretsAgree'
  BY <1>1, <1>2, PasswordsParts, NothingAgrees DEF SecretsAgree
<1>4. CASE \E st : FailsWith(st)
  <2>1. w'.secret = NONE
    BY <1>1, <1>4 DEF FailsWith, GoesOnTo, Ends, NoWork
  <2> QED
    BY <1>3, <2>1, NothingAgrees, PasswordsParts DEF PassAgrees
<1>5. CASE Fills(EmptySecret)
  <2>1. S' = S /\ w'.secret.username \in Fresh
    BY <1>5 DEF Fills, S, EmptySecret
  <2>2. Agree(w'.secret, secret[S]) /\ Agree(w'.secret, secretCache[S])
    BY <1>1, <2>1, FreshIsNew DEF Agree
  <2> QED
    BY <1>1, <1>2, <1>3, <2>1, <2>2, NothingAgrees, PasswordsParts
       DEF PassAgrees
<1> QED
  BY <1>1, <1>4, <1>5

LEMMA UpdateSecretPasswords ==
    ASSUME Parts, Filled, PasswordsInv, UpdateSecret
    PROVE  PasswordsInv'
<1>1. /\ pc = "updateSecret" /\ UNCHANGED secretCache
      /\ GoesOnTo("okStatus", w.status)
      /\ \/ UNCHANGED secret
         \/ secret' = [secret EXCEPT ![S] = w.secret]
  BY UpdateSecretEffect
<1>2. /\ S \in Secrets /\ w.secret # NONE
      /\ SecretsAgree /\ PassAgrees
  BY <1>1, PasswordsParts, UserApiAssumption
     DEF Parts, WorkerInv, PassConsistent, HadSecret, S
<1>3. CASE UNCHANGED secret
  BY <1>1, <1>3, PasswordsKept DEF GoesOnTo
<1>4. CASE secret' = [secret EXCEPT ![S] = w.secret]
  <2>1. \A s \in Secrets : secret'[s] = IF s = S THEN w.secret ELSE secret[s]
    BY <1>4 DEF Parts, SecretStored
  <2>2. Complete(w.secret) /\ Agree(w.secret, w.secret)
    BY DEF Filled, Complete, Agree
  <2>3. Agree(w.secret, secretCache[S])
    BY <1>1, <1>2 DEF PassAgrees
  <2>4. SecretsAgree'
    BY <1>1, <1>2, <2>1, <2>2, <2>3 DEF SecretsAgree
  <2>5. S' = S /\ w'.secret = w.secret
    BY <1>1 DEF GoesOnTo, S
  <2> QED
    BY <1>1, <1>2, <2>1, <2>2, <2>3, <2>4, <2>5, PasswordsParts DEF PassAgrees
<1> QED
  BY <1>1, <1>3, <1>4

OnlyDropped == ~Disrupt("rotate") /\ ~Disrupt("strip") /\ ~Disrupt("bring")

LEMMA EnvironmentPasswords ==
    ASSUME Parts, PasswordsInv, OnlyDropped, Environment
    PROVE  PasswordsInv'
<1>1. UNCHANGED <<pc, w>> /\ SecretsAgree /\ PassAgrees
  BY PasswordsParts DEF Environment, workVars
<1>2. CASE \E s \in Secrets : DropSecret(s)
  <2>1. PICK s \in Secrets : /\ secret' = [secret EXCEPT ![s] = NONE]
                             /\ UNCHANGED secretCache
    BY <1>2 DEF DropSecret, EditSecret, PutSecret
  <2>2. \A r \in Secrets : secret'[r] = IF r = s THEN NONE ELSE secret[r]
    BY <2>1 DEF Parts, SecretStored
  <2>3. SecretsAgree'
    BY <1>1, <2>1, <2>2, NothingAgrees DEF SecretsAgree
  <2>4. pc # "idle" => S \in Secrets
    BY UserApiAssumption DEF S, Parts, WorkerInv, PassConsistent
  <2>5. PassAgrees'
    BY <1>1, <2>1, <2>2, <2>4, NothingAgrees DEF PassAgrees, S
  <2> QED
    BY <2>3, <2>5, PasswordsParts
<1>3. CASE \E s \in Secrets : SyncSecret(s)
  <2>1. PICK s \in Secrets : /\ secretCache' = [secretCache EXCEPT ![s] = secret[s]]
                             /\ UNCHANGED secret
    BY <1>3 DEF SyncSecret
  <2>2. \A r \in Secrets :
          secretCache'[r] = IF r = s THEN secret[r] ELSE secretCache[r]
    BY <2>1 DEF Parts, SecretStored
  <2>3. SecretsAgree'
    BY <1>1, <2>1, <2>2 DEF SecretsAgree, Agree
  <2>4. pc # "idle" => S \in Secrets
    BY UserApiAssumption DEF S, Parts, WorkerInv, PassConsistent
  <2>5. PassAgrees'
    BY <1>1, <2>1, <2>2, <2>4 DEF PassAgrees, S
  <2> QED
    BY <2>3, <2>5, PasswordsParts
<1>4. CASE ~(\E s \in Secrets : DropSecret(s) \/ SyncSecret(s))
  <2>1. UNCHANGED <<secret, secretCache>>
    BY <1>4
       DEF OnlyDropped, Environment, UserEdits, Informers, Apply,
           RequestDelete, DropForeign, EditUser, RotatePassword, StripSecret,
           BringSecret, CloudChange, Deliver, Resync, DeliverSecretEvent,
           SyncCloud, DeliverCloudEvent, apiVars, secretVars
  <2> QED
    BY <1>1, <2>1, PasswordsKept
<1> QED
  BY <1>2, <1>3, <1>4

LEMMA NextPasswords ==
    ASSUME Parts, Filled, PasswordsInv, OnlyDropped, [Next]_vars
    PROVE  PasswordsInv'
<1>1. CASE Checks \/ Makes \/ Retires \/ UserWrites
  <2>1. UNCHANGED <<secret, secretCache>>
    BY <1>1, CheckExistenceEffect, CheckPasswordEffect, CheckRolesEffect,
       GetRolesEffect, EnsureUserEffect, UpsertRolesEffect,
       RevokeRolesEffect, RevokeUserEffect, AddFinalizerEffect,
       InitStatusEffect, LastStatusEffect, RemoveFinalizerEffect
       DEF Checks, Makes, Retires, UserWrites, kubernetesVars, UserWriteFrame
  <2>2. pc # "idle"
    BY <1>1, OnlyItsName, StepsByEffect
  <2>3. \/ Ends
        \/ \E st : FailsWith(st)
        \/ \E label, st : GoesOnTo(label, st)
    BY <1>1, CheckExistenceEffect, CheckPasswordEffect, CheckRolesEffect,
       GetRolesEffect, EnsureUserEffect, UpsertRolesEffect,
       RevokeRolesEffect, RevokeUserEffect, AddFinalizerEffect,
       InitStatusEffect, LastStatusEffect, RemoveFinalizerEffect
       DEF Checks, Makes, Retires, UserWrites, Provides, Revokes
  <2>4. \/ w'.secret = NONE
        \/ w'.secret = w.secret /\ w'.key = w.key
    BY <2>3 DEF Ends, FailsWith, GoesOnTo, NoWork
  <2> QED
    BY <2>1, <2>2, <2>4, PasswordsKept
<1>2. CASE GetSecret \/ CreateSecret \/ UpdateSecret
  BY <1>2, GetSecretPasswords, CreateSecretPasswords, UpdateSecretPasswords
<1>3. CASE \E u \in Users : Begin(u)
  BY <1>3, BeginEffect, PasswordsKept DEF secretVars
<1>4. CASE (\E u \in Users : ObjectGone(u) \/ NoClient(u)) \/ UNCHANGED vars
  <2>1. UNCHANGED <<secret, secretCache, pc, w>>
    BY <1>4 DEF ObjectGone, NoClient, vars, apiVars, secretVars, workVars
  <2> QED
    BY <2>1, PasswordsKept
<1>5. CASE Environment
  BY <1>5, EnvironmentPasswords
<1>6. CASE Crash
  <2>1. UNCHANGED secret /\ secretCache' = secret /\ pc' = "idle"
    BY <1>6 DEF Crash, Relist
  <2>2. SecretsAgree' /\ PassAgrees'
    BY <2>1, PasswordsParts DEF SecretsAgree, PassAgrees, Agree
  <2> QED
    BY <2>2, PasswordsParts
<1> QED
  BY <1>1, <1>2, <1>3, <1>4, <1>5, <1>6, StepsByEffect
     DEF Next, Worker, TakeKey

LEMMA InitCopies ==
    ASSUME Init
    PROVE  PasswordsInv /\ RetiredInv
BY DEF Init, ApiInit, PasswordsInv, RetiredInv, Complete, Agree


(* What a User's secret shows works.                                       *)
Works(u) ==
    Published(u) # NONE =>
      /\ Login(Published(u), SecretFor(u).password)
      /\ Privileged(Published(u))

(* The worker writes an account or roles of a live User's published name   *)
(* only as that User's ensuring pass, with the password that is shown.     *)
LEMMA MakesWork ==
    ASSUME Parts, OwnSecrets, OwnersInv, "bring" \notin Disruptions,
           PasswordsInv, Makes, NEW u \in Users, Works(u)
    PROVE  Works(u)'
<1>1. pc \in HadSecret /\ UNCHANGED secret
  BY EnsureUserEffect, UpsertRolesEffect
     DEF Makes, HadSecret, kubernetesVars
<1>2. /\ w.secret # NONE /\ Username = w.secret.username
      /\ Password = w.secret.password /\ Username \in Names
      /\ pc # "idle" /\ w.key \in Users
  BY <1>1, EnsuringPass DEF Parts, WorkerInv, PassConsistent
<1>3. SecretFor(u)' = SecretFor(u) /\ Published(u)' = Published(u)
  BY <1>1 DEF SecretFor, Published
<1>4. CASE Published(u) = NONE
  BY <1>3, <1>4 DEF Works
<1>5. CASE Published(u) # NONE /\ Published(u) # Username
  <2>1. /\ Published(u) \in Names
        /\ account'[Published(u)] = account[Published(u)]
        /\ roles'[Published(u)] = roles[Published(u)]
    BY <1>5, OnlyItsName, StepsByEffect DEF Works, Privileged
  <2> QED
    BY <1>3, <1>5, <2>1 DEF Works, Login, Privileged
<1>6. CASE Published(u) # NONE /\ Published(u) = Username
  <2>1. u = w.key
    <3>1. Published(u) \in MayHave(u)
      BY <1>6 DEF OwnersInv, Published
    <3>2. Username \in MayHave(w.key)
      BY <1>2, UsernameIsOwn, OwnersParts
    <3> QED
      BY <1>2, <1>6, <3>1, <3>2, NamesApart
  <2>2. SecretFor(u).password = Password
    <3>1. SecretFor(u) = secret[S] /\ secret[S] # NONE
      BY <1>6, <2>1 DEF SecretFor, S, Published
    <3> QED
      BY <1>2, <1>6, <3>1 DEF PasswordsInv, Agree, Published, SecretFor
  <2>3. \/ UNCHANGED account
        \/ account' = [account EXCEPT ![Username] = Password]
    BY EnsureUserEffect, UpsertRolesEffect DEF Makes
  <2>4. \/ UNCHANGED roles
        \/ roles' = [roles EXCEPT ![Username] = w.roles \cup DefaultRoles]
    BY EnsureUserEffect, UpsertRolesEffect DEF Makes
  <2>5. Login(Published(u), SecretFor(u).password)'
    BY <1>2, <1>3, <1>6, <2>2, <2>3 DEF Works, Login, Parts, SolrTypeOK
  <2>6. Privileged(Published(u))'
    BY <1>2, <1>3, <1>6, <2>4 DEF Works, Privileged, Parts, SolrTypeOK
  <2> QED
    BY <2>5, <2>6 DEF Works
<1> QED
  BY <1>4, <1>5, <1>6

LEMMA RetiresWork ==
    ASSUME Parts, OwnSecrets, OwnersInv, "bring" \notin Disruptions,
           RetiredInv, Retires, NEW u \in Users, Live(user[u]), Works(u)
    PROVE  Works(u)'
<1>1. /\ pc # "idle" /\ ~w.ensure /\ w.key \in Users
      /\ UNCHANGED secret
  BY RevokeRolesEffect, RevokeUserEffect
     DEF Retires, kubernetesVars, Parts, WorkerInv, PassConsistent
<1>2. u # w.key
  BY <1>1 DEF RetiredInv
<1>3. CASE Published(u) # NONE
  <2>1. Published(u) \in MayHave(u)
    BY <1>3 DEF OwnersInv, Published
  <2>2. Username \in MayHave(w.key)
    BY <1>1, UsernameIsOwn, OwnersParts
  <2>3. Published(u) # Username
    BY <1>1, <1>2, <1>3, <2>1, <2>2, NamesApart
  <2>4. /\ Published(u) \in Names
        /\ account'[Published(u)] = account[Published(u)]
        /\ roles'[Published(u)] = roles[Published(u)]
    BY <1>3, <2>3, OnlyItsName, StepsByEffect DEF Works, Privileged
  <2> QED
    BY <1>1, <1>3, <2>4 DEF Works, Login, Privileged, Published, SecretFor
<1>4. CASE Published(u) = NONE
  BY <1>1, <1>4 DEF Works, Published, SecretFor
<1> QED
  BY <1>3, <1>4

LEMMA SecretWritesWork ==
    ASSUME Parts, ProgressInv, CreateSecret \/ UpdateSecret,
           NEW u \in Users, Works(u)
    PROVE  Works(u)'
<1>1. SecretOf[u] \in Secrets /\ UNCHANGED solrVars
  BY UserApiAssumption, CreateSecretEffect, UpdateSecretEffect
<1>2. CASE SecretFor(u)' = SecretFor(u)
  BY <1>1, <1>2 DEF Works, Published, Login, Privileged, solrVars
<1>3. CASE CreateSecret
  <2>1. secret' = [secret EXCEPT ![S] = EmptySecret] \/ UNCHANGED secret
    BY <1>3, CreateSecretEffect
  <2>2. SecretFor(u)' \in {SecretFor(u), EmptySecret}
    BY <1>1, <2>1 DEF SecretFor, Parts, SecretStored
  <2>3. SecretFor(u)' = EmptySecret => Published(u)' = NONE
    BY DEF Published, EmptySecret
  <2> QED
    BY <1>2, <2>2, <2>3 DEF Works
<1>4. CASE UpdateSecret
  <2>1. /\ pc = "updateSecret"
        /\ secret' = [secret EXCEPT ![S] = w.secret] \/ UNCHANGED secret
    BY <1>4, UpdateSecretEffect
  <2>2. /\ w.ensure /\ w.secret # NONE
        /\ Username = w.secret.username /\ Password = w.secret.password
    BY <2>1, EnsuringPass DEF HadSecret
  <2>3. SecretFor(u)' \in {SecretFor(u), w.secret}
    BY <1>1, <2>1 DEF SecretFor, Parts, SecretStored
  <2>4. Login(Username, Password) /\ Privileged(Username)
    BY <2>1, <2>2 DEF ProgressInv, Progress, Provided
  <2>5. CASE SecretFor(u)' = w.secret
    <3>1. Published(u)' = Username
      BY <2>2, <2>5 DEF Published
    <3> QED
      BY <1>1, <2>2, <2>4, <2>5, <3>1 DEF Works, Login, Privileged, solrVars
  <2> QED
    BY <1>2, <2>3, <2>5
<1> QED
  BY <1>3, <1>4

LEMMA NextWork ==
    ASSUME Parts, OwnSecrets, OwnersInv, ProgressInv, PasswordsInv, RetiredInv,
           "bring" \notin Disruptions, OnlyDropped, SolrObeys,
           ~Disrupt("apply"), PublishedCredentialsWork, [Next]_vars
    PROVE  PublishedCredentialsWork'
<1> SUFFICES ASSUME NEW u \in Users, Live(user'[u])
             PROVE  Works(u)'
  BY DEF PublishedCredentialsWork, Works
<1>1. Live(user[u]) /\ Works(u)
  BY LiveStays DEF PublishedCredentialsWork, Works
<1>2. CASE Makes
  BY <1>1, <1>2, MakesWork
<1>3. CASE Retires
  BY <1>1, <1>3, RetiresWork
<1>4. CASE CreateSecret \/ UpdateSecret
  BY <1>1, <1>4, SecretWritesWork
<1>5. CASE \E s \in Secrets : \/ RotatePassword(s) \/ StripSecret(s)
                              \/ DropSecret(s) \/ BringSecret(s)
  <2>1. PICK s \in Secrets : DropSecret(s)
    BY <1>5 DEF OnlyDropped, RotatePassword, StripSecret, BringSecret
  <2>2. UNCHANGED solrVars /\ secret' = [secret EXCEPT ![s] = NONE]
    BY <2>1 DEF DropSecret, EditSecret, PutSecret
  <2>3. SecretFor(u)' \in {SecretFor(u), NONE}
    BY <2>2, UserApiAssumption DEF SecretFor, Parts, SecretStored
  <2> QED
    BY <1>1, <2>2, <2>3 DEF Works, Published, Login, Privileged, solrVars
<1>6. CASE UNCHANGED <<secret, solrVars>>
  BY <1>1, <1>6 DEF Works, Published, SecretFor, Login, Privileged, solrVars
<1> QED
  BY <1>2, <1>3, <1>4, <1>5, <1>6, SolrChanges, SecretChanges DEF SolrObeys

(***************************************************************************)
(* Spec => []PublishedCredentialsWork, when no two Users name the same     *)
(* secret, Solr refuses no request and is edited by nobody else, people    *)
(* edit no secret but may remove it, and no User is applied again.  Failed *)
(* requests, applied or not, crashes, stale reads of Users and secrets,    *)
(* deletions at any moment and other finalizers are all admitted.          *)
(***************************************************************************)
THEOREM ShownCredentialsWork ==
    ASSUME OwnSecrets,
           Excluded({"drift", "solrRefuse", "rotate", "strip", "bring", "apply"})
    PROVE  Spec => []PublishedCredentialsWork
<1>1. /\ "bring" \notin Disruptions
      /\ OnlyDropped /\ SolrObeys /\ ~Disrupt("apply")
  BY ExcludedNeverHappens DEF Excluded, OnlyDropped, SolrObeys
<1> DEFINE I == /\ Parts /\ OwnersInv /\ ProgressInv
                /\ PasswordsInv /\ RetiredInv /\ PublishedCredentialsWork
<1>2. Init => I
  <2>1. Init => PublishedCredentialsWork
    BY UserApiAssumption
       DEF Init, ApiInit, PublishedCredentialsWork, Published, SecretFor
  <2> QED
    BY <2>1, InitParts, InitOwners, InitProgress, InitCopies
<1>3. I /\ [Next]_vars => I'
  <2> SUFFICES ASSUME I, [Next]_vars
               PROVE  I'
    OBVIOUS
  <2>1. Parts' /\ OwnersInv' /\ ProgressInv'
    BY <1>1, NextParts, NextOwners, NextProgress
  <2>2. PasswordsInv' /\ RetiredInv'
    BY <1>1, NextPasswords, NextRetiredInv DEF ProgressInv
  <2>3. PublishedCredentialsWork'
    BY <1>1, NextWork
  <2> QED
    BY <2>1, <2>2, <2>3
<1> QED
  BY <1>2, <1>3, PTL DEF Spec

-----------------------------------------------------------------------------
(***************************************************************************)
(* Ready means the login exists.                                           *)
(***************************************************************************)
Ready(obj) == Live(obj) /\ obj.status.Available = "ReconcileSuccess"

(* A User becomes ready by the last step of its ensuring pass.             *)
LEMMA ReadyComesFrom ==
    ASSUME Parts, [Next]_vars, NEW u \in Users, Ready(user'[u])
    PROVE  \/ Ready(user[u]) /\ user'[u].status.username = user[u].status.username
           \/ /\ OkStatus /\ u = w.key /\ w.key \in userHeld
              /\ Live(user[u])
              /\ user'[u].status.username = w.status.username
<1>1. CASE UNCHANGED user
  BY <1>1
<1>2. user[u] # NONE => user[u] \in UserObj
  BY DEF Parts, UserStored
<1>3. CASE AddFinalizer \/ RemoveFinalizer
  <2>1. pc # "idle" /\ (FinalizerIs(TRUE) \/ FinalizerIs(FALSE))
    BY <1>3, AddFinalizerEffect, RemoveFinalizerEffect
  <2>2. w.key \in userHeld => user[w.key] \in UserObj /\ user[w.key] # NONE
    BY <2>1, HeldUser, ObjectAssumption
  <2>3. \/ user'[u] = user[u]
        \/ /\ user[u] # NONE
           /\ \E obj : /\ obj.deleting = user[u].deleting
                       /\ obj.status = user[u].status
                       /\ user'[u] = Reaped(obj)
    BY <1>2, <2>1, <2>2 DEF FinalizerIs, UserObj, Parts, UserStored
  <2> QED
    BY <2>3 DEF Ready, Live, Reaped
<1>4. CASE InitStatus \/ OkStatus \/ FailStatus
  <2>1. pc # "idle" /\ \E st \in Status :
          /\ SameName(st) /\ StatusIs(st)
          /\ st.Available = "ReconcileSuccess" => pc = "okStatus"
    BY <1>4, InitStatusEffect, LastStatusEffect
  <2>2. PICK st \in Status :
          /\ SameName(st) /\ StatusIs(st)
          /\ st.Available = "ReconcileSuccess" => pc = "okStatus"
    BY <2>1
  <2>3. w.key \in userHeld => user[w.key] \in UserObj /\ user[w.key] # NONE
    BY <2>1, HeldUser, ObjectAssumption
  <2>4. \/ user'[u] = user[u]
        \/ /\ u = w.key /\ w.key \in userHeld
           /\ user[u] # NONE
           /\ user'[u].deleting = user[u].deleting
           /\ user'[u].status = st
    BY <2>2, <2>3 DEF StatusIs, UserObj, Parts, UserStored
  <2>5. pc = "okStatus" => OkStatus
    BY <1>4 DEF InitStatus, FailStatus
  <2> QED
    BY <2>2, <2>4, <2>5 DEF Ready, Live, SameName
<1>5. CASE \E v \in Users : Apply(v) \/ RequestDelete(v) \/ DropForeign(v)
  <2>1. PICK v \in Users : Apply(v) \/ RequestDelete(v) \/ DropForeign(v)
    BY <1>5
  <2>2. CASE Apply(v)
    <3>1. user' = [user EXCEPT ![v] = NewUser(v)]
      BY <2>2 DEF Apply, EditUser, PutUser
    <3>2. NewUser(v).status.Available # "ReconcileSuccess"
      BY ReasonsAssumption DEF NewUser, BlankStatus, TrueReasons
    <3> QED
      BY <3>1, <3>2 DEF Ready, Parts, UserStored
  <2>3. CASE RequestDelete(v)
    <3>1. user' = [user EXCEPT ![v] = Reaped([user[v] EXCEPT !.deleting = TRUE])]
          /\ user[v] \in UserObj
      BY <2>3 DEF RequestDelete, Live, EditUser, PutUser, Parts, UserStored
    <3>2. \/ user'[u] = user[u] \/ user'[u] = NONE \/ user'[u].deleting
      BY <3>1 DEF Reaped, UserObj, Parts, UserStored
    <3> QED
      BY <3>2 DEF Ready, Live
  <2>4. CASE DropForeign(v)
    <3> DEFINE obj == [user[v] EXCEPT !.foreign = FALSE]
    <3>1. /\ user' = [user EXCEPT ![v] = Reaped(obj)]
          /\ user[v] # NONE /\ user[v] \in UserObj
      BY <2>4 DEF DropForeign, EditUser, PutUser, Parts, UserStored
    <3>2. obj.deleting = user[v].deleting /\ obj.status = user[v].status
      BY <3>1 DEF UserObj
    <3> HIDE DEF obj
    <3>3. user'[u] = IF u = v THEN Reaped(obj) ELSE user[u]
      BY <3>1 DEF Parts, UserStored
    <3> QED
      BY <3>1, <3>2, <3>3 DEF Ready, Live, Reaped
  <2> QED
    BY <2>1, <2>2, <2>3, <2>4
<1> QED
  BY <1>1, <1>3, <1>4, <1>5, UserChanges DEF UserWrites


(* SeenAlive by its parts.                                                 *)
HeldIsSeen ==
    w.key \in userHeld =>
      /\ userCache[w.key] # NONE
      /\ userCache[w.key].deleting = user[w.key].deleting

ReadyIsSeen ==
    \A u \in Users :
      Ready(user[u]) => /\ userCache[u] # NONE
                        /\ ~userCache[u].deleting
                        /\ (pc # "idle" /\ w.key = u) => w.ensure

LEMMA SeenParts ==
    /\ SeenAlive <=> HeldIsSeen /\ ReadyIsSeen
    /\ SeenAlive' <=> HeldIsSeen' /\ ReadyIsSeen'
BY DEF SeenAlive, HeldIsSeen, ReadyIsSeen, Ready

(* As long as an Update would be accepted, nobody but the worker has       *)
(* written the User, and the worker leaves its deletion alone.             *)
LEMMA HeldKeepsDeleting ==
    ASSUME Parts, [Next]_vars, w.key \in userHeld, w.key \in userHeld',
           HeldIsThere'
    PROVE  user'[w.key].deleting = user[w.key].deleting
<1>1. w.key \in Users /\ user[w.key] # NONE /\ user'[w.key] # NONE
  BY DEF Parts, WorkerInv, HeldIsThere
<1>2. user[w.key] \in UserObj
  BY <1>1 DEF Parts, UserStored
<1>3. CASE UNCHANGED user
  BY <1>3
<1>4. CASE UserWrites
  <2>1. \/ \E st \in Status : StatusIs(st)
        \/ FinalizerIs(TRUE) \/ FinalizerIs(FALSE)
    BY <1>4, AddFinalizerEffect, InitStatusEffect, LastStatusEffect,
       RemoveFinalizerEffect DEF UserWrites
  <2>2. CASE \E st \in Status : StatusIs(st)
    BY <1>1, <1>2, <2>2 DEF StatusIs, UserObj, Parts, UserStored
  <2>3. ASSUME NEW b \in BOOLEAN, FinalizerIs(b)
        PROVE  user'[w.key].deleting = user[w.key].deleting
    <3> DEFINE obj == [user[w.key] EXCEPT !.finalizer = b]
    <3>1. obj.deleting = user[w.key].deleting
      BY <1>2 DEF UserObj
    <3>2. UNCHANGED user \/ user' = [user EXCEPT ![w.key] = Reaped(obj)]
      BY <2>3 DEF FinalizerIs
    <3> HIDE DEF obj
    <3> QED
      BY <1>1, <3>1, <3>2 DEF Reaped, Parts, UserStored
  <2> QED
    BY <2>1, <2>2, <2>3
<1>5. CASE \E u \in Users : Apply(u) \/ RequestDelete(u) \/ DropForeign(u)
  <2>1. PICK u \in Users : \E obj : EditUser(u, obj)
    BY <1>5 DEF Apply, RequestDelete, DropForeign
  <2>2. u # w.key /\ \E obj : user' = [user EXCEPT ![u] = obj]
    BY <2>1 DEF EditUser, PutUser
  <2> QED
    BY <2>2 DEF Parts, UserStored
<1> QED
  BY <1>3, <1>4, <1>5, UserChanges

LEMMA HeldChanges ==
    ASSUME Parts, [Next]_vars, w'.key \in userHeld'
    PROVE  \/ w'.key = w.key /\ w.key \in userHeld
           \/ /\ UNCHANGED <<user, userCache, userLag>>
              /\ w'.key \in Users \ userLag
              /\ userCache[w'.key] # NONE
<1>1. CASE PassStep
  BY <1>1, PassKeepsKind
<1>2. CASE \E u \in Users : Begin(u)
  BY <1>2, BeginEffect
<1>3. CASE Crash
  BY <1>3 DEF Crash, Relist
<1>4. CASE TakeKey /\ ~\E u \in Users : Begin(u)
  BY <1>4 DEF TakeKey, ObjectGone, NoClient, vars, apiVars, userVars, workVars
<1>5. CASE Environment \/ UNCHANGED vars
  <2>1. UNCHANGED w /\ userHeld' \subseteq userHeld
    BY <1>5 DEF Environment, UserEdits, Informers, Apply, RequestDelete,
                DropForeign, EditUser, RotatePassword, StripSecret,
                DropSecret, BringSecret, EditSecret, CloudChange, Deliver,
                Resync, SyncSecret, DeliverSecretEvent, SyncCloud,
                DeliverCloudEvent, apiVars, userVars, workVars, vars
  <2> QED
    BY <2>1
<1> QED
  BY <1>1, <1>2, <1>3, <1>4, <1>5 DEF Next, Worker

LEMMA NextSeen ==
    ASSUME Parts, Parts', SeenAlive, [Next]_vars
    PROVE  SeenAlive'
<1>1. HeldIsSeen /\ ReadyIsSeen
  BY SeenParts
<1>2. HeldIsSeen'
  <2>1. CASE w'.key = w.key /\ w.key \in userHeld /\ w'.key \in userHeld'
    <3>1. user'[w.key].deleting = user[w.key].deleting
      BY <2>1, HeldKeepsDeleting DEF Parts
    <3>2. user[w.key] # NONE /\ w.key \in Users
      BY <2>1 DEF Parts, HeldIsThere, WorkerInv
    <3>3. \/ userCache'[w.key] = userCache[w.key]
          \/ userCache'[w.key] = user[w.key]
      BY <3>2, CacheChanges
    <3> QED
      BY <1>1, <2>1, <3>1, <3>2, <3>3 DEF HeldIsSeen
  <2>2. CASE /\ UNCHANGED <<user, userCache, userLag>>
             /\ w'.key \in Users \ userLag
             /\ userCache[w'.key] # NONE
    BY <2>2 DEF HeldIsSeen, Parts, UserStored
  <2> QED
    BY <2>1, <2>2, HeldChanges DEF HeldIsSeen
<1>3. ASSUME NEW u \in Users, Ready(user'[u])
      PROVE  /\ userCache'[u] # NONE
             /\ ~userCache'[u].deleting
             /\ (pc' # "idle" /\ w'.key = u) => w'.ensure
  <2>1. CASE Ready(user[u])
    <3>1. /\ userCache[u] # NONE /\ ~userCache[u].deleting
          /\ (pc # "idle" /\ w.key = u) => w.ensure
      BY <1>1, <2>1 DEF ReadyIsSeen
    <3>2. userCache'[u] # NONE /\ ~userCache'[u].deleting
      BY <2>1, <3>1, CacheChanges DEF Ready, Live
    <3>3. (pc' # "idle" /\ w'.key = u) => w'.ensure
      <4>1. CASE PassStep
        BY <3>1, <4>1, PassKeepsKind, OnlyItsName
      <4>2. CASE \E v \in Users : Begin(v)
        BY <3>1, <4>2, BeginEffect DEF Ensures
      <4>3. CASE Crash
        BY <4>3 DEF Crash
      <4>4. CASE UNCHANGED <<pc, w>>
        BY <3>1, <4>4
      <4> QED
        BY <4>1, <4>2, <4>3, <4>4, WorkerChanges
    <3> QED
      BY <3>2, <3>3
  <2>2. CASE OkStatus /\ u = w.key /\ w.key \in userHeld /\ Live(user[u])
    <3>1. pc' = "idle" /\ UNCHANGED userCache
      BY <2>2, LastStatusEffect DEF Ends, UserWriteFrame
    <3> QED
      BY <1>1, <2>2, <3>1 DEF HeldIsSeen, Live
  <2> QED
    BY <1>3, <2>1, <2>2, ReadyComesFrom
<1>4. ReadyIsSeen'
  BY <1>3 DEF ReadyIsSeen
<1> QED
  BY <1>2, <1>4, SeenParts

(* A ready User's account is touched by its ensuring passes alone, and     *)
(* they only ever complete it.                                             *)
LEMMA NextReady ==
    ASSUME Parts, OwnSecrets, OwnersInv, ProgressInv, SeenAlive, SolrObeys,
           "bring" \notin Disruptions, ReadyMeansLoginExists, [Next]_vars
    PROVE  ReadyMeansLoginExists'
<1> SUFFICES ASSUME NEW u \in Users, Ready(user'[u])
             PROVE  /\ Account(user[u].status.username)'
                    /\ Privileged(user[u].status.username)'
  BY DEF ReadyMeansLoginExists, Ready
<1>1. CASE OkStatus /\ user'[u].status.username = w.status.username
  <2>1. /\ pc = "okStatus" /\ UNCHANGED solrVars
        /\ w.ensure
    BY <1>1, LastStatusEffect
       DEF OkStatus, UserWriteFrame, Parts, WorkerInv, PassConsistent,
           EnsureLabels
  <2>2. /\ Login(Username, Password) /\ Privileged(Username)
        /\ w.status.username = Username
    BY <2>1 DEF ProgressInv, Progress, Provided
  <2>3. Account(w.status.username) /\ Privileged(w.status.username)
    BY <2>2 DEF Account, Login
  <2> QED
    BY <1>1, <2>1, <2>3 DEF Account, Login, Privileged, solrVars
<1>2. CASE /\ Ready(user[u])
           /\ user'[u].status.username = user[u].status.username
  <2>1. PICK n : n = user[u].status.username
    OBVIOUS
  <2>2. /\ Account(n) /\ Privileged(n) /\ n \in MayHave(u)
        /\ user'[u].status.username = n
    BY <1>2, <2>1 DEF ReadyMeansLoginExists, OwnersInv, Ready, Live
  <2>3. n \in Names
    BY <2>2 DEF Privileged
  <2>4. CASE UNCHANGED solrVars
    BY <2>2, <2>4 DEF Account, Login, Privileged, solrVars
  <2>5. CASE (Makes \/ Retires) /\ n # Username
    <3>1. account'[n] = account[n] /\ roles'[n] = roles[n]
      BY <2>3, <2>5, OnlyItsName, StepsByEffect
    <3> QED
      BY <2>2, <3>1 DEF Account, Login, Privileged
  <2>6. CASE Makes /\ n = Username
    <3>1. pc \in HadSecret
      BY <2>6, EnsureUserEffect, UpsertRolesEffect DEF Makes, HadSecret
    <3>2. Password \in Passwords
      BY <3>1, EnsuringPass DEF ProgressInv, Filled, SecretObj
    <3>3. \/ UNCHANGED account
          \/ account' = [account EXCEPT ![n] = Password]
      BY <2>6, EnsureUserEffect, UpsertRolesEffect DEF Makes
    <3>4. \/ UNCHANGED roles
          \/ roles' = [roles EXCEPT ![n] = w.roles \cup DefaultRoles]
      BY <2>6, EnsureUserEffect, UpsertRolesEffect DEF Makes
    <3>5. Account(n)'
      BY <2>2, <2>3, <3>2, <3>3 DEF Account, Login, Parts, SolrTypeOK
    <3>6. Privileged(n)'
      BY <2>2, <2>3, <3>4 DEF Privileged, Parts, SolrTypeOK
    <3> QED
      BY <2>2, <3>5, <3>6 DEF Account, Login, Privileged
  <2>7. CASE Retires /\ n = Username
    <3>1. pc # "idle" /\ ~w.ensure /\ w.key \in Users
      BY <2>7, RevokeRolesEffect, RevokeUserEffect
         DEF Retires, Parts, WorkerInv, PassConsistent
    <3>2. u # w.key
      BY <1>2, <3>1, SeenParts DEF ReadyIsSeen
    <3>3. Username \in MayHave(w.key)
      BY <3>1, UsernameIsOwn, OwnersParts
    <3> QED
      BY <2>2, <2>3, <2>7, <3>1, <3>2, <3>3, NamesApart, SolrAssumption
  <2> QED
    BY <2>4, <2>5, <2>6, <2>7, SolrChanges DEF SolrObeys
<1> QED
  BY <1>1, <1>2, ReadyComesFrom

LEMMA InitReady ==
    ASSUME Init
    PROVE  SeenAlive /\ ReadyMeansLoginExists
<1>1. \A u \in Users : user[u].status.Available # "ReconcileSuccess"
  BY ReasonsAssumption
     DEF Init, ApiInit, NewUser, BlankStatus, TrueReasons
<1>2. userHeld = {}
  BY DEF Init, ApiInit
<1> QED
  BY <1>1, <1>2 DEF SeenAlive, ReadyMeansLoginExists

(***************************************************************************)
(* Spec => []ReadyMeansLoginExists, when no two Users name the same        *)
(* secret, Solr refuses no request and is edited by nobody else, and       *)
(* people bring no secrets of their own.  Users may be applied again,      *)
(* passwords rotated, keys stripped and secrets removed; requests fail,    *)
(* passes crash and copies are stale.                                      *)
(***************************************************************************)
THEOREM ReadyLoginsExist ==
    ASSUME OwnSecrets,
           Excluded({"drift", "solrRefuse", "bring"})
    PROVE  Spec => []ReadyMeansLoginExists
<1>1. "bring" \notin Disruptions /\ SolrObeys
  BY ExcludedNeverHappens DEF Excluded, SolrObeys
<1> DEFINE I == /\ Parts /\ OwnersInv /\ ProgressInv
                /\ SeenAlive /\ ReadyMeansLoginExists
<1>2. Init => I
  BY InitParts, InitOwners, InitProgress, InitReady
<1>3. I /\ [Next]_vars => I'
  <2> SUFFICES ASSUME I, [Next]_vars
               PROVE  I'
    OBVIOUS
  <2>1. Parts' /\ OwnersInv' /\ ProgressInv'
    BY <1>1, NextParts, NextOwners, NextProgress
  <2>2. SeenAlive' /\ ReadyMeansLoginExists'
    BY <1>1, <2>1, NextSeen, NextReady
  <2> QED
    BY <2>1, <2>2
<1> QED
  BY <1>2, <1>3, PTL DEF Spec


-----------------------------------------------------------------------------
(***************************************************************************)
(* Nothing outlives its User.  QuietInv says where everything Solr knows   *)
(* is accounted for as long as there has been no disruption; a single one  *)
(* may end that, so that only steps without one are considered.            *)
(***************************************************************************)
Quiet == spent = 0

(* What a step spends, read off the call that it makes.                    *)
Spends == spent' \in {spent, spent + 1}

LEMMA CallsSpend ==
    ASSUME NEW o, NEW ok, NEW kind,
           Calm \/ Disrupt(kind) \/ Post(o) \/ ApiWrite(ok, o)
    PROVE  Spends
BY DEF Spends, Calm, Disrupt, Post, ApiWrite

LEMMA ReadsSpend ==
    ASSUME Parts, Checks \/ GetSecret
    PROVE  Spends
<1>1. CASE CheckExistence
  <2>1. Calm \/ Disrupt("solrError")
    BY <1>1, CheckExistenceEffect
  <2> QED
    BY <2>1, CallsSpend
<1>2. CASE CheckPassword
  <2>1. Calm \/ Disrupt("solrError")
    BY <1>2, CheckPasswordEffect
  <2> QED
    BY <2>1, CallsSpend
<1>3. CASE CheckRoles
  <2>1. Calm \/ Disrupt("solrError")
    BY <1>3, CheckRolesEffect
  <2> QED
    BY <2>1, CallsSpend
<1>4. CASE GetRoles
  <2>1. Calm \/ Disrupt("solrError")
    BY <1>4, GetRolesEffect
  <2> QED
    BY <2>1, CallsSpend
<1>5. CASE GetSecret
  <2>1. Calm \/ Disrupt("stale")
    BY <1>5, GetSecretEffect
  <2> QED
    BY <2>1, CallsSpend
<1> QED
  BY <1>1, <1>2, <1>3, <1>4, <1>5 DEF Checks

LEMMA PostsSpend ==
    ASSUME Parts, Makes \/ Retires
    PROVE  Spends
<1>1. CASE EnsureUser \/ UpdatePassword
  <2>1. PICK o \in Outcomes : Post(o)
    BY <1>1, EnsureUserEffect
  <2> QED
    BY <2>1, CallsSpend
<1>2. CASE UpsertRoles
  <2>1. PICK o \in Outcomes : Post(o)
    BY <1>2, UpsertRolesEffect
  <2> QED
    BY <2>1, CallsSpend
<1>3. CASE RevokeRoles
  <2>1. PICK o \in Outcomes : Post(o)
    BY <1>3, RevokeRolesEffect
  <2> QED
    BY <2>1, CallsSpend
<1>4. CASE RevokeUser
  <2>1. PICK o \in Outcomes : Post(o)
    BY <1>4, RevokeUserEffect
  <2> QED
    BY <2>1, CallsSpend
<1>5. CASE GetRoles
  BY <1>5, ReadsSpend DEF Checks
<1> QED
  BY <1>1, <1>2, <1>3, <1>4, <1>5 DEF Makes, Retires

LEMMA WritesSpend ==
    ASSUME Parts, CreateSecret \/ UpdateSecret \/ UserWrites
    PROVE  Spends
<1>1. CASE CreateSecret
  <2>1. PICK o \in Outcomes : ApiWrite(secret[S] = NONE, o)
    BY <1>1, CreateSecretEffect
  <2> QED
    BY <2>1, CallsSpend
<1>2. CASE UpdateSecret
  <2>1. PICK o \in Outcomes : ApiWrite(S \in secretHeld, o)
    BY <1>2, UpdateSecretEffect
  <2> QED
    BY <2>1, CallsSpend
<1>3. CASE UserWrites
  <2>1. PICK o : ApiWrite(w.key \in userHeld, o)
    BY <1>3, AddFinalizerEffect, InitStatusEffect, LastStatusEffect,
       RemoveFinalizerEffect DEF UserWrites
  <2> QED
    BY <2>1, CallsSpend
<1> QED
  BY <1>1, <1>2, <1>3

LEMMA QuietBefore ==
    ASSUME Parts, [Next]_vars, Quiet'
    PROVE  /\ Quiet
           /\ \A kind : ~Disrupt(kind)
<1>1. Spends
  <2>1. CASE Checks \/ Makes \/ Retires \/ GetSecret
    BY <2>1, ReadsSpend, PostsSpend
  <2>2. CASE CreateSecret \/ UpdateSecret \/ UserWrites
    BY <2>2, WritesSpend
  <2>3. CASE TakeKey
    BY <2>3 DEF TakeKey, ObjectGone, NoClient, Begin, vars, Spends, Calm,
                Disrupt
  <2>4. CASE Crash \/ UNCHANGED vars
    BY <2>4 DEF Crash, vars, Spends, Calm, Disrupt
  <2>5. CASE Environment
    <3>1. Calm \/ \E kind : Disrupt(kind)
      BY <2>5 DEF Environment, UserEdits, Informers, Apply, RequestDelete,
                  DropForeign, RotatePassword, StripSecret, DropSecret,
                  BringSecret, CloudChange, Deliver, Resync, SyncSecret,
                  DeliverSecretEvent, SyncCloud, DeliverCloudEvent, SolrDrift
    <3> QED
      BY <3>1, CallsSpend
  <2> QED
    BY <2>1, <2>2, <2>3, <2>4, <2>5, StepsByEffect DEF Next, Worker
<1>2. spent \in Nat
  BY DEF Parts
<1> QED
  BY <1>1, <1>2 DEF Quiet, Spends, Disrupt

(* QuietInv by its parts.                                                  *)
CopyCurrent == (pc # "idle" /\ w.secret # NONE) => S \in secretHeld

Traced(u, n) ==
    (OwnerOf[n] = u /\ InSolr(n)) =>
      /\ HasFinalizer(user[u])
      /\ \/ n = Published(u)
         \/ w.key = u /\ Making /\ n = w.secret.username

AllTraced == \A u \in Users, n \in Names : Traced(u, n)

LEMMA QuietParts ==
    /\ QuietInv <=>
         (Quiet => RolesInv /\ RetirementInv /\ CopyCurrent /\ AllTraced)
    /\ QuietInv' <=>
         (Quiet' => RolesInv' /\ RetirementInv' /\ CopyCurrent' /\ AllTraced')
BY DEF QuietInv, Quiet, CopyCurrent, AllTraced, Traced

LEMMA NextCopyCurrent ==
    ASSUME Parts, CopyCurrent, \A kind : ~Disrupt(kind), [Next]_vars
    PROVE  CopyCurrent'
<1>1. CASE Checks \/ Makes \/ Retires \/ UserWrites \/ UpdateSecret
  <2>1. \/ Ends
        \/ \E st : FailsWith(st)
        \/ \E label, st : GoesOnTo(label, st)
    BY <1>1, CheckExistenceEffect, CheckPasswordEffect, CheckRolesEffect,
       GetRolesEffect, EnsureUserEffect, UpsertRolesEffect,
       RevokeRolesEffect, RevokeUserEffect, AddFinalizerEffect,
       InitStatusEffect, LastStatusEffect, RemoveFinalizerEffect,
       UpdateSecretEffect
       DEF Checks, Makes, Retires, UserWrites, Provides, Revokes
  <2>2. pc # "idle"
    BY <1>1, OnlyItsName, StepsByEffect
  <2> QED
    BY <2>1, <2>2 DEF Ends, FailsWith, GoesOnTo, CopyCurrent, S
<1>2. CASE GetSecret
  <2>1. /\ w.secret = NONE /\ S \notin secretLag
        /\ \/ /\ Fills(secretCache[S])
              /\ secretHeld' = {S} \ secretLag
           \/ \E label, st : GoesOnTo(label, st)
    BY <1>2, GetSecretEffect
  <2> QED
    BY <2>1 DEF CopyCurrent, Fills, GoesOnTo, S
<1>3. CASE CreateSecret
  <2>1. /\ w.secret = NONE
        /\ \/ Fills(EmptySecret) /\ secretHeld' = {S}
           \/ \E st : FailsWith(st)
    BY <1>3, CreateSecretEffect
  <2> QED
    BY <2>1 DEF CopyCurrent, Fills, FailsWith, GoesOnTo, Ends, NoWork, S
<1>4. CASE \E u \in Users : Begin(u)
  BY <1>4, BeginEffect DEF CopyCurrent
<1>5. CASE (\E u \in Users : ObjectGone(u) \/ NoClient(u)) \/ UNCHANGED vars
           \/ Environment
  <2>1. UNCHANGED <<pc, w, secretHeld>>
    BY <1>5 DEF ObjectGone, NoClient, vars, apiVars, secretVars, workVars,
                Environment, UserEdits, Informers, Apply, RequestDelete,
                DropForeign, EditUser, RotatePassword, StripSecret,
                DropSecret, BringSecret, CloudChange, Deliver, Resync,
                SyncSecret, DeliverSecretEvent, SyncCloud, DeliverCloudEvent
  <2> QED
    BY <2>1 DEF CopyCurrent, S
<1>6. CASE Crash
  BY <1>6 DEF Crash
<1> QED
  BY <1>1, <1>2, <1>3, <1>4, <1>5, <1>6, StepsByEffect
     DEF Next, Worker, TakeKey

(* What Solr gets to know of a User's names, the pass makes.               *)
LEMMA NewInSolr ==
    ASSUME Parts, OwnersInv, \A kind : ~Disrupt(kind), [Next]_vars,
           NEW u \in Users, NEW n \in Names, OwnerOf[n] = u,
           InSolr(n)', ~InSolr(n)
    PROVE  Makes /\ w.key = u /\ Making /\ n = w.secret.username
<1>1. Makes
  <2>1. CASE UNCHANGED solrVars
    BY <2>1 DEF InSolr, solrVars
  <2>2. CASE Retires
    BY <2>2, RevokeRolesEffect, RevokeUserEffect
       DEF Retires, InSolr, Parts, SolrTypeOK
  <2> QED
    BY <2>1, <2>2, SolrChanges
<1>2. pc \in HadSecret /\ pc # "idle"
  BY <1>1, EnsureUserEffect, UpsertRolesEffect DEF Makes, HadSecret
<1>3. /\ w.ensure /\ w.secret # NONE /\ Username = w.secret.username
      /\ Making
  BY <1>2, EnsuringPass DEF Making
<1>4. n = Username
  BY <1>1, OnlyItsName, StepsByEffect DEF InSolr
<1>5. n \in MayHave(w.key)
  BY <1>2, <1>4, UsernameIsOwn, OwnersParts
<1>6. w.key = u
  BY <1>5, SolrAssumption, UserApiAssumption DEF MayHave
<1> QED
  BY <1>1, <1>3, <1>4, <1>6

(* The steps of a pass that is making an account, with no disruption.      *)
LEMMA MakingSteps ==
    ASSUME Parts, \A kind : ~Disrupt(kind), [Next]_vars, Making
    PROVE  UNCHANGED <<pc, w>> \/ UpdateSecret \/ Checks \/ Makes
<1>1. /\ pc \in Observing \cup HadSecret /\ w.ensure /\ w.secret # NONE
  BY DEF Making
<1>2. CASE Retires \/ GetSecret \/ CreateSecret
  BY <1>1, <1>2, RevokeRolesEffect, RevokeUserEffect, GetSecretEffect,
     CreateSecretEffect DEF Retires
<1>3. CASE UserWrites
  <2>1. pc \in {"addFinalizer", "initStatus", "okStatus", "failStatus",
                "removeFinalizer"}
    BY <1>3, AddFinalizerEffect, InitStatusEffect, LastStatusEffect,
       RemoveFinalizerEffect DEF UserWrites
  <2> QED
    BY <1>1, <2>1 DEF Observing, HadSecret
<1>4. CASE Crash \/ \E u \in Users : Begin(u)
  BY <1>1, <1>4, BeginEffect DEF Crash, Observing, HadSecret
<1> QED
  BY <1>2, <1>3, <1>4, WorkerChanges, StepsByEffect

LEMMA MakingGoesOn ==
    ASSUME Parts, \A kind : ~Disrupt(kind), Making, Checks \/ Makes
    PROVE  /\ UNCHANGED <<user, secret>>
           /\ \E label, st :
                /\ GoesOnTo(label, st)
                /\ \/ label \in Observing \cup HadSecret
                   \/ label = "okStatus" /\ ~w.dirty
<1>1. w.ensure
  BY DEF Making
<1>2. UNCHANGED <<user, secret>>
  BY CheckExistenceEffect, CheckPasswordEffect, CheckRolesEffect,
     GetRolesEffect, EnsureUserEffect, UpsertRolesEffect
     DEF Checks, Makes, kubernetesVars
<1>3. \A st : \/ AfterUser(st) \in HadSecret
              \/ AfterUser(st) = "okStatus" /\ ~w.dirty
  BY DEF AfterUser, AfterRoles, HadSecret
<1>4. AfterRoles \in HadSecret \/ (AfterRoles = "okStatus" /\ ~w.dirty)
  BY DEF AfterRoles, HadSecret
<1>5. CASE CheckExistence
  <2>1. \E label, st : GoesOnTo(label, st) /\ label \in {"checkUser", "hasRoles"}
    BY <1>5, CheckExistenceEffect
  <2> QED
    BY <1>2, <2>1 DEF Observing
<1>6. CASE CheckPassword
  <2>1. \E label, st : GoesOnTo(label, st) /\ label = "hasRoles"
    BY <1>6, CheckPasswordEffect
  <2> QED
    BY <1>2, <2>1 DEF Observing
<1>7. CASE CheckRoles
  <2>1. \E st : Provides(st)
    BY <1>1, <1>7, CheckRolesEffect
  <2> QED
    BY <1>2, <1>3, <2>1 DEF Provides, HadSecret
<1>8. CASE GetRoles
  <2>1. \E label, st : GoesOnTo(label, st) /\ label = "upsertRoles"
    BY <1>8, GetRolesEffect
  <2> QED
    BY <1>2, <2>1 DEF HadSecret
<1>9. \A o : Post(o) => ~Failed(o)
  BY DEF Post, Failed
<1>10. CASE EnsureUser \/ UpdatePassword
  <2>1. \E st : GoesOnTo(AfterUser(st), st)
    BY <1>9, <1>10, EnsureUserEffect
  <2> QED
    BY <1>2, <1>3, <2>1
<1>11. CASE UpsertRoles
  <2>1. \E st : GoesOnTo(AfterRoles, st)
    BY <1>9, <1>11, UpsertRolesEffect
  <2> QED
    BY <1>2, <1>4, <2>1
<1> QED
  BY <1>5, <1>6, <1>7, <1>8, <1>10, <1>11 DEF Checks, Makes

(* A pass publishes what it makes.                                         *)
LEMMA MadeIsPublished ==
    ASSUME Parts, SecretInv, CleanCopy, CopyCurrent,
           \A kind : ~Disrupt(kind), [Next]_vars, Making,
           NEW n \in Names, n = w.secret.username
    PROVE  /\ w'.key = w.key
           /\ \/ Making' /\ w'.secret = w.secret
              \/ Published(w.key)' = n
<1>1. /\ pc # "idle" /\ w.secret # NONE /\ w.ensure /\ S \in secretHeld
      /\ w.key \in Users /\ S = SecretOf[w.key] /\ S \in Secrets
  BY PassMaking, UserApiAssumption
     DEF Making, Observing, HadSecret, CopyCurrent, S
<1>2. secret[S] # NONE
  BY <1>1 DEF SecretInv
<1>3. CASE UpdateSecret
  <2>1. PICK o \in Outcomes :
          /\ GoesOnTo("okStatus", w.status)
          /\ ApiWrite(S \in secretHeld, o)
          /\ secret' = IF Applied(o) THEN [secret EXCEPT ![S] = w.secret]
                       ELSE secret
    BY <1>3, UpdateSecretEffect
  <2>2. Applied(o)
    BY <1>1, <2>1 DEF ApiWrite, Applied
  <2>3. secret'[S] = w.secret
    BY <1>1, <2>1, <2>2 DEF Parts, SecretStored
  <2>4. w'.key = w.key
    BY <2>1 DEF GoesOnTo
  <2> QED
    BY <1>1, <2>3, <2>4 DEF Published, SecretFor
<1>4. CASE Checks \/ Makes
  <2>1. PICK label, st :
          /\ GoesOnTo(label, st) /\ UNCHANGED secret
          /\ \/ label \in Observing \cup HadSecret
             \/ label = "okStatus" /\ ~w.dirty
    BY <1>4, MakingGoesOn
  <2>2. CASE label \in Observing \cup HadSecret
    BY <1>1, <2>1, <2>2 DEF Making, GoesOnTo
  <2>3. CASE label = "okStatus" /\ ~w.dirty
    <3>1. secret[S].username = n
      BY <1>1, <2>3 DEF CleanCopy
    <3>2. w'.key = w.key
      BY <2>1 DEF GoesOnTo
    <3> QED
      BY <1>1, <1>2, <2>1, <3>1, <3>2 DEF Published, SecretFor
  <2> QED
    BY <2>1, <2>2, <2>3
<1>5. CASE UNCHANGED <<pc, w>>
  BY <1>5 DEF Making
<1> QED
  BY <1>3, <1>4, <1>5, MakingSteps

LEMMA PublishedStays ==
    ASSUME Parts, SecretInv, \A kind : ~Disrupt(kind), [Next]_vars,
           NEW u \in Users, Published(u) # NONE
    PROVE  Published(u)' = Published(u)
<1>1. SecretOf[u] \in Secrets
  BY UserApiAssumption
<1>2. CASE UNCHANGED secret
  BY <1>2 DEF Published, SecretFor
<1>3. CASE CreateSecret \/ UpdateSecret
  <2>1. pc' # pc
    BY <1>3, CreateSecretEffect, UpdateSecretEffect
       DEF FailsWith, GoesOnTo, Ends, Fills
  <2>2. KeepsCredentials(SecretOf[u])
    BY <1>1, <2>1, NextSecret DEF WorkerSteps
  <2> QED
    BY <2>2 DEF KeepsCredentials, Published, SecretFor
<1>4. CASE \E s \in Secrets : \/ RotatePassword(s) \/ StripSecret(s)
                              \/ DropSecret(s) \/ BringSecret(s)
  BY <1>4 DEF RotatePassword, StripSecret, DropSecret, BringSecret
<1> QED
  BY <1>2, <1>3, <1>4, SecretChanges

LEMMA NextTraced ==
    ASSUME Parts, SecretInv, FinalizerInv, OwnersInv, CleanCopy,
           RetirementInv, CopyCurrent, AllTraced,
           ForeignFinalizers = {},
           \A kind : ~Disrupt(kind), [Next]_vars
    PROVE  AllTraced'
<1> SUFFICES ASSUME NEW u \in Users, NEW n \in Names,
                    OwnerOf[n] = u, InSolr(n)'
             PROVE  /\ HasFinalizer(user'[u])
                    /\ \/ n = Published(u)'
                       \/ w'.key = u /\ Making' /\ n = w'.secret.username
  BY DEF AllTraced, Traced
<1>1. CASE ~InSolr(n)
  <2>1. Makes /\ w.key = u /\ Making /\ n = w.secret.username
    BY <1>1, NewInSolr
  <2>2. UNCHANGED user
    BY <2>1, MakingGoesOn
  <2>3. HasFinalizer(user[u])
    <3>1. Provisioning
      BY <2>1 DEF Making, Provisioning, Observing, HadSecret
    <3>2. w.key \in OnlyOurs
      BY <2>1 DEF OnlyOurs
    <3> QED
      BY <2>1, <3>1, <3>2
         DEF FinalizerInv, ProvisioningGuarded, HasFinalizer
  <2> QED
    <3>1. /\ w'.key = w.key
          /\ (Making' /\ w'.secret = w.secret) \/ Published(w.key)' = n
      BY <2>1, MadeIsPublished
    <3> QED
      BY <2>1, <2>2, <2>3, <3>1 DEF Published, SecretFor, HasFinalizer
<1>2. CASE InSolr(n)
  <2>1. /\ HasFinalizer(user[u])
        /\ \/ n = Published(u)
           \/ w.key = u /\ Making /\ n = w.secret.username
    BY <1>2 DEF AllTraced, Traced
  <2>2. HasFinalizer(user'[u])
    <3> SUFFICES ASSUME ~HasFinalizer(user'[u])
                 PROVE  FALSE
      OBVIOUS
    <3>1. pc = "removeFinalizer" /\ u = w.key /\ ~w.ensure
      BY <2>1, FinalizerComesOff
    <3>2. n = Published(u) /\ n # NONE
      BY <2>1, <3>1, SolrAssumption DEF Making
    <3>3. KnowsName /\ SoFarRetired
      BY <3>1, RetirementParts DEF Retiring
    <3>4. Username = n
      BY <3>1, <3>2, <3>3 DEF KnowsName, Username
    <3> QED
      BY <1>2, <3>1, <3>3, <3>4 DEF SoFarRetired, NoRoles, NoAccount, InSolr
  <2>3. CASE n = Published(u)
    BY <2>2, <2>3, PublishedStays, SolrAssumption
  <2>4. CASE w.key = u /\ Making /\ n = w.secret.username
    <3>1. /\ w'.key = w.key
          /\ (Making' /\ w'.secret = w.secret) \/ Published(w.key)' = n
      BY <2>4, MadeIsPublished
    <3> QED
      BY <2>2, <2>4, <3>1 DEF Published, SecretFor
  <2> QED
    BY <2>1, <2>3, <2>4
<1> QED
  BY <1>1, <1>2

LEMMA NextQuiet ==
    ASSUME Parts, SecretInv, FinalizerInv, OwnersInv, LostInv, QuietInv,
           ForeignFinalizers = {}, [Next]_vars
    PROVE  QuietInv'
<1> SUFFICES ASSUME Quiet'
             PROVE  RolesInv' /\ RetirementInv' /\ CopyCurrent' /\ AllTraced'
  BY QuietParts
<1>1. Quiet /\ \A kind : ~Disrupt(kind)
  BY QuietBefore
<1>2. RolesInv /\ RetirementInv /\ CopyCurrent /\ AllTraced
  BY <1>1, QuietParts
<1>3. RolesInv' /\ RetirementInv'
  BY <1>1, <1>2, NextRoles, NextRetirement DEF Undisturbed
<1>4. CopyCurrent'
  BY <1>1, <1>2, NextCopyCurrent
<1>5. AllTraced'
  BY <1>1, <1>2, NextTraced DEF LostInv
<1> QED
  BY <1>3, <1>4, <1>5

LEMMA InitQuiet ==
    ASSUME Init
    PROVE  QuietInv
<1>1. RolesInv /\ RetirementInv
  BY InitRetirement
<1>2. CopyCurrent /\ AllTraced
  BY DEF Init, SolrInit, CopyCurrent, AllTraced, Traced, InSolr
<1> QED
  BY <1>1, <1>2, QuietParts

(***************************************************************************)
(* Spec => []GoneUsersHaveNoAccounts, when no two Users name the same      *)
(* secret and none has another finalizer: until the first disruption of    *)
(* any kind, whatever the interleaving of passes, informers and deletion   *)
(* requests, a User that is gone has left nothing behind in Solr.          *)
(***************************************************************************)
THEOREM GoneUsersLeaveNothing ==
    ASSUME OwnSecrets, ForeignFinalizers = {}
    PROVE  Spec => []GoneUsersHaveNoAccounts
<1> DEFINE I == /\ Parts /\ SecretInv /\ FinalizerInv
                /\ OwnersInv /\ LostInv /\ QuietInv
<1>1. Init => I
  BY InitParts, InitFinalizer, InitOwners, InitLost, InitQuiet
     DEF Init, ApiInit, SecretInv
<1>2. I /\ [Next]_vars => I'
  <2> SUFFICES ASSUME I, [Next]_vars
               PROVE  I'
    OBVIOUS
  <2>1. Parts' /\ SecretInv' /\ OwnersInv' /\ LostInv'
    BY NextParts, NextSecret, NextOwners, NextLost
  <2>2. FinalizerInv'
    BY <2>1, NextFinalizer
  <2>3. QuietInv'
    BY NextQuiet
  <2> QED
    BY <2>1, <2>2, <2>3
<1>3. I => GoneUsersHaveNoAccounts
  <2> SUFFICES ASSUME I, spent = 0, NEW u \in Users, NEW n \in Names,
                      user[u] = NONE, OwnerOf[n] = u
               PROVE  account[n] = NONE /\ roles[n] = {}
    BY DEF GoneUsersHaveNoAccounts
  <2>1. Traced(u, n) /\ ~HasFinalizer(user[u])
    BY QuietParts DEF Quiet, AllTraced, HasFinalizer
  <2> QED
    BY <2>1 DEF Traced, InSolr
<1> QED
  BY <1>1, <1>2, <1>3, PTL DEF Spec
=============================================================================
