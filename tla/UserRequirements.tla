-------------------------- MODULE UserRequirements --------------------------
(***************************************************************************)
(* What the user controller has to get right.                              *)
(***************************************************************************)
EXTENDS UserController, FiniteSets

SecretFor(u) == secret[SecretOf[u]]

(* The username a reader of the user's secret finds there.                 *)
Published(u) == IF SecretFor(u) = NONE THEN NONE ELSE SecretFor(u).username

(* What Solr itself makes of a login, whatever the client's checks say.    *)
Login(n, p) == n \in Names /\ p \in Passwords /\ account[n] = p

Account(n) == \E p \in Passwords : Login(n, p)

Privileged(n) == n \in Names /\ DefaultRoles \subseteq roles[n]

WorkerSteps == pc' # pc

-----------------------------------------------------------------------------
(* Every variable has its type, in every state the controller, its caches  *)
(* and the other writers can bring about.                                  *)
TypeOK ==
    /\ spent \in 0 .. MaxDisruptions
    /\ SolrTypeOK
    /\ ApiTypeOK
    /\ pc \in Labels
    /\ w \in Work

(***************************************************************************)
(* The finalizer comes first.  Whenever a pass is under way that may       *)
(* create a secret, an account or roles, the stored User exists and has    *)
(* our finalizer, so that its deletion cannot complete without a deleting  *)
(* pass.  The pass decides on a cached object that may be arbitrarily old. *)
(* This is said of the Users that nobody else puts a finalizer on.         *)
(***************************************************************************)
OnlyOurs == Users \ ForeignFinalizers

Provisioning == w.ensure /\ pc \notin {"idle", "addFinalizer"}

ProvisioningGuarded ==
    (Provisioning /\ w.key \in OnlyOurs) =>
      user[w.key] # NONE /\ user[w.key].finalizer

(***************************************************************************)
(* The finalizer's promise (FinalizerLifecycle), which the collection      *)
(* controller gives too: objects pass from new over guarded and retiring   *)
(* to absent, whatever copy the passes decide on, and the worker begins on *)
(* none that is not guarded and lets none go that it is at work on.  It is *)
(* given for Users without another finalizer, which would keep them when   *)
(* ours is off.                                                            *)
(***************************************************************************)
Phase(obj) ==
    CASE obj = NONE                   -> "absent"
      [] obj # NONE /\ obj.deleting   -> "retiring"
      [] Live(obj) /\ obj.finalizer   -> "guarded"
      [] Live(obj) /\ ~obj.finalizer  -> "new"

Lifecycle ==
    INSTANCE FinalizerLifecycle WITH
      Objects <- OnlyOurs,
      NOBODY  <- NONE,
      phase   <- [u \in OnlyOurs |-> Phase(user[u])],
      busy    <- IF Provisioning /\ w.key \in OnlyOurs THEN w.key ELSE NONE

LifecycleRefined == Lifecycle!LifecycleSpec

(***************************************************************************)
(* The secret is written last.  Credentials a live user's secret shows are *)
(* credentials Solr accepts, with all the default roles, whatever request  *)
(* failed, wherever the manager crashed and however old the cached secret  *)
(* was.  (Nobody else edits the secret or Solr.)                           *)
(***************************************************************************)
PublishedCredentialsWork ==
    \A u \in Users :
      (Live(user[u]) /\ Published(u) # NONE) =>
        /\ Login(Published(u), SecretFor(u).password)
        /\ Privileged(Published(u))

(***************************************************************************)
(* A live User whose Available condition says "Successfully reconciled;    *)
(* ready to go!" names in its status an account that exists and has all    *)
(* the default roles.                                                      *)
(***************************************************************************)
ReadyMeansLoginExists ==
    \A u \in Users :
      (Live(user[u]) /\ user[u].status.Available = "ReconcileSuccess") =>
        /\ Account(user[u].status.username)
        /\ Privileged(user[u].status.username)

(***************************************************************************)
(* A pass that fails between making an account and publishing it leaves    *)
(* the account behind, and the next pass makes another.  Only a disruption *)
(* can cause that, and each causes it once: the accounts that are neither  *)
(* published nor those of the pass under way are never more than the       *)
(* disruptions there have been.                                            *)
(***************************************************************************)
Orphans ==
    {n \in Names : account[n] # NONE}
      \ ({Published(u) : u \in Users} \cup {Username})

OrphansPaidFor == Cardinality(Orphans) <= spent

(***************************************************************************)
(* Nothing outlives its User in a system that has not been disturbed: once *)
(* the object is gone, so is every account made for it.  Deletion may be   *)
(* requested at any moment of any pass, and the cached User may be stale.  *)
(***************************************************************************)
GoneUsersHaveNoAccounts ==
    spent = 0 =>
      \A u \in Users, n \in Names :
        (user[u] = NONE /\ OwnerOf[n] = u) => account[n] = NONE /\ roles[n] = {}

(***************************************************************************)
(* The operator never takes back or replaces a username or password that   *)
(* stands in a stored secret, whoever put it there and however stale the   *)
(* copy it fills in: a worker's step only adds to secrets.                 *)
(***************************************************************************)
KeepsCredentials(s) ==
    secret[s] # NONE =>
      /\ secret'[s] # NONE
      /\ \A key \in {"username", "password"} :
           secret[s][key] # NONE => secret'[s][key] = secret[s][key]

CredentialsStable == [][WorkerSteps => \A s \in Secrets : KeepsCredentials(s)]_vars

(***************************************************************************)
(* The finalizer goes on objects nobody has asked to delete and comes off  *)
(* objects whose deletion was requested, judged by the stored object and   *)
(* not by the copy the pass was decided on.                                *)
(***************************************************************************)
HasFinalizer(obj) == obj # NONE /\ obj.finalizer

FollowsDeletion(u) ==
    /\ (~HasFinalizer(user[u]) /\ HasFinalizer(user'[u])) => Live(user[u])
    /\ (HasFinalizer(user[u]) /\ ~HasFinalizer(user'[u])) => user[u].deleting

FinalizerFollowsDeletion == [][\A u \in Users : FollowsDeletion(u)]_vars

(***************************************************************************)
(* When the finalizer comes off, the account the secret shows and its      *)
(* roles are gone from Solr: retries, errors whose request was applied and *)
(* crashes between the two posts and the update do not get around it.      *)
(***************************************************************************)
FinalizerRemovalRetiresPublished ==
    [][\A u \in Users :
         (HasFinalizer(user[u]) /\ ~HasFinalizer(user'[u])
            /\ Published(u) # NONE) =>
           account[Published(u)] = NONE /\ roles[Published(u)] = {}]_vars

(***************************************************************************)
(* With a secret of its own for each User, a pass touches the accounts of  *)
(* the User it was started for and of nobody else.                         *)
(***************************************************************************)
OwnAccountsOnly ==
    [][WorkerSteps =>
         \A n \in Names :
           (account'[n] # account[n] \/ roles'[n] # roles[n]) =>
             OwnerOf[n] \in {w.key, "human"}]_vars

-----------------------------------------------------------------------------
(***************************************************************************)
(* Why the safety properties hold: invariants that every step preserves.   *)
(***************************************************************************)
HadSecret ==
    {"createUser", "updateUser", "getRoles", "upsertRoles", "updateSecret"}

Observing == {"checkExistence", "checkUser", "hasRoles"}

BeforeSecret == {"idle", "addFinalizer", "initStatus", "getSecret", "createSecret"}

(* A pass is for a user and goes through the steps of its kind; it has no  *)
(* secret at first, and a name to ensure once it has one.                  *)
PassConsistent ==
    /\ pc # "idle" => w.key \in Users
    /\ pc \in EnsureLabels => w.ensure
    /\ pc \in DeleteLabels => ~w.ensure
    /\ pc \in HadSecret \/ (pc \in Observing /\ (w.ensure \/ w.secret # NONE)) =>
         w.secret # NONE /\ w.secret.username # NONE
    /\ pc \in BeforeSecret => w.secret = NONE

(* A copy that is not behind is the stored object; a copy the worker holds *)
(* is a copy of an object that is there, and only the pass's own.          *)
CopiesConsistent ==
    /\ \A u \in Users \ userLag : userCache[u] = user[u]
    /\ \A s \in Secrets \ secretLag : secretCache[s] = secret[s]
    /\ userHeld \subseteq {w.key}
    /\ \A u \in userHeld : user[u] # NONE

(* Objects that are being deleted are there because of a finalizer.        *)
Held(obj) == obj # NONE /\ obj.deleting => obj.finalizer \/ obj.foreign

NothingOverdue == \A u \in Users : Held(user[u]) /\ Held(userCache[u])

TypeInv == TypeOK /\ PassConsistent /\ CopiesConsistent /\ NothingOverdue

(* The cached User may be old, but not so old as to mistake whether our    *)
(* finalizer is on an object that is to be kept.                           *)
Kept(obj) == Live(obj) /\ obj.finalizer

Foreign(obj) == obj # NONE /\ obj.foreign

CachesTellFinalizers ==
    \A u \in OnlyOurs :
      /\ ~Foreign(user[u]) /\ ~Foreign(userCache[u])
      /\ Kept(userCache[u]) => HasFinalizer(user[u])
      /\ Kept(user[u]) => userCache[u] = NONE \/ ~userCache[u].deleting

FinalizerInv ==
    /\ CachesTellFinalizers
    /\ ProvisioningGuarded
    /\ w.key \in OnlyOurs =>
         /\ (pc # "idle" /\ ~w.ensure) =>
              /\ ~Kept(userCache[w.key]) /\ ~Kept(user[w.key])
              /\ w.key \in userHeld => user[w.key].deleting
         /\ (pc = "addFinalizer" /\ w.key \in userHeld) =>
              Live(user[w.key]) /\ userCache[w.key] = user[w.key]

(* While an Update by the pass would be accepted, the stored User is still *)
(* what the pass took it for: one to delete, or one to keep.               *)
DeletionInv ==
    /\ (pc # "idle" /\ ~w.ensure /\ w.key \in userHeld) => user[w.key].deleting
    /\ (pc = "addFinalizer" /\ w.key \in userHeld) => Live(user[w.key])

(* The copy of the secret that an Update would be accepted with contains   *)
(* everything the stored one does.                                         *)
Adds(new, old) ==
    /\ new # NONE
    /\ \A key \in {"username", "password"} : old[key] # NONE => new[key] = old[key]

SecretInv ==
    /\ pc \in BeforeSecret => secretHeld = {}
    /\ \A s \in secretHeld : s = S /\ secret[s] # NONE /\ Adds(w.secret, secret[s])

-----------------------------------------------------------------------------
(* The usernames a User may have to do with: those generated for it and,   *)
(* where people bring secrets, those people choose.                        *)
MayHave(u) ==
    {NONE} \cup {n \in Names : \/ OwnerOf[n] = u
                               \/ "bring" \in Disruptions /\ OwnerOf[n] = "human"}

OwnSecrets == \A u, v \in Users : SecretOf[u] = SecretOf[v] => u = v

(* Whoever mentions a name - status, secret, caches, the pass under way -   *)
(* mentions one of its own.                                                *)
OwnersInv ==
    /\ \A u \in Users : \A obj \in {user[u], userCache[u]} :
         obj # NONE => obj.status.username \in MayHave(u)
    /\ \A u \in Users : \A sec \in {SecretFor(u), secretCache[SecretOf[u]]} :
         sec # NONE => sec.username \in MayHave(u)
    /\ pc # "idle" =>
         /\ w.status.username \in MayHave(w.key)
         /\ w.secret # NONE => w.secret.username \in MayHave(w.key)

(***************************************************************************)
(* The accounts that are lost, or will be when the pass under way ends: a  *)
(* pass is still going to publish its name while its copy of the secret is *)
(* current (Safe), and can only lose the account it makes when it is not   *)
(* (AtRisk).                                                               *)
(***************************************************************************)
Making == w.ensure /\ w.secret # NONE /\ pc \in Observing \cup HadSecret

Safe == IF Making /\ S \in secretHeld THEN {w.secret.username} ELSE {}

AtRisk == IF Making /\ S \notin secretHeld THEN {w.secret.username} ELSE {}

Lost ==
    ({n \in Names : account[n] # NONE} \cup AtRisk)
      \ ({Published(u) : u \in Users} \cup Safe)

(* A copy that needs no update shows the name the stored secret shows.     *)
CleanCopy ==
    (w.secret # NONE /\ S \in secretHeld /\ ~w.dirty) =>
      secret[S].username = w.secret.username

LostInv ==
    /\ CleanCopy
    /\ IsFiniteSet(Lost)
    /\ Cardinality(Lost) <= spent

(***************************************************************************)
(* What a deleting pass has achieved at each of its steps, for the name    *)
(* the secret shows.  Roles come and go as a whole, so that a check for    *)
(* the default roles finds every role there is.                            *)
(***************************************************************************)
NoAccount(n) == n \in Names => account[n] = NONE

NoRoles(n) == n \in Names => roles[n] = {}

RolesInv == \A n \in Names : roles[n] = {} \/ Privileged(n)

RetirementInv ==
    (~w.ensure /\ pc \notin {"idle", "getSecret"}) =>
      /\ Published(w.key) # NONE =>
           w.secret # NONE /\ w.secret.username = Published(w.key)
      /\ (/\ pc \in {"checkUser", "hasRoles", "deleteRoles"}
          /\ ~IsTrue(w.status.Exists)) => NoAccount(Username)
      /\ pc = "deleteUser" => NoRoles(Username)
      /\ pc = "removeFinalizer" => NoRoles(Username) /\ NoAccount(Username)

(***************************************************************************)
(* What an ensuring pass has achieved at each of its steps.                *)
(***************************************************************************)
Provided == {"getRoles", "upsertRoles", "updateSecret", "okStatus"}

Filled == w.secret # NONE => w.secret.password # NONE

Progress ==
    w.ensure =>
      /\ pc = "hasRoles" /\ IsTrue(w.status.Exists)
           /\ IsTrue(w.status.PasswordUpToDate) => Login(Username, Password)
      /\ pc \in {"createUser", "updateUser"} /\ IsTrue(w.status.HasRoles) =>
           Privileged(Username)
      /\ pc \in Provided => /\ Login(Username, Password)
                            /\ w.status.username = Username
      /\ pc \in {"updateSecret", "okStatus"} => Privileged(Username)

ProgressInv == Filled /\ Progress

(* Copies of a secret with the same username have the same password.       *)
Complete(sec) == sec # NONE => (sec.username # NONE => sec.password # NONE)

Agree(a, b) ==
    (a # NONE /\ b # NONE) =>
      ((a.username # NONE /\ a.username = b.username) => a.password = b.password)

PasswordsInv ==
    /\ \A s \in Secrets : /\ Complete(secret[s])
                          /\ Complete(secretCache[s])
                          /\ Agree(secret[s], secretCache[s])
    /\ pc # "idle" => /\ Agree(w.secret, secret[S])
                      /\ Agree(w.secret, secretCache[S])

(* A deleting pass, or a cached User that would start one, is for a User   *)
(* that is not live.                                                       *)
RetiredInv ==
    /\ \A u \in Users :
         (userCache[u] # NONE /\ userCache[u].deleting) => ~Live(user[u])
    /\ (pc # "idle" /\ ~w.ensure) => ~Live(user[w.key])

(* While an Update by the pass would be accepted, the cache shows whether  *)
(* the User is being deleted; and a User that says it is ready has been    *)
(* seen alive, so that no deleting pass is under way or about to begin.    *)
SeenAlive ==
    /\ w.key \in userHeld =>
         /\ userCache[w.key] # NONE
         /\ userCache[w.key].deleting = user[w.key].deleting
    /\ \A u \in Users :
         (Live(user[u]) /\ user[u].status.Available = "ReconcileSuccess") =>
           /\ userCache[u] # NONE
           /\ ~userCache[u].deleting
           /\ (pc # "idle" /\ w.key = u) => w.ensure

(***************************************************************************)
(* As long as nothing has disturbed the system, whatever Solr knows of a   *)
(* User's names is under the name its secret shows, or about to be, and    *)
(* our finalizer is on the User.                                           *)
(***************************************************************************)
InSolr(n) == account[n] # NONE \/ roles[n] # {}

QuietInv ==
    spent = 0 =>
      /\ RolesInv
      /\ RetirementInv
      /\ (pc # "idle" /\ w.secret # NONE) => S \in secretHeld
      /\ \A u \in Users, n \in Names :
           (OwnerOf[n] = u /\ InSolr(n)) =>
             /\ HasFinalizer(user[u])
             /\ \/ n = Published(u)
                \/ w.key = u /\ Making /\ n = w.secret.username

-----------------------------------------------------------------------------
(* The user is provisioned: the status says so, the secret is complete and *)
(* current, and Solr accepts what it shows.                                *)
Provisioned(u) ==
    /\ user[u].status.Available = "ReconcileSuccess"
    /\ SecretFor(u) # NONE
    /\ Published(u) # NONE
    /\ user[u].status.username = Published(u)
    /\ SecretFor(u).endpoint = cloud
    /\ Login(Published(u), SecretFor(u).password)
    /\ Privileged(Published(u))

(***************************************************************************)
(* What will start another pass for the User.                              *)
(***************************************************************************)
PassDue(u) ==
    \/ u \in queue \cup userLag
    \/ \E s \in secretEvent : u \in Watching(s)
    \/ cloudEvent /\ u \in WatchingCloud

(***************************************************************************)
(* The end of a pass whose update of the secret has failed, which is only  *)
(* logged (user_controller.go:439), when the status it is about to write   *)
(* is the one that is there: the key is not requeued, no event follows,    *)
(* and nothing else is on its way.                                         *)
(***************************************************************************)
FailsUnnoticed(u) ==
    /\ pc = "okStatus" /\ w.key = u
    /\ w.dirty /\ SecretFor(u) # w.secret
    /\ Live(user[u])
    /\ user[u].status = [w.status EXCEPT !.Available = "ReconcileSuccess"]
    /\ ~PassDue(u)

(***************************************************************************)
(* A User that stays and is not deleted, in a cluster whose SolrCloud      *)
(* stays, is provisioned in the end and remains so, whatever requests      *)
(* failed, wherever the manager crashed and however often the SolrCloud    *)
(* moved - unless a failed update of the secret goes unnoticed, which      *)
(* leaves the User as it is until the resync.                              *)
(***************************************************************************)
StaysProvisioned ==
    \A u \in Users :
      (<>[](Live(user[u]) /\ cloud # NONE) /\ []~FailsUnnoticed(u))
        => <>[](Live(user[u]) /\ Provisioned(u))

(***************************************************************************)
(* A deletion completes, unless another finalizer or the absence of the    *)
(* SolrCloud prevents it.                                                  *)
(***************************************************************************)
DeletionCompletes ==
    \A u \in Users :
      (user[u] # NONE /\ user[u].deleting /\ ~user[u].foreign /\ cloud # NONE)
        ~> (user[u] = NONE \/ cloud = NONE)

(***************************************************************************)
(* A password put into the secret reaches Solr.  "Solr appears up-to-date  *)
(* with password from spec'd secret." (user_controller.go:682)             *)
(***************************************************************************)
RotationPropagates ==
    \A u \in Users : \A p \in Passwords :
      <>[](Live(user[u]) /\ Published(u) # NONE /\ SecretFor(u).password = p)
        => []<>(Login(Published(u), p))

-----------------------------------------------------------------------------
(* Statements the code makes about itself which its behaviour contradicts. *)

(***************************************************************************)
(* "Delete the user." (user_controller.go:128), "Delete the user (if it    *)
(* exists)." (user_controller.go:465): once the deleting pass is through   *)
(* with a User and has taken our finalizer off, the account that its       *)
(* status names, and that is gone from Solr, is not made again.            *)
(***************************************************************************)
Released(u) == user[u] # NONE /\ user[u].deleting /\ ~user[u].finalizer

RetiredStaysRetired ==
    [][\A u \in Users, n \in Names :
         (Released(u) /\ user[u].status.username = n /\ account[n] = NONE) =>
           account'[n] = NONE]_vars

(***************************************************************************)
(* "Ready; expected keys exist." (user_controller.go:629), asserted        *)
(* together with the secret's keys at user_controller_test.go:131 and 140: *)
(* a User that is Available has a secret with all its keys.                *)
(***************************************************************************)
ReadyMeansPublished ==
    \A u \in Users :
      (Live(user[u]) /\ user[u].status.Available = "ReconcileSuccess") =>
        /\ SecretFor(u) # NONE
        /\ \A key \in {"username", "password", "endpoint"} :
             SecretFor(u)[key] # NONE
=============================================================================
