# Specifications of the Solr operator's controllers

`solr-operator-operator` is a Kubernetes operator: it watches `User` and
`Collection` objects and makes a Solr cluster (run by the Apache Solr operator
as a `SolrCloud`) and some secrets and config maps agree with them. This
directory holds TLA+ modules of it, TLC configurations that model-check them,
and proofs that TLAPS checks. Source paths below are relative to `src/`.

Both controllers are modelled, each with everything it talks to, and both are
shown to implement one abstract specification of what a finalizer promises.

## The system

| Part | State it keeps | Operations |
|---|---|---|
| User controller, `internal/controller/user_controller.go` | nothing between passes; within one: the User and secret it read, the status it is composing | `Reconcile` → `reconcileUser` → `getSecret`, `reconcileSecret`, `reconcileObserveUser`; the two mapping functions of `SetupWithManager` |
| Solr client, `internal/controller/solr/solr.go` | none of its own; works on Solr's `security.json` (accounts, role assignments) and its list of collections | `CheckUserExistence`, `CheckUser`, `CreateUser`, `UpdateUser`, `DeleteUser`, `HasRoles`, `UpsertRoles`, `DeleteRoles`, `CollectionExists`, `DeleteCollection` |
| Client factory, `internal/controller/solr_awareness.go` | none | `getClient`: finds the SolrCloud and its admin secret, captures the address |
| Collection controller, `internal/controller/collection_controller.go` | nothing between passes | `Reconcile` → `observeCollection`, `updateCollection`, `deleteCollection` |
| API types, `api/v1alpha1/` | User and Collection: spec, finalizers, status conditions, generated name | – |
| Manager, `cmd/main.go` | caches, watches, work queues, one worker per controller (all from controller-runtime) | start, leader election, restart |

How they interact. A pass (`Reconcile`) is started by a key in the work queue.
Keys come from the User informer, from metadata-only watches on secrets and
SolrClouds through the mapping functions, and from a pass that returned an
error. A pass reads Kubernetes objects *from caches*, observes Solr by GETs,
changes Solr by POSTs, and writes the User, its status and the secret to the
API server with optimistic concurrency. The username it generates exists only
in memory until the secret is written, which happens after the account and its
roles have been made: a reader of the secret must find credentials that work.
A finalizer keeps a deleted User around until its account is gone.

The collection controller makes no collections: it chooses a name, publishes it
in a config map, and an *application* creates the collection under the name it
reads there. The operator deletes the collection when the Collection object is
deleted and its removal policy says so. The name is written by two requests,
into the config map and then into the status; applications go by the first,
deletion by the second. Config maps are read through a cache but not watched.

The controllers run in one process and talk to one Solr, but share no object,
no queue and no state in Solr (accounts and roles here, the list of collections
there), so no module composes them: what they have in common are the client
factory, the crash of the process, and the finalizer protocol.

What is hard here:

* every cached copy may be behind, and the informer that *enqueues* a secret
  or a SolrCloud (metadata only) is not the one that *serves* it;
* a pass makes up to eleven requests to two servers; any may fail, may fail
  and still have taken effect, or the process may die between two of them;
* users, people and the garbage collector edit and delete the objects while a
  pass is on its way;
* some failures are swallowed: the secret's update
  (`user_controller.go:437-441`), and every POST that Solr answers with an
  error status (`solr.go:102`);
* after a pass nothing happens until some event requeues the key, so a missed
  one is a state that stays wrong; nothing at all reports a change of a config
  map;
* the owner reference of a config map is set in memory, by the pass that
  created it, and reaches the API server only with the name.

`PROJECT.json` lists each place with the property that covers it ("hazards").

What makes each part correct:

* **User controller.** Provisioning only under a finalizer; nothing published
  that does not work; nothing said to be ready that is not; credentials in a
  secret are never replaced; deletion leaves no account behind; a pass touches
  its own user's accounts only; and in the end, after failures, a User that
  stays is provisioned (unless a failed update of its secret goes unnoticed), a
  deleted one goes away, and a rotated password reaches Solr.
* **Solr client.** Each operation is one request (`UpsertRoles`: two) and
  reports errors for what it was meant to notice.
* **Client factory, watches.** A change of the SolrCloud's address reaches the
  secrets.
* **Collection controller.** One name per Collection, the same in the status and
  in the config map, and kept; the collection is deleted from Solr when, and
  only when, the removal policy says so; the config map goes with its
  Collection; a Collection that stays becomes ready, and a deletion completes.
* **Finalizer protocol** (both). Whatever is made outside an object is made
  while the finalizer keeps the object, and the object does not go while the
  worker is at it.

## The modules

| Module | Models | Corresponds to |
|---|---|---|
| `Faults` | what disturbs the system and how often; outcomes of a request | – |
| `ApiServer` | finalizers and optimistic concurrency | `k8s.io/apiserver`, as the code relies on it |
| `FinalizerLifecycle` | the abstract specification: what the finalizer promises | the finalizer blocks of both `Reconcile`s |
| `SolrClient` | accounts and role assignments in Solr, one operator per HTTP request | `solr/solr.go` |
| `UserApi` | stored User and Secret objects and the SolrCloud, caches, events, queue, other writers | types, mapping functions, and the controller-runtime behaviour the code relies on |
| `UserController` | the worker: one action per request of a pass | `user_controller.go`, `solr_awareness.go` |
| `UserRequirements` | the properties, the inductive invariants, the refinement mapping | – |
| `MCUserController` | model values for TLC | – |
| `UserControllerProofs` | theorems: types, finalizer, credentials are kept | – |
| `UserAccountProofs` | theorems: whose accounts, and how many are lost | – |
| `UserCredentialProofs` | theorems: credentials work while shown and are retired with the User | – |
| `LifecycleProofs` | theorem: the user controller implements `FinalizerLifecycle` | – |
| `FinalizerLifecycleProofs` | a theorem about the abstract specification | – |
| `SolrCollections` | Solr's list of collections, LIST and DELETE | `solr/solr.go` |
| `CollectionApi` | stored Collections and config maps, caches, queue, people, applications, the garbage collector | types, `SetupWithManager`, and controller-runtime |
| `CollectionController` | the worker: one action per request of a pass | `collection_controller.go` |
| `CollectionRequirements` | the properties, the inductive invariants, the refinement mapping | – |
| `MCCollectionController` | model values for TLC | – |
| `CollectionProofs` | theorems: types, finalizer, what is deleted | – |
| `CollectionNamesProofs` | theorems about names | – |
| `CollectionLifecycleProofs` | theorem: the collection controller implements `FinalizerLifecycle` | – |

```
Faults ── SolrClient ──────┐
          ApiServer ───────┴ UserApi ─ UserController ─ UserRequirements ─┬ MCUserController
                                                                          └ UserControllerProofs ─┬ LifecycleProofs
                                                                                                  └ UserAccountProofs ─ UserCredentialProofs
Faults ── SolrCollections ─┐
          ApiServer ───────┴ CollectionApi ─ CollectionController ─ CollectionRequirements ─┬ MCCollectionController
                                                                                            └ CollectionProofs ─┬ CollectionNamesProofs
                                                                                                                └ CollectionLifecycleProofs

FinalizerLifecycle ─ FinalizerLifecycleProofs;
  instantiated by UserRequirements and CollectionRequirements
```

### The user controller

**The worker.** `pc` names the request the pass makes next, `w` holds what the
code has in local variables. What Go computes between two requests is part of
the action of the earlier request.

| Action | Code in `user_controller.go` |
|---|---|
| `ObjectGone`, `NoClient`, `Begin` | the Get of the User, `getClient`, and the choice between the branches (86-128) |
| `AddFinalizer`, `InitStatus` | 100-124 |
| `GetSecret`, `CreateSecret` | `getSecret` (179-242), with `reconcileSecret` following in the same step |
| `CheckExistence`, `CheckPassword`, `CheckRoles` | `reconcileObserveUser`'s three GETs; the last is followed by `reconcileUser`'s choice |
| `EnsureUser`, `UpdatePassword`, `GetRoles`, `UpsertRoles`, `UpdateSecret` | the ensuring half of `reconcileUser` |
| `RevokeRoles`, `RevokeUser`, `RemoveFinalizer` | the deleting half, and 134-140 |
| `OkStatus`, `FailStatus` | the two final status updates (143-168) |
| `Crash` | the process dies between any two requests and is restarted |

**The API server.** Resource versions are not counted. What the code depends on
is whether a copy is current, so `userLag`/`secretLag` are the objects whose
cached copy is behind and `userHeld`/`secretHeld` those of which the worker's
copy is at the stored version; an `Update` succeeds exactly with a held copy
(`ApiWrite`). `Create` succeeds when the name is free. An object that is being
deleted disappears with its last finalizer (`Reaped`).

**Caches and events.** `Deliver` refreshes the User cache and enqueues.
For secrets `DeliverSecretEvent` enqueues (through `Watching`, the mapping
function) and `SyncSecret` refreshes what Get returns, in any order; likewise
`DeliverCloudEvent` and `SyncCloud`. A key that is in the queue while its pass
runs is taken again afterwards, as the work queue does it.

**Solr.** `account` and `roles` are `security.json`'s `credentials` and
`user-role`. Outcomes of a POST: *done*, *refused* (Solr answers with an error
status, which `doPostRequest` does not look at), *failed*, and *lost* (an error
for the caller although Solr did it).

### The collection controller

State is split in the same way. A pass keeps its key, its local copy of the
status, and whether it created the config map it is about to update.

| Action | Code in `collection_controller.go` |
|---|---|
| `ObjectGone`, `CannotDelete`, `Begin` | the Get of the Collection, the choice between the branches (69-119), and the errors of `deleteCollection` that precede its first request |
| `AddFinalizer`, `InitStatus` | 85-112 |
| `Observe` | `observeCollection` and `checkMapStatus` (190-274), and the choice after them (131-148) |
| `CreateMap` | `updateCollection` without a config map (284-302), then the name (314-336) |
| `GetMap` | `updateCollection` with one: the second read (303-310), then the name |
| `UpdateMap` | 338-353: name and owner reference in one request |
| `UpdateStatus` | 154-177 |
| `CheckExists`, `DeleteFromSolr` | `deleteCollection` (364-381) |
| `RemoveFinalizer` | 121-126 |
| `Crash` | the process dies between any two requests and is restarted |

When the config map is available there is nothing left for `updateCollection`
to do, since `checkMapStatus` makes that condition from the other two; the
branch at 139-144 is dead code and has no action.

Around the worker, `ApplicationCreates` is an application that creates the
collection a config map names, `owner` and `dangling` are what the garbage
collector (`CollectMap`) goes by, and people may change the policy of a
Collection, bring, rename and drop config maps, and apply a Collection again
under the name of one that is gone (not while a pass for the old one is under
way). They take names of their own or the one in the status, and do not give
one Collection's name to another.

### What both have in common

**Disruptions.** Each failed request, crash, stale read and edit by hand is a
`Disrupt(kind)`; a configuration says which kinds it admits and how many of
them a behaviour may contain. Several properties count on this: "nothing leaks
in an undisturbed system" is `spent = 0 => …`.

**The abstract specification.** In `FinalizerLifecycle` an object is *absent*,
*new*, *guarded* by the finalizer or *retiring*, and a worker may be *busy* with
one object: it begins only on a guarded or retiring one, and `Release`, the step
that lets an object go, is possible only while nobody is at work on it. There
are no caches, versions or failing requests in it. Each controller implements
it under this mapping (`Lifecycle` in the two requirements modules):

| abstract | concrete |
|---|---|
| `phase[o]` | of the *stored* object: NONE; live without the finalizer; live with it; deletion requested |
| `busy` | the key of the pass, from the moment it may make a secret, an account or a config map to its end |
| `Guard`, `Work`, `Stop` | `AddFinalizer`; `Begin`; the end of the pass, or a crash |
| `Retire`, `Release`, `Appear` | a request for deletion; `RemoveFinalizer`; apply |

All other steps stutter. The point of it is that a pass decides on a *cached*
object and the abstract worker on the real one: that the two agree rests on
optimistic concurrency and on nobody else taking the finalizer off. It is
claimed for objects without another finalizer. With one, the object stays after
ours is off, the next pass ensures it again, and the claim is false
(`bug_resurrection` is what comes of it).

## Properties and runs

| Run | What may happen | Checks |
|---|---|---|
| `user_core` | one user; two of: failed requests, crash, stale reads | `ProvisioningGuarded`, `PublishedCredentialsWork`, `ReadyMeansLoginExists`, `OrphansPaidFor`, `LifecycleRefined` |
| `user_any` | one of every kind of disruption there is, another finalizer, a secret brought by hand, two addresses | `TypeOK`, `CredentialsStable`, `FinalizerFollowsDeletion` |
| `user_pair` | two users with a secret each, all interleavings, deletion at any time | `GoneUsersHaveNoAccounts`, `OwnAccountsOnly` |
| `user_live` | fair; two of: failed requests, crash, the SolrCloud moves, goes or comes; then a failed update of the secret | `FinalizerRemovalRetiresPublished`, `StaysProvisioned`, `DeletionCompletes` |
| `user_edits_live` | fair; passwords rotated, keys stripped, secrets deleted | `StaysProvisioned`, `DeletionCompletes`, `RotationPropagates` |
| `collection_any` | two of every kind of disruption there is, another finalizer | `TypeOK`, `FinalizerFollowsDeletion`, `DeletesOnlyRetired` |
| `collection_live` | fair; two of: failed requests, crash, SolrCloud gone or back, policy changed, collection dropped by an application | `ReadyNamesAgree`, `LifecycleRefined`, `NamesAreKept`, `FinalizerRemovalDeletes`, `CollectionBecomesReady`, `DeletionCompletes`, `MapGoesWithCollection` |
| `bug_…` (five) | the least that is needed | one property each, violated |

In words (the exact statements are in `UserRequirements`), for Users:

* `ProvisioningGuarded` – while a pass may create anything, the stored User has
  our finalizer, however old the cached User it was decided on. This holds only
  because an `Update` with an old copy is refused, and it is said only of Users
  that nobody else puts a finalizer on (see *Findings*).
* `PublishedCredentialsWork` – a username in a live user's secret is one Solr
  accepts, with the password next to it and all default roles.
* `ReadyMeansLoginExists` – `Available = True` means the account in the status
  exists and has its roles.
* `OrphansPaidFor` – accounts that are neither published nor those of the pass
  under way are at most as many as the disruptions so far: retries do not leak
  by themselves. They do leak one account per failure between making the
  account and writing the secret.
* `CredentialsStable` – a worker's step never takes back or changes a username
  or password in a stored secret.
* `FinalizerFollowsDeletion` – judged by the *stored* object.
* `FinalizerRemovalRetiresPublished` – when the finalizer comes off, the
  account the secret shows is gone. Checked without stale reads; with one it is
  false (see *Observations*).
* `GoneUsersHaveNoAccounts` – in an undisturbed system nothing made for a User
  survives it.
* `OwnAccountsOnly` – with a secret each, passes for one User do not touch
  another's accounts.
* `StaysProvisioned` – a User that stays, in a cluster whose SolrCloud stays, is
  provisioned in the end and remains so, unless a pass ends in `FailsUnnoticed`:
  its update of the secret has failed, the status it writes is the one that is
  there, and nothing else is due to start another pass. The condition names the
  one way in which the code gives up (see *Observations*); how many requests
  fail otherwise does not matter.
* `DeletionCompletes`, `RotationPropagates` – what else has to happen in the
  end.

For Collections (`CollectionRequirements`):

* `ReadyNamesAgree` – a Collection that says it is Ready has a name in its
  config map, and it is the one in the status.
* `NamesAreKept` – the operator does not replace a name in a config map, which
  an application may have read, on whatever retry or restart.
* `FinalizerRemovalDeletes` – with policy delete, when the finalizer comes off,
  the collection the *status* names is not in Solr. (That the one the *config
  map* names is gone is what the documentation promises, and false:
  `bug_collection_kept`.)
* `DeletesOnlyRetired` – nothing is deleted from Solr but for a Collection whose
  deletion was requested and whose stored policy is delete, as long as the copy
  the pass decided on is current.
* `FinalizerFollowsDeletion` – as for Users.
* `CollectionBecomesReady`, `DeletionCompletes` – what has to happen in the end.
* `MapGoesWithCollection` – in an undisturbed system, a config map the operator
  made is collected after its Collection has gone.

For both, `LifecycleRefined` is the refinement above.

Every one of these can be broken: `PROJECT.json` names for each property of
each passing run a mutant of a definition (`RouteToSecret`, `FailSwallowed`,
`AfterRolesInverted`, `CheckMapExists`, `DeleteIgnoringErrors`, …, defined next to what they replace) under which TLC
finds it violated.

### Findings

What the code says of itself and does not do:

* `bug_resurrection`: a deleted User with a second finalizer loses ours after
  its account is deleted; that very update causes another pass, which finds a
  deleted User without our finalizer, falls through to the *ensuring* branch
  (`user_controller.go:126-143`) and makes the account again: `RetiredStaysRetired`
  is violated. No fault is needed. The same branch makes a first account for a
  User whose deletion is requested before any pass has put our finalizer on. In
  either case no later pass takes the deleting branch, so the account stays when
  the other finalizer goes: with `ForeignFinalizers = {u1}`
  `GoneUsersHaveNoAccounts` is false.
* `bug_ready_unpublished`: a failed update of the secret is logged only, and
  the User becomes `Available` with an empty secret. Normally the status update
  that follows changes something, and its event retries; when it does not, the
  retry comes with the ten-hour resync (see *Observations*).
* `bug_refused_post`: Solr refuses to create the account or assign the roles;
  the User becomes `Available`.
* `bug_map_namespace`: the namespace of a Collection's config-map reference is
  optional, but unlike those of secrets and SolrClouds it is not defaulted
  (183, 287). Every pass finds nothing, every creation is refused, and the error
  is only logged.
* `bug_collection_kept`: the deletion of a Collection is requested after its
  name was published and before it is noted in the status. The status update
  conflicts, the deleting pass finds no name (358) and removes the finalizer,
  and the collection that an application has created stays although the policy
  says delete. No fault is needed.

### Observations

The following behaviours contradict no document, or only in spirit; they are
not runs, but each is one change of a configuration away.

* *The username is lost with the secret.* A provisioned User whose secret is
  deleted (`"dropSecret"` in `user_edits_live`) gets a new name, since
  `reconcileSecret` generates one before the status's name, which the comment
  at `user_controller.go:326` speaks of, is looked at. The old account stays.
* *A stale secret on deletion.* A deleting pass that reads the secret as it was
  before its keys were filled in (`"stale"` in `user_live`) removes the
  finalizer and leaves the account: `FinalizerRemovalRetiresPublished` fails.
* *A lost rotation.* With `"stale"` in `user_edits_live` the event of a
  rotation may be delivered before its content; the pass sees the old password
  and nothing starts another before the resync, ten hours by default, while
  the status says that Solr is up-to-date.
* The mapping functions compare the namespace *written* in the reference
  (744, 770) while reads default it: with `NsExplicit = {}` `RotationPropagates`
  is false.
* Two Users may name one secret; they then share one account, which goes with
  the first of them. Two Collections may name one config map, and then share
  one collection.
* *A second failure goes unnoticed, for Users.* The SolrCloud's address changes
  and the secret's update fails in the pass this causes and again in the next:
  the second pass finds the status as the first has left it and starts no third.
  The secret shows the old address until the resync. These are the three
  disruptions of `user_live`; without the condition on `FailsUnnoticed`
  `StaysProvisioned` is false there, and with it true.
* *And for Collections.* A failed creation or update of the config map is only
  logged (`collection_controller.go:148`). The next pass comes from the status
  update's own event; when that update changes nothing, because the
  previous pass failed in the same way, there is no next pass until the resync.
  `CollectionBecomesReady` is therefore claimed for at most one disruption.
* A Collection applied again while the config map of its predecessor still
  exists takes over the name and becomes Ready; then the garbage collector
  deletes the map, which is not watched (`"apply"` in `collection_live`).
* An owner reference whose request fails (`"apiError"`) is never set by a later
  pass, and the config map outlives the Collection.
* The config map is read twice by a pass (193, 303), and a name that appears
  in between is overwritten (`"rename"`, or `"stale"`).
* A deleting pass that still sees a deleted predecessor may delete the
  collection of its successor (a lost answer to the removal of the finalizer,
  then `"apply"`): `DeletesOnlyRetired` is about current
  copies.

## Bounds

* **One user, one secret** (`user_pair`: two). One worker makes one pass at a
  time, and users meet only in the queue, in Solr by name, and in a shared
  secret; `user_pair` covers the first two.
* **Names.** Three or four per user: the one published, those of passes that
  failed before publishing (at most one per disruption), and the one the next
  pass chooses. An unmentioned name counts as new, so no behaviour runs out of
  names within the bound.
* **One Collection, one config map**, four or five names that can be generated
  and one that people choose, for the same reasons. Collections meet only in
  the queue, or in a config map they share. `MapOf`, `OwnNamespace` and the
  policies are constants or edits, so that more are a matter of configuration.
* **Passwords.** One where only presence matters, two where a rotation or
  regeneration must be told apart.
* **Two roles**, so that a user can have some but not all of the default roles.
* **`MaxDisruptions`** 2 in `user_core`, the collection runs and
  `user_edits_live`: one disruption leaves something half done, a second meets
  the recovery. `user_live` has 3, the third being a failed update of the secret
  (`MCThird`), so that the case `FailsUnnoticed` excepts does occur.
  `user_any` has 1 but of any kind. `user_pair` has 0 because its question is about an undisturbed
  system; its interleavings come from two users, caches that lag (a pass on a
  lagging User is no disruption) and deletion.
* `"stale"` is the kind of reads of the *secret*, *SolrCloud* and *config map*
  caches that are behind. Reads of a lagging User or Collection are always
  possible.
* Symmetry (names of one user, passwords) is used in safety runs only. In the
  fair runs `Generate` picks one fixed unused name instead, unused names being
  all alike, and `MCFairSpec` fixes the SolrCloud's first address, endpoints
  being all alike too.
* `CHECK_DEADLOCK FALSE` everywhere: the operator comes to rest when there is
  nothing to do and the bound on disruptions is spent.

## Fairness

`FairSpec` assumes (`UserController!Fairness`):

* the worker goes on with a pass it has begun. The goroutine is never
  descheduled for ever; but the HTTP client has no timeout
  (`solr.go:101`), so this includes that both servers answer, if only with an
  error. A server that accepts connections and never answers stops the operator
  and is outside the liveness claims;
* a key in the queue is taken again and again. Weak fairness is not enough for
  `Begin`: another key's pass disables it. The work queue is first-in
  first-out per key, with back-off, hence strong fairness;
* informers deliver events and refresh caches;
* the garbage collector gets to every config map whose owner is gone.

Nothing is assumed of people, of applications, of faults, or of the resync. The liveness
properties are conditional accordingly ("a User that stays and is not deleted,
in a cluster whose SolrCloud stays").

## Proofs

Every safety property that a passing run checks, and both refinements, are
theorems of the specification: proved for any sets of users, collections,
secrets, config maps, names and passwords, any number of disruptions, and any
generator of names. What they assume of the constants is named where the
constants are declared:

* `DisruptionsAssumption`, `SolrAssumption`, `NamesAssumption`,
  `UserApiAssumption`, `CollectionApiAssumption`: what the constants are, and
  that the default roles are roles, that a generated name was not in use, and
  that "human", the owner of the names people choose, is no User;
* `ReasonsAssumption`, `ObjectAssumption`: the absent value is neither a
  condition's reason nor an object.

A *hypothesis* of a theorem is a restriction of the behaviours, as opposed to
the values. Three kinds occur: `OwnSecrets` and `OwnMaps` (no two objects name
the same secret or config map; nothing in the code sees to that),
`ForeignFinalizers = {}`, and `Excluded({...})`, which lists kinds of
disruptions that do not happen. The kinds are those of `PROJECT.json`'s runs
and are defined where they are spent, in `UserApi`, `CollectionApi` and the
controllers.

### Users

| Theorem | Says | Hypotheses |
|---|---|---|
| `TypeInvariant`, `TypeCorrect` | `Spec => []TypeInv`, `Spec => []TypeOK` | |
| `CredentialsAreStable` | `Spec => CredentialsStable` | |
| `DeletionIsFollowed` | `Spec => FinalizerFollowsDeletion` | |
| `OrphansArePaidFor` | `Spec => []OrphansPaidFor` | |
| `FinalizerComesFirst` | `Spec => []ProvisioningGuarded` | |
| `LifecycleIsImplemented` | `Spec => LifecycleRefined` | |
| `OwnAccountsAreTouched` | `Spec => OwnAccountsOnly` | `OwnSecrets` |
| `ReadyLoginsExist` | `Spec => []ReadyMeansLoginExists` | `OwnSecrets`; without *drift, solrRefuse, bring* |
| `ShownCredentialsWork` | `Spec => []PublishedCredentialsWork` | `OwnSecrets`; without *drift, solrRefuse, rotate, strip, bring, apply* |
| `PublishedAreRetired` | `Spec => FinalizerRemovalRetiresPublished` | without *stale, solrRefuse, drift, bring* |
| `GoneUsersLeaveNothing` | `Spec => []GoneUsersHaveNoAccounts` | `OwnSecrets`, no other finalizers |

(*drift*: somebody edits Solr; *solrRefuse*: a POST answered with an error
status; *stale*: a secret read that is behind; *rotate*, *strip*, *bring*:
people change a password, remove keys, bring a secret of their own; *apply*: a
User is applied again.) The excluded kinds are all needed: TLC finds the
property violated when any one of them is admitted beside the kinds that are
left (with *bring* it takes four disruptions to break
`FinalizerRemovalRetiresPublished`, and two users who bring the same name to
break `ReadyMeansLoginExists`). The runs check less than the theorems say:
`user_core` has one user and four kinds.

None of these statements is inductive; the invariants, all in
`UserRequirements`, are these.

* **`TypeInv`** adds to the types that the pass is consistent with the step it
  is at (`PassConsistent`: there is a secret with a username whenever one is
  used), that current copies equal the stored objects (`CopiesConsistent`), and
  that an object being deleted is kept by some finalizer (`NothingOverdue`).
  The proof works with `Parts`, the same formula cut by component, so that an
  action's lemma opens only what the action touches. The lemmas on writes
  (`PutUserType`, `WriteUserType`, …) are shared by all actions.
* **`FinalizerInv`** bounds how wrong an old cached User can be: if the cache
  shows a live User with our finalizer, the stored one still has it, because
  only a deleting pass takes it off; and a deleting pass implies that neither
  the cached nor the stored User is one to keep. It is stated of the Users
  without another finalizer (`OnlyOurs`): of one with another finalizer it is
  false, by the resurrection above. `FinalizerComesFirst` and
  `LifecycleIsImplemented` therefore need no hypothesis; they speak of those
  Users, whatever the others carry.
* **`SecretInv`**: while an `Update` of the secret would be accepted, the
  stored secret has nothing the pass's copy lacks or shows differently. Any
  edit by somebody else ends that, since it makes the copy old.
* **`DeletionInv`**: likewise, while an `Update` of the User would be accepted,
  the stored User still is what the pass took it for, one to delete or one to
  give a finalizer. Here other finalizers are allowed.
* **`OwnersInv`** follows a name through everything that mentions it: status,
  secret, the caches of both, the pass. Each mentions names of its own User
  only, since a name is generated for the User of the pass and only ever copied
  between objects of that User.
* **`LostInv`** counts. The accounts nobody can find any more are not the right
  set to count, because a pass makes the account first and publishes it last,
  and may be doomed in between. `Lost` adds the name a pass with an outdated
  copy of the secret is about to make an account for (`AtRisk`), and takes away
  the name one with a current copy is going to publish (`Safe`). A step then
  adds at most one name to `Lost`, and only if it spends a disruption (`Paid`);
  `CleanCopy` covers the pass that has nothing to publish.
* **`RolesInv`, `RetirementInv`** say what a deleting pass has achieved at each
  step for the name the secret shows. A check for *the default roles* finds
  every role there is, because roles come and go as a whole: the code's
  decision at `user_controller.go:455` depends on that.
* **`ProgressInv`** says the same of an ensuring pass: from the observation that
  an account is there, or the request that makes it, until the secret is
  written. **`PasswordsInv`** adds that copies of a secret that show the same
  name show the same password, and **`RetiredInv`** that the account of a live
  User is in no danger from a deleting pass. `PublishedCredentialsWork` is
  proved inductive together with these three and `OwnersInv`.
* **`SeenAlive`** is what lets the status be trusted: a User that says it is
  ready has been seen alive by the cache, so that no deleting pass for a
  predecessor is under way or about to begin. It is needed because a User may be
  applied again here.
* **`QuietInv`** accounts for everything Solr knows of a User's names until the
  first disruption: it is under the name the secret shows, or the one a pass is
  about to publish there, and our finalizer is on the User. Its step takes
  `RetirementInv` for the deleting pass, `FinalizerInv` for the ensuring one,
  and `CleanCopy` for the pass that finds its secret already written.
* **The refinement** needs no invariant of its own. `FinalizerInv` says what the
  stored User is when a pass begins, puts the finalizer on or takes it off, and
  a lemma per action (`…Refines`) names the abstract step it is; all of them
  rest on seven lemmas (`Abstract…`) that are the abstract actions in terms of
  the mapping, so that nothing else opens the instance.

In `UserControllerProofs` there is one lemma per action or group of actions and
invariant (`PassStep…`, `Environment…`, `Crash…`, combined in `Next…`). The
later modules have many invariants that look at the same few effects of a step.
They start from one `…Effect` lemma per request of a pass, which says what the
step reads, writes and where the pass goes next, in a handful of shapes
(`Ends`, `FailsWith`, `GoesOnTo`, `Fills`), and never open an action again.

### Collections

| Theorem | Says | Hypotheses |
|---|---|---|
| `CollectionTypeInvariant`, `CollectionTypeCorrect` | `Spec => []TypeInv`, `Spec => []TypeOK` | |
| `CollectionDeletionIsFollowed` | `Spec => FinalizerFollowsDeletion` | |
| `OnlyRetiredAreDeleted` | `Spec => DeletesOnlyRetired` | |
| `CollectionLifecycleIsImplemented` | `Spec => LifecycleRefined` | |
| `NamesStayAsPublished` | `Spec => NamesAreKept` | without *stale, bring, rename* |
| `ReadyMeansPublished` | `Spec => []ReadyNamesAgree` | `OwnMaps`; without *stale, bring, rename, dropMap, apply* |
| `NamesAreNotShared` | `Spec => []NamesInv` | `OwnMaps`; without *bring, rename* |
| `RemovalFollowsDeletion` | `Spec => FinalizerRemovalDeletes` | `OwnMaps`; without *bring, rename, lateApplication* |

(*bring*, *rename*, *dropMap*: people bring a config map, change or remove the
name in one, delete one; *stale*: a config map read that is behind;
*lateApplication*: an application creates a collection after the deletion of
the Collection was requested.) All of them are about a specification in which a
Collection is applied again only while no pass for its predecessor is under way
(`Environment`). The invariants, in `CollectionRequirements`:

* **`TypeInv`**, **`DeletionInv`**, **`FinalizerInv`** are to Collections what
  they are to Users. `FinalizerInv` is stated of the Collections without another
  finalizer, so that the refinement has no hypothesis: what another controller
  puts on one Collection does not disturb what is promised of the others.
  `DeletionInv` includes the policy: the pass goes by the policy it read, and
  while its copy is current that is the stored one.
* **`MapNameInv`**: when a name is about to be written into a config map that
  the pass holds a current copy of, there is none in it.
* **`ReadyInv`** relates the two writes of the name: **`AvailabilityInv`** says
  that a pass about to call the config map available has seen, or written, the
  name its status will show, and **`OwnersInv`** that a config map is only
  collected after its owner has gone, so that what is called available stays.
* **`NamesInv`** – one Collection per name, in maps, statuses, all copies of
  both and the pass – is what makes deletion by name safe: the application of
  one Collection cannot bring back the collection another pass has just
  deleted.
* **`RetirementInv`**: a deleting pass with a current copy goes by the name in
  the stored status, and when it is about to take the finalizer off, no
  collection of that name is left.

### The abstract specification

`WorkStaysGuarded` (`FinalizerLifecycleProofs`): `LifecycleSpec =>
[]WorkIsGuarded`. By the two refinements both controllers inherit it.

### Only model-checked

Liveness: `StaysProvisioned`, `DeletionCompletes` (both), `RotationPropagates`,
`CollectionBecomesReady`, `MapGoesWithCollection`. Their proofs would need
ENABLED of the fair actions, which TLAPS does not handle. The five violated
statements are counterexamples and need no proof.

## What is abstracted

* A status condition is its reason; the reason determines True/False/Unknown.
  Messages, timestamps and `observedGeneration` are left out. A status update
  with the same reasons makes no new version and causes no event; in the code a
  differing message would cause one more pass.
* `SecretEndpointHostname` is set and checked together with `SecretEndpoint`.
* The secret's keys may be renamed in the spec; the model has fixed ones. A key
  is present or absent, not empty.
* Names and passwords are compared, never built. A name carries the User it was
  generated for (`OwnerOf`), as `user--<namespace>--<name>--…` does. Random
  suffixes do not collide with names in use.
* Passwords are hashed by Solr; equality of hashes stands for equality of
  passwords.
* A cache that is behind jumps to the stored version, skipping those between.
* One SolrCloud for all Users; its address, and NONE for "it or its admin
  secret is missing".
* One flag (`NsExplicit`) for both references of a User.
* `Get` from a cache fails only with NotFound.
* Owner references of secrets: the garbage collector's deletion of a secret is
  `DropSecret`. Those of config maps are modelled (`owner`, `dangling`); that an
  object applied again has another UID than its predecessor is what `dangling`
  stands for.
* The removal policy is *delete*, *retain* or *other*; the API accepts any
  string. A config map has the one key the code looks at.
* A generated collection name collides with none in use: four random bytes.

## Not modelled

* The handover between two leaders: manifests run one replica with leader
  election; an old leader's last requests could overlap a new leader's first
  pass. How long they may overlap is decided by controller-runtime's lease, not
  by this code.
* Flags, certificates, TLS, metrics and probes of `cmd/main.go`: set-up without
  behaviour of its own.
* The branch that sets `ConfigMapLookupFailed`, and its like for Users: a read from a
  started cache fails only with NotFound.
* Spec edits other than the policy: a User or Collection keeps no memory of a
  previous spec, so an edit of a reference acts as deleting nothing and making
  anew.
* Empty values of keys: what Solr makes of an empty username is not in the
  repository.
* Roles granted by others while `UpsertRoles` runs: nobody in the model grants
  roles, and Solr has no conditional write that could prevent the loss.
* Generated deep copies, manifests, and the e2e test helpers.

## Plan

What is left is to prove the same from less, or more precisely:

1. What the findings leave intact: that a User whose secret is written and whose
   POSTs are not refused is `Available` only with a complete secret, i.e. under
   which exclusions `ReadyMeansPublished` becomes true; likewise
   `DeletePolicyDeletes`.
2. The step from safety to liveness that does not need ENABLED: that each pass
   ends after finitely many steps, as a decreasing measure of `pc`.
