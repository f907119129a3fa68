--------------------------- MODULE LifecycleProofs ---------------------------
(***************************************************************************)
(* UserController implements FinalizerLifecycle, for any numbers of users, *)
(* secrets, names and disruptions, on the Users that carry no finalizer    *)
(* but ours, whatever other Users carry.                                   *)
(*                                                                         *)
(* The invariants Parts and FinalizerInv of UserControllerProofs say how   *)
(* far the cached User that a pass was decided on may differ from the      *)
(* stored one; here they turn each step into one of the abstract worker's. *)
(***************************************************************************)
EXTENDS UserControllerProofs

(* What UserRequirements!Lifecycle substitutes for phase and busy.         *)
PhaseBar == [u \in OnlyOurs |-> Phase(user[u])]

BusyBar == IF Provisioning /\ w.key \in OnlyOurs THEN w.key ELSE NONE

AbstractStep == [Lifecycle!LifecycleNext]_(Lifecycle!lifecycleVars)

-----------------------------------------------------------------------------
(* The abstract steps, in terms of what the controller has.                *)
LEMMA AbstractStutter ==
    ASSUME PhaseBar' = PhaseBar, BusyBar' = BusyBar
    PROVE  AbstractStep
BY DEF AbstractStep, Lifecycle!lifecycleVars, PhaseBar, BusyBar

LEMMA AbstractStop ==
    ASSUME PhaseBar' = PhaseBar, BusyBar' = NONE
    PROVE  AbstractStep
BY DEF AbstractStep, Lifecycle!LifecycleNext, Lifecycle!Stop, PhaseBar, BusyBar

LEMMA AbstractWork ==
    ASSUME NEW u \in OnlyOurs, PhaseBar[u] \in {"guarded", "retiring"},
           PhaseBar' = PhaseBar, BusyBar = NONE, BusyBar' = u
    PROVE  AbstractStep
<1>1. Lifecycle!Work(u)
  BY DEF Lifecycle!Work, PhaseBar, BusyBar
<1> QED
  BY <1>1 DEF AbstractStep, Lifecycle!LifecycleNext

LEMMA AbstractGuard ==
    ASSUME NEW u \in OnlyOurs, PhaseBar[u] = "new",
           PhaseBar' = [PhaseBar EXCEPT ![u] = "guarded"],
           BusyBar = NONE, BusyBar' \in {NONE, u}
    PROVE  AbstractStep
<1>1. Lifecycle!Guard(u)
  BY DEF Lifecycle!Guard, Lifecycle!Move, PhaseBar, BusyBar
<1> QED
  BY <1>1 DEF AbstractStep, Lifecycle!LifecycleNext

LEMMA AbstractAppear ==
    ASSUME NEW u \in OnlyOurs, PhaseBar[u] = "absent",
           PhaseBar' = [PhaseBar EXCEPT ![u] = "new"], BusyBar' = BusyBar
    PROVE  AbstractStep
<1>1. Lifecycle!Appear(u)
  BY DEF Lifecycle!Appear, Lifecycle!Move, PhaseBar, BusyBar
<1> QED
  BY <1>1 DEF AbstractStep, Lifecycle!LifecycleNext

LEMMA AbstractRetire ==
    ASSUME NEW u \in OnlyOurs, BusyBar' = BusyBar,
           \/ /\ PhaseBar[u] = "guarded"
              /\ PhaseBar' = [PhaseBar EXCEPT ![u] = "retiring"]
           \/ /\ PhaseBar[u] = "new"
              /\ PhaseBar' = [PhaseBar EXCEPT ![u] = "absent"]
    PROVE  AbstractStep
<1>1. Lifecycle!Retire(u)
  BY DEF Lifecycle!Retire, Lifecycle!Move, PhaseBar, BusyBar
<1> QED
  BY <1>1 DEF AbstractStep, Lifecycle!LifecycleNext

LEMMA AbstractRelease ==
    ASSUME NEW u \in OnlyOurs, PhaseBar[u] = "retiring",
           PhaseBar' = [PhaseBar EXCEPT ![u] = "absent"],
           BusyBar = NONE, BusyBar' = NONE
    PROVE  AbstractStep
<1>1. Lifecycle!Release(u)
  BY DEF Lifecycle!Release, Lifecycle!Move, PhaseBar, BusyBar
<1> QED
  BY <1>1 DEF AbstractStep, Lifecycle!LifecycleNext

-----------------------------------------------------------------------------
(* Phases.                                                                 *)
LEMMA PhaseFacts ==
    /\ Phase(NONE) = "absent"
    /\ \A obj \in UserObj :
         /\ obj # NONE
         /\ obj.deleting => Phase(obj) = "retiring"
         /\ ~obj.deleting /\ obj.finalizer => Phase(obj) = "guarded"
         /\ ~obj.deleting /\ ~obj.finalizer => Phase(obj) = "new"
BY ObjectAssumption DEF Phase, Live, UserObj

(* One User is written.                                                    *)
LEMMA OnePhaseMoves ==
    ASSUME Parts, NEW u \in Users, NEW obj, user' = [user EXCEPT ![u] = obj]
    PROVE  /\ u \in OnlyOurs =>
                /\ PhaseBar' = [PhaseBar EXCEPT ![u] = Phase(obj)]
                /\ PhaseBar[u] = Phase(user[u])
           /\ u \notin OnlyOurs => PhaseBar' = PhaseBar
BY Ours DEF PhaseBar, Parts, UserStored

LEMMA PhasesKept ==
    ASSUME Parts, Parts', \A u \in Users : SameFlags(user'[u], user[u])
    PROVE  PhaseBar' = PhaseBar
<1>1. ASSUME NEW u \in OnlyOurs
      PROVE  Phase(user'[u]) = Phase(user[u])
  BY PhaseFacts DEF OnlyOurs, SameFlags, Parts, UserStored
<1> QED
  BY <1>1 DEF PhaseBar, OnlyOurs

LEMMA NewUserPhase ==
    ASSUME NEW u \in Users
    PROVE  Phase(NewUser(u)) = "new"
<1>1. NewUser(u) \in UserObj
  BY BlankType
<1> QED
  BY <1>1, PhaseFacts DEF NewUser

LEMMA UsersUntouched ==
    ASSUME UNCHANGED user
    PROVE  PhaseBar' = PhaseBar
BY DEF PhaseBar

LEMMA BusyKept ==
    ASSUME UNCHANGED workVars
    PROVE  BusyBar' = BusyBar
BY DEF BusyBar, Provisioning, workVars

LEMMA IdleIsNotBusy ==
    /\ pc \in {"idle", "addFinalizer"} => BusyBar = NONE
    /\ ~w.ensure => BusyBar = NONE
    /\ pc' \in {"idle", "addFinalizer"} => BusyBar' = NONE
    /\ ~w'.ensure => BusyBar' = NONE
BY DEF BusyBar, Provisioning

-----------------------------------------------------------------------------
(* The steps of a pass.  One that writes no flags leaves the worker busy   *)
(* with what it was busy with, or ends the pass.                           *)
LEMMA GoingOnRefines ==
    ASSUME Parts, Parts', PassGoesOn, \A u \in Users : SameFlags(user'[u], user[u])
    PROVE  AbstractStep
<1>1. PhaseBar' = PhaseBar
  BY PhasesKept
<1>2. CASE pc' = "idle"
  BY <1>1, <1>2, IdleIsNotBusy, AbstractStop
<1>3. CASE pc' # "idle"
  <2>1. BusyBar' = BusyBar
    BY <1>3 DEF PassGoesOn, BusyBar, Provisioning
  <2> QED
    BY <1>1, <2>1, AbstractStutter
<1> QED
  BY <1>2, <1>3

(* The finalizer goes on: Guard; where somebody has put it on already, the *)
(* worker only begins.                                                     *)
LEMMA AddFinalizerRefines ==
    ASSUME Parts, Parts', FinalizerInv, FinalizerInv', AddFinalizer
    PROVE  AbstractStep
<1> DEFINE obj == [user[w.key] EXCEPT !.finalizer = TRUE]
<1>1. /\ pc = "addFinalizer" /\ w.ensure /\ w.key \in Users /\ w \in Work
  BY DEF AddFinalizer, Parts, WorkerInv, PassConsistent, EnsureLabels
<1>2. PICK o \in Outcomes :
        /\ WriteUser(obj, o)
        /\ IF Failed(o) THEN Requeue ELSE GoTo("initStatus", w.status)
  BY DEF AddFinalizer
<1>3. w.key \in userHeld =>
        user[w.key] \in UserObj /\ obj \in UserObj /\ Reaped(obj) = obj
  <2>1. ASSUME w.key \in userHeld
        PROVE  user[w.key] \in UserObj /\ obj \in UserObj /\ obj.finalizer
    BY <1>1, <2>1, HeldUser DEF UserObj
  <2> QED
    BY <2>1 DEF Reaped
<1>4. /\ BusyBar = NONE
      /\ BusyBar' \in {NONE, w.key}
  <2>1. pc' = "idle" \/ w'.key = w.key
    BY <1>1, <1>2 DEF Requeue, LeavePass, GoTo, Work
  <2> QED
    BY <1>1, <2>1, IdleIsNotBusy DEF BusyBar
<1>5. \/ UNCHANGED user
      \/ w.key \in userHeld /\ user' = [user EXCEPT ![w.key] = obj]
  BY <1>1, <1>2, <1>3, WriteUserType
<1>6. CASE w.key \notin OnlyOurs
  <2>1. PhaseBar' = PhaseBar
    BY <1>1, <1>5, <1>6, UsersUntouched, OnePhaseMoves
  <2>2. BusyBar' = NONE
    BY <1>4, <1>6 DEF BusyBar
  <2> QED
    BY <2>1, <2>2, AbstractStop
<1>7. CASE w.key \in OnlyOurs /\ UNCHANGED user
  <2>1. PhaseBar' = PhaseBar
    BY <1>7, UsersUntouched
  <2>2. CASE BusyBar' = NONE
    BY <2>1, <2>2, AbstractStop
  <2>3. CASE BusyBar' = w.key /\ BusyBar' # NONE
    <3>1. ProvisioningGuarded' /\ Provisioning' /\ w'.key = w.key
      BY <2>3 DEF BusyBar, FinalizerInv
    <3>2. user[w.key] # NONE /\ user[w.key].finalizer
      BY <1>7, <3>1 DEF ProvisioningGuarded
    <3>3. PhaseBar[w.key] \in {"guarded", "retiring"}
      BY <1>1, <1>7, <3>2, PhaseFacts DEF PhaseBar, Parts, UserStored, UserObj
    <3> QED
      BY <1>4, <1>7, <2>1, <2>3, <3>3, AbstractWork
  <2> QED
    BY <1>4, <2>2, <2>3
<1>8. CASE /\ w.key \in OnlyOurs /\ w.key \in userHeld
           /\ user' = [user EXCEPT ![w.key] = obj]
  <2>1. /\ Phase(obj) = "guarded"
        /\ user[w.key].finalizer => Phase(user[w.key]) = "guarded"
        /\ ~user[w.key].finalizer => Phase(user[w.key]) = "new"
    <3>1. user[w.key] \in UserObj /\ ~user[w.key].deleting
      BY <1>1, <1>3, <1>8 DEF FinalizerInv, Live
    <3>2. obj \in UserObj /\ obj.finalizer /\ ~obj.deleting
      BY <3>1 DEF obj, UserObj
    <3> QED
      BY <3>1, <3>2, PhaseFacts
  <2>2. /\ PhaseBar' = [PhaseBar EXCEPT ![w.key] = "guarded"]
        /\ PhaseBar[w.key] = Phase(user[w.key])
    <3>1. /\ PhaseBar' = [PhaseBar EXCEPT ![w.key] = Phase(obj)]
          /\ PhaseBar[w.key] = Phase(user[w.key])
      BY <1>1, <1>8, OnePhaseMoves, Zenon
    <3> QED
      BY <2>1, <3>1
  <2>3. CASE ~user[w.key].finalizer
    BY <1>4, <1>8, <2>1, <2>2, <2>3, AbstractGuard
  <2>4. CASE user[w.key].finalizer
    <3>1. PhaseBar' = PhaseBar /\ PhaseBar[w.key] = "guarded"
      BY <1>8, <2>1, <2>2, <2>4 DEF PhaseBar
    <3>2. CASE BusyBar' = NONE
      BY <3>1, <3>2, AbstractStop
    <3>3. CASE BusyBar' = w.key
      BY <1>4, <1>8, <3>1, <3>3, AbstractWork
    <3> QED
      BY <1>4, <3>2, <3>3
  <2> QED
    BY <1>3, <1>8, <2>3, <2>4 DEF UserObj
<1> QED
  BY <1>5, <1>6, <1>7, <1>8

(* The finalizer comes off, and with no other the User goes: Release.      *)
LEMMA RemoveFinalizerRefines ==
    ASSUME Parts, FinalizerInv, RemoveFinalizer
    PROVE  AbstractStep
<1> DEFINE obj == [user[w.key] EXCEPT !.finalizer = FALSE]
<1>1. pc = "removeFinalizer" /\ ~w.ensure /\ w.key \in Users
  BY DEF RemoveFinalizer, Parts, WorkerInv, PassConsistent, DeleteLabels
<1>2. PICK o \in Outcomes :
        WriteUser(obj, o) /\ IF Failed(o) THEN Requeue ELSE Done
  BY DEF RemoveFinalizer
<1>3. BusyBar = NONE /\ BusyBar' = NONE
  BY <1>1, <1>2, IdleIsNotBusy DEF Requeue, Done, LeavePass
<1>4. /\ w.key \in userHeld => obj \in UserObj
      /\ (w.key \in userHeld /\ w.key \in OnlyOurs) =>
           Reaped(obj) = NONE /\ Phase(user[w.key]) = "retiring"
  <2>1. ASSUME w.key \in userHeld
        PROVE  user[w.key] \in UserObj
    BY <1>1, <2>1, HeldUser
  <2>2. ASSUME w.key \in userHeld, w.key \in OnlyOurs
        PROVE  user[w.key].deleting /\ ~user[w.key].foreign
    BY <1>1, <2>1, <2>2, ObjectAssumption
       DEF FinalizerInv, CachesTellFinalizers, Foreign
  <2> QED
    BY <2>1, <2>2, PhaseFacts DEF UserObj, Reaped
<1> HIDE DEF obj
<1>5. \/ UNCHANGED user
      \/ w.key \in userHeld /\ user' = [user EXCEPT ![w.key] = Reaped(obj)]
  BY <1>1, <1>2, <1>4, WriteUserType
<1>6. CASE UNCHANGED user \/ w.key \notin OnlyOurs
  <2>1. PhaseBar' = PhaseBar
    BY <1>1, <1>5, <1>6, UsersUntouched, OnePhaseMoves
  <2> QED
    BY <1>3, <2>1, AbstractStutter
<1>7. CASE /\ w.key \in OnlyOurs /\ w.key \in userHeld
           /\ user' = [user EXCEPT ![w.key] = Reaped(obj)]
  <2>1. /\ PhaseBar' = [PhaseBar EXCEPT ![w.key] = "absent"]
        /\ PhaseBar[w.key] = "retiring"
    <3>1. /\ PhaseBar' = [PhaseBar EXCEPT ![w.key] = Phase(Reaped(obj))]
          /\ PhaseBar[w.key] = Phase(user[w.key])
      BY <1>1, <1>7, OnePhaseMoves, Zenon
    <3> QED
      BY <1>4, <1>7, <3>1, PhaseFacts
  <2> QED
    BY <1>3, <1>7, <2>1, AbstractRelease
<1> QED
  BY <1>5, <1>6, <1>7

LEMMA PassStepRefines ==
    ASSUME Parts, Parts', FinalizerInv, FinalizerInv', PassStep
    PROVE  AbstractStep
<1>1. CASE AddFinalizer
  BY <1>1, AddFinalizerRefines
<1>2. CASE InitStatus \/ OkStatus \/ FailStatus
  <2>1. PassGoesOn
    BY <1>2, StepGoesOn
       DEF PassStep, AddFinalizer, InitStatus, OkStatus, FailStatus, Parts,
           WorkerInv
  <2> QED
    BY <1>2, <2>1, StatusStepFlags, GoingOnRefines
<1>3. CASE RemoveFinalizer
  BY <1>3, RemoveFinalizerRefines
<1>4. CASE ~(AddFinalizer \/ InitStatus \/ OkStatus \/ FailStatus \/ RemoveFinalizer)
  <2>1. PassGoesOn
    BY <1>4, StepGoesOn DEF Parts, WorkerInv
  <2>2. \A u \in Users : SameFlags(user'[u], user[u])
    BY <1>4, QuietSteps DEF SameFlags
  <2> QED
    BY <2>1, <2>2, GoingOnRefines
<1> QED
  BY <1>1, <1>2, <1>3, <1>4

(* A pass begins: the stored User is guarded if the pass may make things.  *)
LEMMA BeginRefines ==
    ASSUME Parts, Parts', FinalizerInv', NEW u \in Users, Begin(u)
    PROVE  AbstractStep
<1>1. pc = "idle" /\ UNCHANGED user /\ w'.key = u
  BY DEF Begin, NoWork
<1>2. PhaseBar' = PhaseBar /\ BusyBar = NONE
  BY <1>1, UsersUntouched, IdleIsNotBusy
<1>3. CASE ~Provisioning' \/ u \notin OnlyOurs
  <2>1. BusyBar' = NONE
    BY <1>1, <1>3 DEF BusyBar
  <2> QED
    BY <1>2, <2>1, AbstractStop
<1>4. CASE Provisioning' /\ u \in OnlyOurs
  <2>1. BusyBar' = u
    BY <1>1, <1>4 DEF BusyBar
  <2>2. user[u] # NONE /\ user[u].finalizer
    BY <1>1, <1>4 DEF FinalizerInv, ProvisioningGuarded
  <2>3. PhaseBar[u] \in {"guarded", "retiring"}
    BY <1>4, <2>2, PhaseFacts DEF PhaseBar, Parts, UserStored, UserObj
  <2> QED
    BY <1>2, <1>4, <2>1, <2>3, AbstractWork
<1> QED
  BY <1>3, <1>4

-----------------------------------------------------------------------------
(* People: Appear and Retire.                                              *)
LEMMA ApplyRefines ==
    ASSUME Parts, NEW u \in Users, Apply(u),
           UNCHANGED workVars
    PROVE  AbstractStep
<1>1. user[u] = NONE /\ user' = [user EXCEPT ![u] = NewUser(u)]
  BY DEF Apply, EditUser, PutUser
<1>2. Phase(NewUser(u)) = "new" /\ Phase(user[u]) = "absent"
  BY <1>1, NewUserPhase, PhaseFacts
<1>3. CASE u \in OnlyOurs
  BY <1>1, <1>2, <1>3, OnePhaseMoves, BusyKept, AbstractAppear
<1>4. CASE u \notin OnlyOurs
  BY <1>1, <1>4, OnePhaseMoves, BusyKept, AbstractStutter
<1> QED
  BY <1>3, <1>4

LEMMA RequestDeleteRefines ==
    ASSUME Parts, FinalizerInv, NEW u \in Users, RequestDelete(u),
           UNCHANGED workVars
    PROVE  AbstractStep
<1> DEFINE obj == [user[u] EXCEPT !.deleting = TRUE]
<1>1. /\ user[u] \in UserObj /\ ~user[u].deleting
      /\ u \in OnlyOurs => ~user[u].foreign
      /\ user' = [user EXCEPT ![u] = Reaped(obj)]
  BY DEF RequestDelete, Live, EditUser, PutUser, Parts, UserStored,
         FinalizerInv, CachesTellFinalizers, Foreign
<1>2. /\ obj \in UserObj /\ obj.deleting /\ obj.foreign = user[u].foreign
      /\ obj.finalizer = user[u].finalizer
  BY <1>1 DEF UserObj
<1> HIDE DEF obj
<1>3. u \in OnlyOurs => /\ PhaseBar' = [PhaseBar EXCEPT ![u] = Phase(Reaped(obj))]
                        /\ PhaseBar[u] = Phase(user[u])
  BY <1>1, OnePhaseMoves, Zenon
<1>4. CASE u \in OnlyOurs /\ user[u].finalizer
  <2>1. Phase(Reaped(obj)) = "retiring" /\ Phase(user[u]) = "guarded"
    BY <1>1, <1>2, <1>4, PhaseFacts DEF Reaped
  <2>2. /\ PhaseBar' = [PhaseBar EXCEPT ![u] = "retiring"]
        /\ PhaseBar[u] = "guarded"
    BY <1>4, <1>3, <2>1
  <2> QED
    BY <1>4, <2>2, BusyKept, AbstractRetire
<1>5. CASE u \in OnlyOurs /\ ~user[u].finalizer
  <2>1. Phase(Reaped(obj)) = "absent" /\ Phase(user[u]) = "new"
    BY <1>1, <1>2, <1>5, PhaseFacts DEF Reaped
  <2>2. /\ PhaseBar' = [PhaseBar EXCEPT ![u] = "absent"]
        /\ PhaseBar[u] = "new"
    BY <1>5, <1>3, <2>1
  <2> QED
    BY <1>5, <2>2, BusyKept, AbstractRetire
<1>6. CASE u \notin OnlyOurs
  BY <1>1, <1>6, OnePhaseMoves, BusyKept, AbstractStutter
<1> QED
  BY <1>4, <1>5, <1>6

(* Somebody else's finalizer is no business of the abstract specification. *)
LEMMA DropForeignRefines ==
    ASSUME Parts, FinalizerInv, NEW u \in Users, DropForeign(u),
           UNCHANGED workVars
    PROVE  AbstractStep
<1>1. u \notin OnlyOurs
  BY DEF DropForeign, FinalizerInv, CachesTellFinalizers, Foreign
<1>2. PICK obj : user' = [user EXCEPT ![u] = obj]
  BY DEF DropForeign, EditUser, PutUser
<1> QED
  BY <1>1, <1>2, OnePhaseMoves, BusyKept, AbstractStutter

LEMMA EnvironmentRefines ==
    ASSUME Parts, FinalizerInv, Environment
    PROVE  AbstractStep
<1>1. UNCHANGED workVars
  BY DEF Environment
<1>2. CASE \E u \in Users : Apply(u)
  BY <1>1, <1>2, ApplyRefines
<1>3. CASE \E u \in Users : RequestDelete(u)
  BY <1>1, <1>3, RequestDeleteRefines
<1>4. CASE \E u \in Users : DropForeign(u)
  BY <1>1, <1>4, DropForeignRefines
<1>5. CASE UNCHANGED user
  BY <1>1, <1>5, UsersUntouched, BusyKept, AbstractStutter
<1>6. \/ \E u \in Users : Apply(u) \/ RequestDelete(u) \/ DropForeign(u)
      \/ UNCHANGED user
  BY DEF Environment, UserEdits, Informers, CloudChange, SyncCloud, Deliver,
         DeliverCloudEvent, SyncSecret, DeliverSecretEvent, RotatePassword,
         StripSecret, DropSecret, BringSecret, EditSecret, Resync, apiVars,
         userVars
<1> QED
  BY <1>2, <1>3, <1>4, <1>5, <1>6

LEMMA NextRefines ==
    ASSUME Parts, Parts', FinalizerInv, FinalizerInv', [Next]_vars
    PROVE  AbstractStep
<1>1. CASE \E u \in Users : Begin(u)
  BY <1>1, BeginRefines
<1>2. CASE \E u \in Users : ObjectGone(u) \/ NoClient(u)
  BY <1>2, UsersUntouched, BusyKept, AbstractStutter
     DEF ObjectGone, NoClient, vars, apiVars, userVars
<1>3. CASE PassStep
  BY <1>3, PassStepRefines
<1>4. CASE Environment
  BY <1>4, EnvironmentRefines
<1>5. CASE Crash
  BY <1>5, UsersUntouched, IdleIsNotBusy, AbstractStop DEF Crash, Relist
<1>6. CASE UNCHANGED vars
  BY <1>6, UsersUntouched, BusyKept, AbstractStutter DEF vars, apiVars, userVars
<1> QED
  BY <1>1, <1>2, <1>3, <1>4, <1>5, <1>6 DEF Next, Worker, TakeKey

LEMMA InitRefines ==
    ASSUME Init
    PROVE  Lifecycle!LifecycleInit
<1>1. ASSUME NEW u \in Users
      PROVE  Phase(user[u]) = "new"
  BY NewUserPhase DEF Init, ApiInit
<1>2. PhaseBar = [u \in OnlyOurs |-> "new"]
  BY <1>1 DEF PhaseBar, OnlyOurs
<1>3. BusyBar = NONE
  BY IdleIsNotBusy DEF Init
<1> QED
  BY <1>2, <1>3 DEF Lifecycle!LifecycleInit, PhaseBar, BusyBar

(***************************************************************************)
(* The user controller keeps the promise of FinalizerLifecycle to every    *)
(* User that nobody else puts a finalizer on: it makes secrets, accounts   *)
(* and roles for a stored User that the finalizer keeps, and lets none go  *)
(* that it is at work on, whatever copies its passes were decided on.      *)
(***************************************************************************)
THEOREM LifecycleIsImplemented == Spec => LifecycleRefined
<1>1. Init => Parts /\ FinalizerInv /\ Lifecycle!LifecycleInit
  BY InitParts, InitFinalizer, InitRefines
<1>2. Parts /\ FinalizerInv /\ [Next]_vars => Parts' /\ FinalizerInv'
  BY NextParts, NextFinalizer
<1>3. Parts /\ Parts' /\ FinalizerInv /\ FinalizerInv' /\ [Next]_vars
        => [Lifecycle!LifecycleNext]_(Lifecycle!lifecycleVars)
  BY NextRefines DEF AbstractStep
<1> QED
  BY <1>1, <1>2, <1>3, PTL DEF Spec, LifecycleRefined, Lifecycle!LifecycleSpec
=============================================================================
