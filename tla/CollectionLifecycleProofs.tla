---------------------- MODULE CollectionLifecycleProofs ----------------------
(***************************************************************************)
(* CollectionController implements FinalizerLifecycle, for any numbers of  *)
(* Collections, config maps, names and disruptions.  The promise is about  *)
(* Collections that carry no finalizer but ours; what becomes of the       *)
(* others, in the same behaviour, does not disturb it.                     *)
(*                                                                         *)
(* FinalizerInv says how far the cached Collection that a pass was decided *)
(* on may differ from the stored one; here it turns each step into one of  *)
(* the abstract worker's.                                                  *)
(***************************************************************************)
EXTENDS CollectionProofs

LEMMA OursAreCollections ==
    /\ OnlyOurs \subseteq Collections
    /\ NONE \notin OnlyOurs
    /\ \A c \in OnlyOurs : ~NewCollection(c).foreign
BY CollectionApiAssumption DEF OnlyOurs, NewCollection

-----------------------------------------------------------------------------
(* FinalizerInv is inductive.                                              *)

LEMMA PassStepFinalizer ==
    ASSUME Parts, DeletionInv, FinalizerInv, PassStep
    PROVE  FinalizerInv'
<1>1. PassGoesOn /\ UNCHANGED collectionCache
  BY PassStepEffect
<1>2. CachesTellFinalizers'
  <2>1. CASE UNCHANGED collection
    BY <1>1, <2>1 DEF FinalizerInv, CachesTellFinalizers
  <2>2. CASE ~UNCHANGED collection
    <3>1. PICK obj \in CollectionObj : WriteOf(obj)
      BY <2>2, WriteEffect
    <3>2. SUFFICES ASSUME w.key \in OnlyOurs
                   PROVE  /\ ~Foreign(collection'[w.key])
                          /\ Kept(collectionCache[w.key]) =>
                               HasFinalizer(collection'[w.key])
                          /\ Kept(collection'[w.key]) =>
                               \/ collectionCache[w.key] = NONE
                               \/ ~collectionCache[w.key].deleting
      BY <1>1, <3>1, OursAreCollections
         DEF WriteOf, FinalizerInv, CachesTellFinalizers
    <3>3. /\ collection[w.key] # NONE /\ ~collection[w.key].foreign
          /\ obj # NONE /\ ~obj.foreign
          /\ collection'[w.key] = Reaped(obj)
          /\ obj.deleting = collection[w.key].deleting
      BY <3>1, <3>2, ObjectsAreThere
         DEF WriteOf, FinalizerInv, CachesTellFinalizers, Foreign
    <3>4. ~Foreign(collection'[w.key])
      BY <3>3 DEF Foreign, Reaped
    <3>5. CASE /\ obj.finalizer = collection[w.key].finalizer
               /\ Reaped(obj) = obj
      BY <3>2, <3>3, <3>4, <3>5
         DEF FinalizerInv, CachesTellFinalizers, Kept, HasFinalizer, Live
    <3>6. CASE pc = "addFinalizer" /\ obj.finalizer /\ Reaped(obj) = obj
      <4>1. collectionCache[w.key] = collection[w.key] /\ Live(collection[w.key])
        BY <3>1, <3>2, <3>6 DEF FinalizerInv, DeletionInv, WriteOf
      <4> QED
        BY <3>3, <3>4, <3>6, <4>1 DEF Kept, HasFinalizer, Live
    <3>7. CASE pc = "removeFinalizer" /\ ~obj.finalizer
      <4>1. ~Kept(collectionCache[w.key]) /\ collection[w.key].deleting
        BY <3>1, <3>2, <3>7, LabelsApart DEF FinalizerInv, DeletionInv, WriteOf
      <4> QED
        BY <3>3, <3>4, <3>7, <4>1 DEF Kept, Live, Reaped
    <3> QED
      BY <3>1, <3>5, <3>6, <3>7 DEF WriteOf
  <2> QED
    BY <2>1, <2>2
<1>3. CASE pc' = "idle"
  BY <1>2, <1>3, LabelsApart DEF FinalizerInv
<1>4. CASE pc' # "idle"
  <2>1. w'.key = w.key /\ pc' # "addFinalizer"
    BY <1>1, <1>4, LabelsApart DEF PassGoesOn
  <2>2. CASE pc = "addFinalizer"
    <3>1. HasFinalizer(collection'[w.key]) /\ pc' \notin DeleteLabels
      BY <1>1, <1>4, <2>2, GoesOnWithFinalizer, LabelsApart DEF PassGoesOn
    <3> QED
      BY <1>2, <2>1, <3>1 DEF FinalizerInv
  <2>3. CASE pc \in EnsureLabels
    <3>1. w.key \in OnlyOurs => HasFinalizer(collection'[w.key])
      <4>1. CASE UNCHANGED collection
        BY <2>3, <4>1 DEF FinalizerInv
      <4>2. CASE ~UNCHANGED collection
        <5>1. PICK obj \in CollectionObj : WriteOf(obj)
          BY <4>2, WriteEffect
        <5>2. /\ obj.finalizer = collection[w.key].finalizer
              /\ collection'[w.key] = obj
          BY <2>3, <5>1, LabelsApart DEF WriteOf
        <5> QED
          BY <2>3, <5>1, <5>2, ObjectsAreThere DEF FinalizerInv, HasFinalizer
      <4> QED
        BY <4>1, <4>2
    <3>2. pc' \notin DeleteLabels
      BY <1>1, <1>4, <2>3, LabelsApart DEF PassGoesOn
    <3> QED
      BY <1>2, <2>1, <3>1, <3>2 DEF FinalizerInv
  <2>4. CASE pc \in DeleteLabels
    <3>1. UNCHANGED collection /\ pc' \notin EnsureLabels
      <4>1. pc' \notin EnsureLabels /\ pc \in {"checkExists", "deleteCollection"}
        BY <1>1, <1>4, <2>4, LabelsApart DEF PassGoesOn
      <4>2. ~ \E obj : WriteOf(obj)
        BY <4>1 DEF WriteOf
      <4> QED
        BY <4>1, <4>2, WriteEffect
    <3> QED
      BY <1>1, <1>2, <2>1, <2>4, <3>1 DEF FinalizerInv
  <2> QED
    BY <1>1, <1>4, <2>2, <2>3, <2>4, LabelsApart DEF PassGoesOn
<1> QED
  BY <1>3, <1>4

LEMMA BeginFinalizer ==
    ASSUME Parts, FinalizerInv, NEW c \in Collections, Begin(c)
    PROVE  FinalizerInv'
<1>1. /\ w'.key = c
      /\ UNCHANGED <<collection, collectionCache>>
      /\ collectionHeld' = {c} \ collectionLag
      /\ pc' = Route(collectionCache[c])
      /\ collectionCache[c] # NONE
      /\ Held(collectionCache[c])
  BY DEF Begin, NoWork, Parts, CollectionStored, NothingOverdue
<1>2. CachesTellFinalizers'
  BY <1>1 DEF FinalizerInv, CachesTellFinalizers
<1>3. c \in collectionHeld' => collectionCache[c] = collection[c]
  BY <1>1 DEF Parts, CollectionStored
<1>4. CASE c \in OnlyOurs
  <2>1. /\ ~collectionCache[c].foreign
        /\ Kept(collectionCache[c]) => HasFinalizer(collection[c])
        /\ Kept(collection[c]) => ~collectionCache[c].deleting
    BY <1>1, <1>4 DEF FinalizerInv, CachesTellFinalizers, Foreign
  <2>2. pc' \in EnsureLabels => Kept(collectionCache[c])
    BY <1>1, <2>1, LabelsApart DEF Route, Retire, Held, Kept, Live
  <2>3. pc' \in DeleteLabels => collectionCache[c].deleting
    BY <1>1, LabelsApart DEF Route, Retire
  <2>4. pc' \in DeleteLabels =>
          ~Kept(collectionCache[c]) /\ ~Kept(collection[c])
    BY <2>1, <2>3 DEF Kept, Live
  <2> QED
    BY <1>1, <1>2, <1>3, <2>1, <2>2, <2>4 DEF FinalizerInv
<1>5. CASE c \notin OnlyOurs
  BY <1>1, <1>2, <1>5 DEF FinalizerInv
<1> QED
  BY <1>4, <1>5

(* An edit by others that leaves the finalizer as it is, puts on none of   *)
(* somebody else's and takes no deletion back.                             *)
LEMMA EditFinalizer ==
    ASSUME Parts, FinalizerInv, NEW c \in Collections, NEW obj,
           EditCollection(c, obj), UNCHANGED workVars,
           c \in OnlyOurs => ~Foreign(obj),
           HasFinalizer(obj) <=> HasFinalizer(collection[c]),
           Kept(obj) => Kept(collection[c])
    PROVE  FinalizerInv'
<1>1. /\ collection' = [collection EXCEPT ![c] = obj]
      /\ collectionHeld' = collectionHeld \ {c}
      /\ UNCHANGED <<collectionCache, pc, w>>
      /\ collection \in [Collections -> CollectionObj \cup {NONE}]
  BY DEF EditCollection, PutCollection, Parts, CollectionStored, workVars
<1>2. /\ \A d \in Collections \ {c} : collection'[d] = collection[d]
      /\ collection'[c] = obj
  BY <1>1
<1>3. \A d \in Collections :
        /\ HasFinalizer(collection'[d]) <=> HasFinalizer(collection[d])
        /\ Kept(collection'[d]) => Kept(collection[d])
  BY <1>2
<1>4. CachesTellFinalizers'
  BY <1>1, <1>2, <1>3, OursAreCollections DEF FinalizerInv, CachesTellFinalizers
<1>5. w.key \in collectionHeld' => w.key \in collectionHeld /\ w.key # c
  BY <1>1
<1> QED
  BY <1>1, <1>2, <1>3, <1>4, <1>5, OursAreCollections
     DEF FinalizerInv

LEMMA CollectionEditsFinalizer ==
    ASSUME Parts, FinalizerInv, NEW c \in Collections, UNCHANGED workVars,
           Apply(c) \/ RequestDelete(c) \/ DropForeign(c) \/ ChangePolicy(c)
    PROVE  FinalizerInv'
<1>1. CASE Apply(c)
  <2> DEFINE obj == NewCollection(c)
  <2>1. /\ EditCollection(c, obj)
        /\ c \in OnlyOurs => ~Foreign(obj)
        /\ ~HasFinalizer(obj) /\ ~Kept(obj)
        /\ ~HasFinalizer(collection[c])
    BY <1>1, OursAreCollections
       DEF Apply, Foreign, HasFinalizer, Kept, NewCollection
  <2> HIDE DEF obj
  <2> QED
    BY <2>1, EditFinalizer
<1>2. CASE ~Apply(c)
  <2>1. PICK obj \in CollectionObj :
          /\ Edited(c, Reaped(obj))
          /\ obj.finalizer = collection[c].finalizer
          /\ collection[c].deleting => obj.deleting
          /\ ~collection[c].foreign => ~obj.foreign
    BY <1>2, CollectionEdits
  <2>2. collection[c] # NONE /\ obj # NONE
    BY <2>1, ObjectsAreThere DEF Edited
  <2>3. /\ HasFinalizer(Reaped(obj)) <=> HasFinalizer(collection[c])
        /\ Kept(Reaped(obj)) => Kept(collection[c])
    BY <2>1, <2>2 DEF HasFinalizer, Kept, Live, Reaped
  <2>4. c \in OnlyOurs => ~Foreign(Reaped(obj))
    BY <2>1, <2>2 DEF FinalizerInv, CachesTellFinalizers, Foreign, Reaped
  <2> QED
    BY <2>1, <2>3, <2>4, EditFinalizer DEF Edited
<1> QED
  BY <1>1, <1>2

LEMMA DeliverFinalizer ==
    ASSUME Parts, FinalizerInv, NEW c \in Collections, Deliver(c),
           UNCHANGED workVars
    PROVE  FinalizerInv'
<1>1. /\ UNCHANGED <<collection, collectionHeld, pc, w>>
      /\ \A d \in Collections \ {c} : collectionCache'[d] = collectionCache[d]
      /\ collectionCache'[c] = collection[c]
  BY DEF Deliver, Parts, CollectionStored, workVars
<1>2. CachesTellFinalizers'
  BY <1>1, OursAreCollections
     DEF FinalizerInv, CachesTellFinalizers, Foreign, Kept, HasFinalizer, Live
<1> QED
  BY <1>1, <1>2, OursAreCollections DEF FinalizerInv

LEMMA CrashFinalizer ==
    ASSUME FinalizerInv, Crash
    PROVE  FinalizerInv'
<1>1. collectionCache' = collection /\ UNCHANGED collection /\ pc' = "idle"
  BY DEF Crash, Relist
<1>2. CachesTellFinalizers'
  BY <1>1 DEF FinalizerInv, CachesTellFinalizers, Kept, HasFinalizer, Live
<1> QED
  BY <1>1, <1>2, LabelsApart DEF FinalizerInv

LEMMA NextFinalizer ==
    ASSUME Parts, DeletionInv, FinalizerInv, [Next]_vars
    PROVE  FinalizerInv'
<1>1. ASSUME UNCHANGED <<collection, collectionCache, collectionHeld, pc, w>>
      PROVE  FinalizerInv'
  BY <1>1 DEF FinalizerInv, CachesTellFinalizers
<1>2. CASE \/ UNCHANGED vars
           \/ \E c \in Collections : ObjectGone(c) \/ CannotDelete(c)
  BY <1>1, <1>2
     DEF ObjectGone, CannotDelete, vars, apiVars, collectionVars, workVars
<1>3. CASE Environment
  <2>1. CASE \E c \in Collections : \/ Apply(c) \/ RequestDelete(c)
                                    \/ DropForeign(c) \/ ChangePolicy(c)
    BY <1>3, <2>1, CollectionEditsFinalizer DEF Environment
  <2>2. CASE \E c \in Collections : Deliver(c)
    BY <1>3, <2>2, DeliverFinalizer DEF Environment
  <2> QED
    BY <1>1, <1>3, <2>1, <2>2, OtherEnvironment
<1> QED
  BY <1>2, <1>3, PassStepFinalizer, BeginFinalizer, CrashFinalizer
     DEF Next, Worker, TakeKey

LEMMA InitFinalizer == Init => FinalizerInv
<1> SUFFICES ASSUME Init
             PROVE  FinalizerInv
  OBVIOUS
<1>1. ASSUME NEW c \in OnlyOurs
      PROVE  /\ collectionCache[c] = NONE
             /\ ~Foreign(collection[c]) /\ ~Kept(collection[c])
  BY OursAreCollections DEF Init, ApiInit, Foreign, Kept, NewCollection
<1>2. CachesTellFinalizers
  BY <1>1 DEF CachesTellFinalizers, Foreign, Kept, Live
<1> QED
  BY <1>2, LabelsApart DEF Init, FinalizerInv

-----------------------------------------------------------------------------
(* What CollectionRequirements!Lifecycle substitutes for phase and busy.   *)
PhaseBar == [c \in OnlyOurs |-> Phase(collection[c])]

BusyBar == IF pc \in EnsureLabels /\ w.key \in OnlyOurs THEN w.key ELSE NONE

AbstractStep == [Lifecycle!LifecycleNext]_(Lifecycle!lifecycleVars)

(* The abstract steps, in terms of what the controller has.                *)
LEMMA AbstractStutter ==
    ASSUME PhaseBar' = PhaseBar, BusyBar' = BusyBar
    PROVE  AbstractStep
BY DEF AbstractStep, Lifecycle!lifecycleVars, PhaseBar, BusyBar

LEMMA AbstractStop ==
    ASSUME PhaseBar' = PhaseBar, BusyBar' = NONE
    PROVE  AbstractStep
BY DEF AbstractStep, Lifecycle!LifecycleNext, Lifecycle!Stop, PhaseBar, BusyBar

LEMMA AbstractWork ==
    ASSUME NEW c \in OnlyOurs, PhaseBar[c] \in {"guarded", "retiring"},
           PhaseBar' = PhaseBar, BusyBar = NONE, BusyBar' = c
    PROVE  AbstractStep
<1>1. Lifecycle!Work(c)
  BY DEF Lifecycle!Work, PhaseBar, BusyBar
<1> QED
  BY <1>1 DEF AbstractStep, Lifecycle!LifecycleNext

LEMMA AbstractGuard ==
    ASSUME NEW c \in OnlyOurs, PhaseBar[c] = "new",
           PhaseBar' = [PhaseBar EXCEPT ![c] = "guarded"],
           BusyBar = NONE, BusyBar' \in {NONE, c}
    PROVE  AbstractStep
<1>1. Lifecycle!Guard(c)
  BY DEF Lifecycle!Guard, Lifecycle!Move, PhaseBar, BusyBar
<1> QED
  BY <1>1 DEF AbstractStep, Lifecycle!LifecycleNext

LEMMA AbstractAppear ==
    ASSUME NEW c \in OnlyOurs, PhaseBar[c] = "absent",
           PhaseBar' = [PhaseBar EXCEPT ![c] = "new"], BusyBar' = BusyBar
    PROVE  AbstractStep
<1>1. Lifecycle!Appear(c)
  BY DEF Lifecycle!Appear, Lifecycle!Move, PhaseBar, BusyBar
<1> QED
  BY <1>1 DEF AbstractStep, Lifecycle!LifecycleNext

LEMMA AbstractRetire ==
    ASSUME NEW c \in OnlyOurs, BusyBar' = BusyBar,
           \/ /\ PhaseBar[c] = "guarded"
              /\ PhaseBar' = [PhaseBar EXCEPT ![c] = "retiring"]
           \/ /\ PhaseBar[c] = "new"
              /\ PhaseBar' = [PhaseBar EXCEPT ![c] = "absent"]
    PROVE  AbstractStep
<1>1. Lifecycle!Retire(c)
  BY DEF Lifecycle!Retire, Lifecycle!Move, PhaseBar, BusyBar
<1> QED
  BY <1>1 DEF AbstractStep, Lifecycle!LifecycleNext

LEMMA AbstractRelease ==
    ASSUME NEW c \in OnlyOurs, PhaseBar[c] = "retiring",
           PhaseBar' = [PhaseBar EXCEPT ![c] = "absent"],
           BusyBar = NONE, BusyBar' = NONE
    PROVE  AbstractStep
<1>1. Lifecycle!Release(c)
  BY DEF Lifecycle!Release, Lifecycle!Move, PhaseBar, BusyBar
<1> QED
  BY <1>1 DEF AbstractStep, Lifecycle!LifecycleNext

-----------------------------------------------------------------------------
(* Phases.                                                                 *)
LEMMA PhaseFacts ==
    /\ Phase(NONE) = "absent"
    /\ \A obj \in CollectionObj :
         /\ obj # NONE
         /\ obj.deleting => Phase(obj) = "retiring"
         /\ ~obj.deleting /\ obj.finalizer => Phase(obj) = "guarded"
         /\ ~obj.deleting /\ ~obj.finalizer => Phase(obj) = "new"
BY ObjectAssumption DEF Phase, Live, CollectionObj

(* One Collection is written.                                              *)
LEMMA OnePhaseMoves ==
    ASSUME Parts, NEW c \in Collections, NEW obj,
           \A d \in Collections \ {c} : collection'[d] = collection[d],
           collection'[c] = obj
    PROVE  /\ c \in OnlyOurs =>
                /\ PhaseBar' = [PhaseBar EXCEPT ![c] = Phase(obj)]
                /\ PhaseBar[c] = Phase(collection[c])
           /\ c \notin OnlyOurs => PhaseBar' = PhaseBar
           /\ Phase(obj) = Phase(collection[c]) => PhaseBar' = PhaseBar
BY OursAreCollections DEF PhaseBar

LEMMA PhasesKept ==
    ASSUME UNCHANGED collection
    PROVE  PhaseBar' = PhaseBar
BY DEF PhaseBar

LEMMA BusyKept ==
    ASSUME UNCHANGED <<pc, w>>
    PROVE  BusyBar' = BusyBar
BY DEF BusyBar

LEMMA NotEnsuringIsNotBusy ==
    /\ pc \notin EnsureLabels => BusyBar = NONE
    /\ pc' \notin EnsureLabels => BusyBar' = NONE
BY DEF BusyBar

(* The worker starts on a stored Collection that has our finalizer.        *)
LEMMA StartingRefines ==
    ASSUME Parts, FinalizerInv', PhaseBar' = PhaseBar, BusyBar = NONE,
           UNCHANGED collection
    PROVE  AbstractStep
<1>1. CASE BusyBar' = NONE
  BY <1>1, AbstractStop
<1>2. CASE BusyBar' # NONE
  <2> DEFINE c == w'.key
  <2>1. c \in OnlyOurs /\ BusyBar' = c /\ HasFinalizer(collection[c])
    BY <1>2 DEF BusyBar, FinalizerInv
  <2>2. collection[c] \in CollectionObj
    BY <2>1, OursAreCollections DEF Parts, CollectionStored, HasFinalizer
  <2>3. PhaseBar[c] \in {"guarded", "retiring"}
    BY <2>1, <2>2, PhaseFacts DEF PhaseBar, HasFinalizer, CollectionObj
  <2> QED
    BY <2>1, <2>3, AbstractWork
<1> QED
  BY <1>1, <1>2

-----------------------------------------------------------------------------
(* The steps of a pass.                                                    *)

(* The finalizer goes on: Guard; where somebody has put it on already, the *)
(* worker only begins.                                                     *)
LEMMA AddFinalizerRefines ==
    ASSUME Parts, DeletionInv, FinalizerInv', PassStep, pc = "addFinalizer",
           ~UNCHANGED collection
    PROVE  AbstractStep
<1>1. PICK obj \in CollectionObj : WriteOf(obj)
  BY WriteEffect
<1>2. /\ w.key \in Collections /\ collection[w.key] \in CollectionObj
      /\ ~collection[w.key].deleting
      /\ ~obj.deleting /\ obj.finalizer
      /\ collection'[w.key] = obj
      /\ \A c \in Collections \ {w.key} : collection'[c] = collection[c]
  BY <1>1 DEF WriteOf, DeletionInv, Live
<1>3. BusyBar = NONE /\ BusyBar' \in {NONE, w.key}
  <2>1. pc' = "idle" \/ w'.key = w.key
    BY PassStepEffect DEF PassGoesOn
  <2> QED
    BY <2>1, LabelsApart, NotEnsuringIsNotBusy DEF BusyBar
<1>4. CASE w.key \notin OnlyOurs
  <2>1. PhaseBar' = PhaseBar
    BY <1>2, <1>4, OnePhaseMoves
  <2>2. BusyBar' = NONE
    BY <1>3, <1>4 DEF BusyBar
  <2> QED
    BY <2>1, <2>2, AbstractStop
<1>5. CASE w.key \in OnlyOurs
  <2>1. /\ PhaseBar' = [PhaseBar EXCEPT ![w.key] = "guarded"]
        /\ PhaseBar[w.key] = Phase(collection[w.key])
        /\ Phase(obj) = "guarded"
    BY <1>2, <1>5, OnePhaseMoves, PhaseFacts
  <2>2. CASE ~collection[w.key].finalizer
    <3>1. PhaseBar[w.key] = "new"
      BY <1>2, <2>1, <2>2, PhaseFacts
    <3> QED
      BY <1>3, <1>5, <2>1, <3>1, AbstractGuard
  <2>3. CASE collection[w.key].finalizer
    <3>1. PhaseBar' = PhaseBar /\ PhaseBar[w.key] = "guarded"
      BY <1>2, <2>1, <2>3, PhaseFacts, OnePhaseMoves
    <3>2. CASE BusyBar' = NONE
      BY <3>1, <3>2, AbstractStop
    <3>3. CASE BusyBar' = w.key
      BY <1>3, <1>5, <3>1, <3>3, AbstractWork
    <3> QED
      BY <1>3, <3>2, <3>3
  <2> QED
    BY <2>2, <2>3
<1> QED
  BY <1>4, <1>5

(* The finalizer comes off, and with no other the Collection goes: Release. *)
LEMMA RemoveFinalizerRefines ==
    ASSUME Parts, DeletionInv, FinalizerInv, PassStep, pc = "removeFinalizer",
           ~UNCHANGED collection
    PROVE  AbstractStep
<1>1. PICK obj \in CollectionObj : WriteOf(obj)
  BY WriteEffect
<1>2. /\ w.key \in Collections /\ collection[w.key] \in CollectionObj
      /\ collection[w.key].deleting
      /\ obj.deleting /\ ~obj.finalizer
      /\ obj.foreign = collection[w.key].foreign
      /\ collection'[w.key] = Reaped(obj)
      /\ \A c \in Collections \ {w.key} : collection'[c] = collection[c]
      /\ pc' = "idle"
  BY <1>1, LabelsApart DEF WriteOf, DeletionInv
<1>3. BusyBar = NONE /\ BusyBar' = NONE
  BY <1>2, LabelsApart, NotEnsuringIsNotBusy
<1>4. CASE w.key \notin OnlyOurs
  BY <1>2, <1>3, <1>4, OnePhaseMoves, AbstractStutter
<1>5. CASE w.key \in OnlyOurs
  <2>1. Reaped(obj) = NONE
    BY <1>2, <1>5, ObjectsAreThere
       DEF FinalizerInv, CachesTellFinalizers, Foreign, Reaped
  <2>2. /\ PhaseBar' = [PhaseBar EXCEPT ![w.key] = "absent"]
        /\ PhaseBar[w.key] = "retiring"
    BY <1>2, <1>5, <2>1, OnePhaseMoves, PhaseFacts
  <2> QED
    BY <1>3, <1>5, <2>2, AbstractRelease
<1> QED
  BY <1>4, <1>5

LEMMA PassStepRefines ==
    ASSUME Parts, DeletionInv, FinalizerInv, FinalizerInv', PassStep
    PROVE  AbstractStep
<1>1. PassGoesOn
  BY PassStepEffect
<1>2. CASE UNCHANGED collection
  <2>1. PhaseBar' = PhaseBar
    BY <1>2, PhasesKept
  <2>2. CASE pc' \notin EnsureLabels
    BY <2>1, <2>2, NotEnsuringIsNotBusy, AbstractStop
  <2>3. CASE pc \in EnsureLabels /\ pc' \in EnsureLabels
    <3>1. w'.key = w.key
      BY <1>1, <2>3, LabelsApart DEF PassGoesOn
    <3> QED
      BY <2>1, <2>3, <3>1, AbstractStutter DEF BusyBar
  <2>4. CASE pc \notin EnsureLabels
    BY <1>2, <2>1, <2>4, NotEnsuringIsNotBusy, StartingRefines
  <2> QED
    BY <2>2, <2>3, <2>4
<1>3. CASE ~UNCHANGED collection
  <2>1. PICK obj \in CollectionObj : WriteOf(obj)
    BY <1>3, WriteEffect
  <2>2. CASE pc \in {"initStatus", "status"}
    <3>1. PhaseBar' = PhaseBar
      <4>1. /\ w.key \in Collections /\ collection[w.key] \in CollectionObj
            /\ obj.deleting = collection[w.key].deleting
            /\ obj.finalizer = collection[w.key].finalizer
            /\ collection'[w.key] = obj
            /\ \A c \in Collections \ {w.key} : collection'[c] = collection[c]
        BY <2>1, <2>2 DEF WriteOf
      <4>2. Phase(obj) = Phase(collection[w.key])
        BY <4>1, PhaseFacts DEF CollectionObj
      <4> QED
        BY <4>1, <4>2, OnePhaseMoves
    <3>2. BusyBar' \in {NONE, BusyBar}
      <4>1. pc \in EnsureLabels
        BY <2>2, LabelsApart
      <4>2. pc' = "idle" \/ w'.key = w.key
        BY <1>1 DEF PassGoesOn
      <4> QED
        BY <4>1, <4>2, NotEnsuringIsNotBusy, LabelsApart DEF BusyBar
    <3> QED
      BY <3>1, <3>2, AbstractStop, AbstractStutter
  <2> QED
    BY <1>3, <2>1, <2>2, AddFinalizerRefines, RemoveFinalizerRefines DEF WriteOf
<1> QED
  BY <1>2, <1>3

-----------------------------------------------------------------------------
(* People: Appear and Retire.                                              *)
LEMMA CollectionEditsRefine ==
    ASSUME Parts, FinalizerInv, NEW c \in Collections, UNCHANGED workVars,
           Apply(c) \/ RequestDelete(c) \/ DropForeign(c) \/ ChangePolicy(c)
    PROVE  AbstractStep
<1>1. BusyBar' = BusyBar
  BY BusyKept DEF workVars
<1>2. ASSUME NEW obj, EditCollection(c, obj)
      PROVE  /\ \A d \in Collections \ {c} : collection'[d] = collection[d]
             /\ collection'[c] = obj
  BY <1>2 DEF EditCollection, PutCollection, Parts, CollectionStored
<1>3. CASE Apply(c)
  <2>1. Phase(NewCollection(c)) = "new"
    BY BlankType, PhaseFacts DEF NewCollection
  <2>2. Phase(collection[c]) = "absent" /\ EditCollection(c, NewCollection(c))
    BY <1>3, PhaseFacts DEF Apply
  <2>3. CASE c \in OnlyOurs
    BY <1>1, <1>2, <2>1, <2>2, <2>3, OnePhaseMoves, AbstractAppear
  <2>4. CASE c \notin OnlyOurs
    BY <1>1, <1>2, <2>2, <2>4, OnePhaseMoves, AbstractStutter
  <2> QED
    BY <2>3, <2>4
<1>4. CASE ~Apply(c)
  <2>1. PICK obj \in CollectionObj :
          /\ Edited(c, Reaped(obj))
          /\ obj.finalizer = collection[c].finalizer
          /\ collection[c].deleting => obj.deleting
          /\ ~collection[c].foreign => ~obj.foreign
    BY <1>4, CollectionEdits
  <2>2. /\ \A d \in Collections \ {c} : collection'[d] = collection[d]
        /\ collection'[c] = Reaped(obj)
        /\ collection[c] \in CollectionObj
        /\ Held(collection[c])
    BY <1>2, <2>1
       DEF Edited, Parts, CollectionStored, NothingOverdue
  <2>3. CASE c \notin OnlyOurs
    BY <1>1, <2>2, <2>3, OnePhaseMoves, AbstractStutter
  <2>4. CASE c \in OnlyOurs
    <3>1. ~collection[c].foreign /\ ~obj.foreign
      BY <2>1, <2>2, <2>4, ObjectsAreThere
         DEF FinalizerInv, CachesTellFinalizers, Foreign
    <3>2. /\ PhaseBar' = [PhaseBar EXCEPT ![c] = Phase(Reaped(obj))]
          /\ PhaseBar[c] = Phase(collection[c])
          /\ Phase(Reaped(obj)) = Phase(collection[c]) => PhaseBar' = PhaseBar
      BY <2>2, <2>4, OnePhaseMoves
    <3>3. CASE obj.deleting = collection[c].deleting
      <4>1. Reaped(obj) = obj
        BY <2>1, <2>2, <3>1, <3>3, ObjectsAreThere DEF Held, Reaped
      <4>2. Phase(Reaped(obj)) = Phase(collection[c])
        BY <2>1, <2>2, <3>3, <4>1, PhaseFacts DEF CollectionObj
      <4> QED
        BY <1>1, <3>2, <4>2, AbstractStutter
    <3>4. CASE obj.deleting /\ ~collection[c].deleting /\ obj.finalizer
      <4>1. Phase(Reaped(obj)) = "retiring" /\ Phase(collection[c]) = "guarded"
        BY <2>1, <2>2, <3>4, PhaseFacts DEF Reaped
      <4> QED
        BY <1>1, <2>4, <3>2, <4>1, AbstractRetire
    <3>5. CASE obj.deleting /\ ~collection[c].deleting /\ ~obj.finalizer
      <4>1. Phase(Reaped(obj)) = "absent" /\ Phase(collection[c]) = "new"
        BY <2>1, <2>2, <3>1, <3>5, PhaseFacts DEF Reaped
      <4> QED
        BY <1>1, <2>4, <3>2, <4>1, AbstractRetire
    <3> QED
      BY <2>1, <2>2, <3>3, <3>4, <3>5 DEF CollectionObj
  <2> QED
    BY <2>3, <2>4
<1> QED
  BY <1>3, <1>4

LEMMA NextRefines ==
    ASSUME Parts, DeletionInv, FinalizerInv, FinalizerInv', [Next]_vars
    PROVE  AbstractStep
<1>1. ASSUME UNCHANGED <<collection, pc, w>>
      PROVE  AbstractStep
  BY <1>1, PhasesKept, BusyKept, AbstractStutter
<1>2. CASE \E c \in Collections : Begin(c)
  <2>1. UNCHANGED collection /\ pc = "idle"
    BY <1>2 DEF Begin
  <2> QED
    BY <2>1, PhasesKept, NotEnsuringIsNotBusy, LabelsApart, StartingRefines
<1>3. CASE \/ UNCHANGED vars
           \/ \E c \in Collections : ObjectGone(c) \/ CannotDelete(c)
  BY <1>1, <1>3
     DEF ObjectGone, CannotDelete, vars, apiVars, collectionVars, workVars
<1>4. CASE Environment
  <2>1. CASE \E c \in Collections : \/ Apply(c) \/ RequestDelete(c)
                                    \/ DropForeign(c) \/ ChangePolicy(c)
    BY <1>4, <2>1, CollectionEditsRefine DEF Environment
  <2> QED
    BY <1>1, <1>4, <2>1, OtherEnvironment
<1>5. CASE Crash
  <2>1. UNCHANGED collection /\ pc' = "idle"
    BY <1>5 DEF Crash, Relist
  <2> QED
    BY <2>1, PhasesKept, NotEnsuringIsNotBusy, LabelsApart, AbstractStop
<1> QED
  BY <1>2, <1>3, <1>4, <1>5, PassStepRefines DEF Next, Worker, TakeKey

LEMMA InitRefines ==
    ASSUME Init
    PROVE  Lifecycle!LifecycleInit
<1>1. ASSUME NEW c \in Collections
      PROVE  Phase(collection[c]) = "new"
  BY BlankType, PhaseFacts DEF Init, ApiInit, NewCollection
<1>2. PhaseBar = [c \in OnlyOurs |-> "new"]
  BY <1>1, OursAreCollections DEF PhaseBar
<1>3. BusyBar = NONE
  BY NotEnsuringIsNotBusy, LabelsApart DEF Init
<1> QED
  BY <1>2, <1>3 DEF Lifecycle!LifecycleInit, PhaseBar, BusyBar

(***************************************************************************)
(* The collection controller keeps the promise of FinalizerLifecycle for   *)
(* every Collection that carries no finalizer but ours: it makes and fills *)
(* config maps only for a stored Collection that the finalizer keeps, and  *)
(* lets none go that it is at work on, whatever copies its passes were     *)
(* decided on and whatever is done to Collections with other finalizers.   *)
(***************************************************************************)
THEOREM CollectionLifecycleIsImplemented == Spec => LifecycleRefined
<1>1. Init => Parts /\ DeletionInv /\ FinalizerInv /\ Lifecycle!LifecycleInit
  BY InitParts, InitDeletion, InitFinalizer, InitRefines
<1>2. Parts /\ DeletionInv /\ FinalizerInv /\ [Next]_vars
        => Parts' /\ DeletionInv' /\ FinalizerInv'
  BY NextParts, NextDeletion, NextFinalizer
<1>3. Parts /\ DeletionInv /\ FinalizerInv /\ FinalizerInv' /\ [Next]_vars
        => [Lifecycle!LifecycleNext]_(Lifecycle!lifecycleVars)
  BY NextRefines DEF AbstractStep
<1> QED
  BY <1>1, <1>2, <1>3, PTL DEF Spec, LifecycleRefined, Lifecycle!LifecycleSpec
=============================================================================
