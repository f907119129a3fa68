---------------------- MODULE FinalizerLifecycleProofs ----------------------
(***************************************************************************)
(* What the abstract specification of the finalizer's promise implies.     *)
(***************************************************************************)
EXTENDS FinalizerLifecycle, TLAPS

LifecycleInv == LifecycleTypeOK /\ WorkIsGuarded

LEMMA MoveType ==
    ASSUME LifecycleTypeOK, NEW o \in Objects, NEW from \in Phases,
           NEW to \in Phases, Move(o, from, to)
    PROVE  /\ phase' \in [Objects -> Phases]
           /\ phase[o] = from /\ phase'[o] = to
           /\ \A p \in Objects \ {o} : phase'[p] = phase[p]
BY DEF LifecycleTypeOK, Move

LEMMA ObjectStepKeepsWorkGuarded ==
    ASSUME LifecycleInv, NEW o \in Objects,
           Appear(o) \/ Guard(o) \/ Work(o) \/ Retire(o) \/ Release(o)
    PROVE  LifecycleInv'
<1> USE DEF LifecycleInv, LifecycleTypeOK, WorkIsGuarded, Phases
<1>1. CASE Appear(o)
  BY <1>1, MoveType DEF Appear
<1>2. CASE Guard(o)
  BY <1>2, MoveType DEF Guard
<1>3. CASE Work(o)
  BY <1>3 DEF Work
<1>4. CASE Retire(o)
  BY <1>4, MoveType DEF Retire
<1>5. CASE Release(o)
  BY <1>5, MoveType DEF Release
<1> QED
  BY <1>1, <1>2, <1>3, <1>4, <1>5

(***************************************************************************)
(* The worker is only ever at work on an object that the finalizer keeps:  *)
(* what a specification that implements FinalizerLifecycle inherits.       *)
(***************************************************************************)
THEOREM WorkStaysGuarded ==
    ASSUME NOBODY \notin Objects
    PROVE  LifecycleSpec => []WorkIsGuarded
<1>1. LifecycleInit => LifecycleInv
  BY DEF LifecycleInit, LifecycleInv, LifecycleTypeOK, WorkIsGuarded, Phases
<1>2. LifecycleInv /\ [LifecycleNext]_lifecycleVars => LifecycleInv'
  <2> SUFFICES ASSUME LifecycleInv, [LifecycleNext]_lifecycleVars
               PROVE  LifecycleInv'
    OBVIOUS
  <2>1. CASE \E o \in Objects :
               Appear(o) \/ Guard(o) \/ Work(o) \/ Retire(o) \/ Release(o)
    BY <2>1, ObjectStepKeepsWorkGuarded
  <2>2. CASE Stop
    BY <2>2 DEF Stop, LifecycleInv, LifecycleTypeOK, WorkIsGuarded
  <2>3. CASE UNCHANGED lifecycleVars
    BY <2>3 DEF lifecycleVars, LifecycleInv, LifecycleTypeOK, WorkIsGuarded
  <2> QED
    BY <2>1, <2>2, <2>3 DEF LifecycleNext
<1>3. LifecycleInv => WorkIsGuarded
  BY DEF LifecycleInv
<1> QED
  BY <1>1, <1>2, <1>3, PTL DEF LifecycleSpec
=============================================================================
