------------------------- MODULE FinalizerLifecycle -------------------------
(***************************************************************************)
(* What the finalizer promises, for both controllers: whatever the         *)
(* operator makes outside the Kubernetes object - an account, a secret, a  *)
(* config map - it makes under the protection of its finalizer, and the    *)
(* object does not go away while it is at it.                              *)
(*                                                                         *)
(* There are no caches here, no versions and no failing requests: how a    *)
(* controller that decides on old copies keeps the promise is what the     *)
(* refinements show.                                                       *)
(***************************************************************************)
CONSTANTS Objects, NOBODY     \* NOBODY is none of the Objects

VARIABLES
    phase,   \* of each object: absent, or stored and "new" (no finalizer),
             \* "guarded" by the finalizer, "retiring" (to be deleted)
    busy     \* the object the worker may be making things for

lifecycleVars == <<phase, busy>>

Phases == {"absent", "new", "guarded", "retiring"}

LifecycleTypeOK ==
    /\ phase \in [Objects -> Phases]
    /\ busy \in Objects \cup {NOBODY}

LifecycleInit ==
    /\ phase = [o \in Objects |-> "new"]
    /\ busy = NOBODY

-----------------------------------------------------------------------------
Move(o, from, to) == phase[o] = from /\ phase' = [phase EXCEPT ![o] = to]

Appear(o) == Move(o, "absent", "new") /\ UNCHANGED busy

(* The worker that puts the finalizer on may go straight on to work.       *)
Guard(o) ==
    /\ Move(o, "new", "guarded")
    /\ busy = NOBODY
    /\ busy' \in {NOBODY, o}

(* Work may begin on an object whose deletion is already requested: the    *)
(* worker's copy does not show it yet.                                     *)
Work(o) ==
    /\ phase[o] \in {"guarded", "retiring"}
    /\ busy = NOBODY
    /\ busy' = o
    /\ UNCHANGED phase

Stop == busy' = NOBODY /\ UNCHANGED phase

Retire(o) ==
    /\ Move(o, "guarded", "retiring") \/ Move(o, "new", "absent")
    /\ UNCHANGED busy

(* The finalizer comes off, and nobody is at work on the object.           *)
Release(o) ==
    /\ Move(o, "retiring", "absent")
    /\ busy = NOBODY
    /\ UNCHANGED busy

LifecycleNext ==
    \/ \E o \in Objects : Appear(o) \/ Guard(o) \/ Work(o) \/ Retire(o) \/ Release(o)
    \/ Stop

LifecycleSpec == LifecycleInit /\ [][LifecycleNext]_lifecycleVars

(***************************************************************************)
(* What follows for a reader of the specification: the worker is only ever *)
(* at work on an object that the finalizer keeps.                          *)
(***************************************************************************)
WorkIsGuarded == busy # NOBODY => phase[busy] \in {"guarded", "retiring"}
=============================================================================
