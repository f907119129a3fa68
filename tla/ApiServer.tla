------------------------------ MODULE ApiServer ------------------------------
(***************************************************************************)
(* What both controllers rely on the Kubernetes API server for: an object  *)
(* that is being deleted stays while it has finalizers, and an Update is   *)
(* accepted only if it was made from the stored version.                   *)
(***************************************************************************)
EXTENDS Faults

Live(obj) == obj # NONE /\ ~obj.deleting

(* An object that is being deleted goes away with its last finalizer.      *)
Reaped(obj) ==
    IF obj.deleting /\ ~obj.finalizer /\ ~obj.foreign THEN NONE ELSE obj

(* A write the worker sends.  The server accepts it when ok: the copy is   *)
(* at the stored version or, for a Create, the name is free.  Errors of    *)
(* the transport come on top of that.                                      *)
ApiWrite(ok, o) ==
    \/ /\ o = "done"
       /\ ok
       /\ Calm
    \/ /\ o = "failed"
       /\ ~ok
       /\ Calm
    \/ /\ o \in {"failed", "lost"}
       /\ ok
       /\ Disrupt("apiError")
=============================================================================
