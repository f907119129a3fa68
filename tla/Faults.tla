------------------------------- MODULE Faults -------------------------------
(***************************************************************************)
(* What can go wrong around the operator, and how often.                   *)
(*                                                                         *)
(* The code calls two remote servers, the Kubernetes API and Solr.  A      *)
(* request may come back with an error, and an error says nothing about    *)
(* whether the server acted on the request.  Everything that disturbs an   *)
(* otherwise quiet system - a failed request, a crash, a stale read, an    *)
(* edit by hand - is a disruption with a kind.  A model chooses the kinds  *)
(* it admits (Disruptions) and how many of them a behaviour may contain    *)
(* (MaxDisruptions); the bound is only there to keep TLC's state space     *)
(* finite, no theorem assumes anything about it beyond its type.           *)
(***************************************************************************)
EXTENDS Naturals

CONSTANTS
    NONE,            \* no value: an absent object, key, account or condition
    Disruptions,     \* the kinds of disruption a behaviour may contain
    MaxDisruptions   \* how many disruptions a behaviour may contain

ASSUME DisruptionsAssumption == MaxDisruptions \in Nat

VARIABLE spent       \* the number of disruptions so far

Disrupt(kind) ==
    /\ kind \in Disruptions
    /\ spent < MaxDisruptions
    /\ spent' = spent + 1

Calm == UNCHANGED spent

(***************************************************************************)
(* The outcome of a request that writes:                                   *)
(*   "done"     answered with success and applied,                         *)
(*   "refused"  answered, not applied, and the caller sees no error (only  *)
(*              requests whose HTTP status the code never reads),          *)
(*   "failed"   the caller sees an error and the server did nothing,       *)
(*   "lost"     the caller sees an error but the server applied it.        *)
(***************************************************************************)
Outcomes == {"done", "refused", "failed", "lost"}

Failed(o)  == o \in {"failed", "lost"}
Applied(o) == o \in {"done", "lost"}
=============================================================================
