----------------------- MODULE MCCollectionController -----------------------
(***************************************************************************)
(* Model values for CollectionController: Collection c1 keeps its name in  *)
(* config map m1, every other Collection in m2.                            *)
(***************************************************************************)
EXTENDS CollectionRequirements, TLC

CONSTANTS
    c1, c2, m1, m2,
    Generated,          \* names a generator can come up with
    WithoutNamespace,   \* Collections whose spec.map names no namespace
    DeletePolicy,       \* Collections with policy delete
    RetainPolicy        \* Collections with policy retain

MCMapOf ==
    [c \in Collections |-> IF c \in WithoutNamespace THEN NONE
                           ELSE IF c = c1 THEN m1 ELSE m2]

MCRemovalPolicy ==
    [c \in Collections |-> IF c \in DeletePolicy THEN "delete"
                           ELSE IF c \in RetainPolicy THEN "retain"
                           ELSE "other"]

(* Any unused name; or, since unused names are all alike, always the same  *)
(* one, where symmetry sets cannot be used.                                *)
MCAnyOf(F) == F
MCFirstOf(F) == IF F = {} THEN {} ELSE {CHOOSE n \in F : TRUE}

MCNames == Generated \cup HumanNames

MCSymmetry == Permutations(Generated)
=============================================================================
