-------------------------- MODULE MCUserController --------------------------
(***************************************************************************)
(* Model values for UserController: user u1 keeps its credentials in       *)
(* secret s1, every other user in s2; the usernames are those a pass for   *)
(* u1 can generate, those a pass for another user can, and those people    *)
(* choose.                                                                 *)
(***************************************************************************)
EXTENDS UserRequirements, TLC

CONSTANTS u1, u2, s1, s2, NamesFor1, NamesFor2, HumanNames

MCNames == NamesFor1 \cup NamesFor2 \cup HumanNames

MCOwnerOf ==
    [n \in Names |-> CASE n \in NamesFor1 -> u1
                       [] n \in NamesFor2 -> u2
                       [] OTHER -> "human"]

MCSecretOf == [u \in Users |-> IF u = u1 THEN s1 ELSE s2]

(* Any unused name; or, since unused names are all alike, always the same  *)
(* one, where symmetry sets cannot be used.                                *)
MCAnyOf(F) == F
MCFirstOf(F) == IF F = {} THEN {} ELSE {CHOOSE n \in F : TRUE}

(* Passwords, and the names one pass chooses from, are only compared.      *)
MCSymmetry ==
    Permutations(NamesFor1) \cup Permutations(NamesFor2)
      \cup Permutations(Passwords)

(* Endpoints are only compared too, so a behaviour may as well begin with  *)
(* a given one.                                                            *)
MCInit == Init /\ cloud = CHOOSE e \in Endpoints : TRUE

(* The third disruption is a failure of the secret's update, the request   *)
(* whose errors are only logged.                                           *)
MCThird ==
    (spent = 2 /\ spent' = 3) => pc = "updateSecret" /\ pc' = "okStatus"

MCFairSpec == MCInit /\ [][Next /\ MCThird]_vars /\ Fairness
=============================================================================
