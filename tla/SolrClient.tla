----------------------------- MODULE SolrClient -----------------------------
(***************************************************************************)
(* internal/controller/solr/solr.go: the HTTP client of Solr's basic       *)
(* authentication and rule-based authorization endpoints, together with    *)
(* the part of Solr's security.json it reads and writes.                   *)
(*                                                                         *)
(* Each operator below is one HTTP request.  UpsertRoles is a GET followed *)
(* by a POST, so its two requests are left to the caller's steps (GetRoles *)
(* and SetRoles).  A password is hashed by Solr and compared by hash; the  *)
(* model keeps the password itself, equality of hashes being equality of   *)
(* passwords.                                                              *)
(***************************************************************************)
EXTENDS Faults

CONSTANTS
    Names,           \* usernames
    Passwords,
    Roles,           \* role names Solr knows of
    DefaultRoles     \* the roles every managed user gets

ASSUME SolrAssumption ==
    /\ NONE \notin Names
    /\ NONE \notin Passwords
    /\ DefaultRoles \subseteq Roles

VARIABLES
    account,         \* authentication: username -> password, NONE if absent
    roles            \* authorization: username -> set of roles

solrVars == <<account, roles>>

SolrTypeOK ==
    /\ account \in [Names -> Passwords \cup {NONE}]
    /\ roles \in [Names -> SUBSET Roles]

SolrInit ==
    /\ account = [n \in Names |-> NONE]
    /\ roles = [n \in Names |-> {}]

-----------------------------------------------------------------------------
(***************************************************************************)
(* doPostRequest: the response's status is never looked at, so a request   *)
(* Solr refuses is a success to the caller; only a transport error is an   *)
(* error.                                                                  *)
(***************************************************************************)
Post(o) ==
    \/ /\ o = "done"
       /\ Calm
    \/ /\ o = "refused"
       /\ Disrupt("solrRefuse")
    \/ /\ o \in {"failed", "lost"}
       /\ Disrupt("solrError")

(* doGetRequest: transport errors, a status other than 200 and a body that *)
(* does not parse are all errors; a GET changes nothing.                   *)
GetFails == Disrupt("solrError") /\ UNCHANGED solrVars
GetWorks == Calm /\ UNCHANGED solrVars

(* CreateUser, and UpdateUser which is the same request.                   *)
CreateUser(n, p, o) ==
    /\ Post(o)
    /\ account' = IF Applied(o) THEN [account EXCEPT ![n] = p] ELSE account
    /\ UNCHANGED roles

(* Solr keeps the role assignments of a user it deletes.                   *)
DeleteUser(n, o) ==
    /\ Post(o)
    /\ account' = IF Applied(o) THEN [account EXCEPT ![n] = NONE] ELSE account
    /\ UNCHANGED roles

(* The POST of set-user-role: the given set replaces what was there.       *)
SetRoles(n, rs, o) ==
    /\ Post(o)
    /\ roles' = IF Applied(o) THEN [roles EXCEPT ![n] = rs] ELSE roles
    /\ UNCHANGED account

DeleteRoles(n, o) == SetRoles(n, {}, o)

(* What the three checks return when their GET succeeds.  A user whose     *)
(* secret and status are both empty is looked up under the empty name,     *)
(* which Solr does not have.                                               *)
CheckUserExistence(n) == n \in Names /\ account[n] # NONE

CheckUserOnly(n, p) == CheckUserExistence(n)

CheckUser(n, p) == CheckUserExistence(n) /\ account[n] = p

HasRoles(n) == n \in Names /\ DefaultRoles \subseteq roles[n]

-----------------------------------------------------------------------------
(* Someone else edits security.json: an account goes away, or a role is    *)
(* taken from a user.                                                      *)
SolrDrift ==
    /\ Disrupt("drift")
    /\ \E n \in Names :
         \/ /\ account[n] # NONE
            /\ account' = [account EXCEPT ![n] = NONE]
            /\ UNCHANGED roles
         \/ /\ \E r \in roles[n] : roles' = [roles EXCEPT ![n] = @ \ {r}]
            /\ UNCHANGED account
=============================================================================
