CONSTANTS
    NONE = NONE
    u1 = u1
    u2 = u2
    s1 = s1
    s2 = s2
    Users = {u1}
    Secrets = {s1}
    SecretOf <- MCSecretOf
    NsExplicit = {u1}
    ForeignFinalizers = {}
    Endpoints = {e1}
    NamesFor1 = {n1, n2, n3, n4}
    NamesFor2 = {}
    HumanNames = {}
    Names <- MCNames
    OwnerOf <- MCOwnerOf
    Generate <- MCFirstOf
    Passwords = {p1, p2}
    Roles = {"admin", "k8s"}
    DefaultRoles = {"admin", "k8s"}
    Disruptions = {"rotate", "strip", "dropSecret"}
    MaxDisruptions = 2
SPECIFICATION FairSpec
PROPERTIES StaysProvisioned DeletionCompletes RotationPropagates
CHECK_DEADLOCK FALSE
