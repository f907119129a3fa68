CONSTANTS
    NONE = NONE
    u1 = u1
    u2 = u2
    s1 = s1
    s2 = s2
    Users = {u1}
    Secrets = {s1}
    SecretOf <- MCSecretOf
    NsExplicit = {u1}
    ForeignFinalizers = {u1}
    Endpoints = {e1}
    NamesFor1 = {n1, n2, n3}
    NamesFor2 = {}
    HumanNames = {}
    Names <- MCNames
    OwnerOf <- MCOwnerOf
    Generate <- MCAnyOf
    Passwords = {p1}
    Roles = {"admin", "k8s"}
    DefaultRoles = {"admin", "k8s"}
    Disruptions = {}
    MaxDisruptions = 0
SPECIFICATION Spec
SYMMETRY MCSymmetry
PROPERTIES RetiredStaysRetired
CHECK_DEADLOCK FALSE
