CONSTANTS
    NONE = NONE
    c1 = c1
    c2 = c2
    m1 = m1
    m2 = m2
    Collections = {c1}
    Maps = {m1}
    WithoutNamespace = {}
    MapOf <- MCMapOf
    OwnNamespace = {c1}
    DeletePolicy = {c1}
    RetainPolicy = {}
    RemovalPolicy <- MCRemovalPolicy
    ForeignFinalizers = {c1}
    Generated = {n1, n2, n3, n4}
    HumanNames = {h1}
    Names <- MCNames
    Generate <- MCAnyOf
    Disruptions = {"apiError", "solrError", "stale", "crash", "resync", "apply", "policy", "bring", "rename", "dropMap", "cloud", "lateApplication", "drop"}
    MaxDisruptions = 2
SPECIFICATION Spec
SYMMETRY MCSymmetry
INVARIANTS TypeOK
PROPERTIES FinalizerFollowsDeletion DeletesOnlyRetired
CHECK_DEADLOCK FALSE
