CONSTANTS
    NONE = NONE
    c1 = c1
    c2 = c2
    m1 = m1
    m2 = m2
    Collections = {c1}
    Maps = {m1}
    WithoutNamespace = {}
    MapOf <- MCMapOf
    OwnNamespace = {c1}
    DeletePolicy = {c1}
    RetainPolicy = {}
    RemovalPolicy <- MCRemovalPolicy
    ForeignFinalizers = {}
    Generated = {n1, n2, n3, n4, n5}
    HumanNames = {}
    Names <- MCNames
    Generate <- MCFirstOf
    Disruptions = {"apiError", "solrError", "crash", "cloud", "policy", "drop"}
    MaxDisruptions = 2
SPECIFICATION FairSpec
INVARIANTS ReadyNamesAgree
PROPERTIES LifecycleRefined NamesAreKept FinalizerRemovalDeletes CollectionBecomesReady DeletionCompletes MapGoesWithCollection
CHECK_DEADLOCK FALSE
