CONSTANTS
    NONE = NONE
    c1 = c1
    c2 = c2
    m1 = m1
    m2 = m2
    Collections = {c1}
    Maps = {m1}
    WithoutNamespace = {c1}
    MapOf <- MCMapOf
    OwnNamespace = {c1}
    DeletePolicy = {c1}
    RetainPolicy = {}
    RemovalPolicy <- MCRemovalPolicy
    ForeignFinalizers = {}
    Generated = {n1, n2, n3, n4}
    HumanNames = {}
    Names <- MCNames
    Generate <- MCFirstOf
    Disruptions = {}
    MaxDisruptions = 0
SPECIFICATION FairSpec
PROPERTIES ConfigMapIsCreated
CHECK_DEADLOCK FALSE
