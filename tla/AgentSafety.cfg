SPECIFICATION MCSpec
CONSTANTS
    Requests = {r1, r2}
    Names = {n1, n2}
    Endpoints = {e1}
    TTLs = {t1, t2}
    MTUs = {m1}
    Addresses = {a1}
    Egresses = {x1}
    Former = Former
    Leftovers = {}
    Configs <- MCConfigs
    None = None
    MaxMishaps = 1
SYMMETRY Symmetry
INVARIANTS
    AgentTypeOK
    RemovalIsReal
PROPERTIES
    TouchesOwnedOnly
    KeepsInOrder
