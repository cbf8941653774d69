SPECIFICATION MCSpec
CONSTANTS
    Requests = {r1, r2, r3}
    Names = {n1, n2}
    Endpoints = {e1}
    TTLs = {t1}
    MTUs = {m1}
    Addresses = {a1}
    Egresses = {x1}
    Former = Former
    Leftovers = {}
    Configs <- MCConfigs
    None = None
    MaxMishaps = 0
SYMMETRY Symmetry
INVARIANT
    DeletionLeavesNothing
