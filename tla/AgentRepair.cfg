SPECIFICATION MCFairSpec
CONSTANTS
    Requests = {r1}
    Names = {n1}
    Endpoints = {e1}
    TTLs = {t1, t2}
    MTUs = {m1}
    Addresses = {a1, a2}
    Egresses = {x1, x2}
    Former = Former
    Leftovers = {n1}
    Configs <- MCImportConfigs
    None = None
    MaxMishaps = 2
PROPERTIES
    ConvergesUnobstructed
    ImportsManagedOnly
