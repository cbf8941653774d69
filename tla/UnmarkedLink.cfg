SPECIFICATION MCFairSpec
CONSTANTS
    Requests = {r1}
    Names = {n1}
    Endpoints = {e1}
    TTLs = {t1}
    MTUs = {m1}
    Addresses = {a1}
    Egresses = {x1}
    Former = Former
    Leftovers = {}
    Configs <- MCConfigs
    None = None
    MaxMishaps = 1
PROPERTY
    EnabledConverges
