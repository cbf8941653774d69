SPECIFICATION MCFairSpec
CONSTANTS
    Requests = {r1, r2}
    Names = {n1}
    Configs = {c1}
    None = None
    MaxMishaps = 1
PROPERTIES
    RecordsSettle
    LiveOperationsFinish
