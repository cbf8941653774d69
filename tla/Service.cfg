SPECIFICATION MCFairSpec
CONSTANTS
    Requests = {r1, r2}
    None = None
    StartLimitBurst = 2
    MaxMishaps = 4
INVARIANTS
    ServiceTypeOK
    SchemaComplete
    OneRule
    SettingHolds
PROPERTY
    ServesAgain
