SPECIFICATION MCSpec
CONSTANTS
    Requests = {r1, r2}
    Names = {n1, n2}
    Configs = {c1}
    None = None
    MaxMishaps = 2
SYMMETRY Symmetry
INVARIANTS
    TypeOK
    UniqueNames
    ClaimsAreReports
    SuccessIsReported
    BackoffMatchesHistory
PROPERTIES
    DroppedAfterRemoval
    DisturbsOnlyByRace
    DeletionStands
    LogSpec
