SPECIFICATION Spec
CONSTANTS
    Interval = 4
    MaxBusy = 9
    MaxFailures = 8
    None = None
INVARIANTS
    InTime
    WaitsForFailures
PROPERTY
    NeverEarly
