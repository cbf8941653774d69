SPECIFICATION MCSpec
CONSTANTS
    Requests = {r1, r2}
    Names = {n1}
    Configs = {c1}
    None = None
    MaxMishaps = 0
PROPERTY
    ControllerKeepsDesiredState
