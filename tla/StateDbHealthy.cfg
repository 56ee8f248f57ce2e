SPECIFICATION Spec
CONSTANTS
    Procs = {p1, p2}
    Attempts = 2
    MaxFiles = 3
    MaxWrites = 1
    MaxMishaps = 0
PROPERTIES
    HealthyNeverQuarantined
CHECK_DEADLOCK FALSE
