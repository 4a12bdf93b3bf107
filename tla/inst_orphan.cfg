CONSTANTS
    Instances = {i1}
    MaxGen = 1
    MaxRetry = 1
    MaxLag = 2
    MaxGates = 0
    MaxFaults = 0
    Disturbances = {}
    ReadYourWrites = FALSE
SPECIFICATION Spec
INVARIANT NoOrphanInstance
CHECK_DEADLOCK FALSE
