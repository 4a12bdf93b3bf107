CONSTANTS
    Instances = {i1}
    MaxGen = 2
    MaxRetry = 1
    MaxLag = 2
    MaxGates = 0
    MaxFaults = 1
    Disturbances = {"STOPPING"}
    ReadYourWrites = TRUE
SPECIFICATION Spec
INVARIANTS NoOrphanInstance ProgrammedMeansReady
PROPERTIES SpecNeverRegresses
CHECK_DEADLOCK FALSE
