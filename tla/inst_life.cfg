CONSTANTS
    Instances = {i1}
    MaxGen = 1
    MaxRetry = 1
    MaxLag = 2
    MaxGates = 1
    MaxFaults = 1
    Disturbances = {"SUSPENDED"}
    ReadYourWrites = FALSE
SPECIFICATION FairSpec
INVARIANTS TypeOK MachineOnRecord
PROPERTIES CreateGuarded LetGoOnlyUnseen ImplementsManagedResource DeletionCompletes ProgrammingCompletes
CHECK_DEADLOCK FALSE
