CONSTANTS
    Contexts = {c1}
    Ours = {c1}
    Lasting = {}
    MaxLag = 1
    MaxFaults = 0
SPECIFICATION FairSpec
PROPERTY DeletionCompletes
CHECK_DEADLOCK FALSE
