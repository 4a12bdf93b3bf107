CONSTANTS
    Subnets = {s1}
    MaxFaults = 1
    StatusCallFails = TRUE
SPECIFICATION FairSpec
CHECK_DEADLOCK FALSE
PROPERTY ProgrammingCompletes
