CONSTANTS
    Subnets = {s1}
    MaxFaults = 2
    StatusCallFails = FALSE
SPECIFICATION FairSpec
INVARIANTS TypeOK NoLiveLeftover ProgrammedMeansReady
PROPERTIES StatusNeverLost DeletionCompletes ProgrammingCompletes
CHECK_DEADLOCK FALSE
