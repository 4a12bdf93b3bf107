CONSTANTS
    Instances = {i1}
    Used = {"firewall", "sa", "anchor"}
    MaxLag = 1
    MaxFaults = 1
SPECIFICATION FairSpec
INVARIANT TypeOK
PROPERTIES NeverDeletedEarly TeardownCompletes
CHECK_DEADLOCK FALSE
