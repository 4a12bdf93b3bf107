CONSTANTS
    Contexts = {c1}
    Ours = {c1}
    Lasting = {c1}
    MaxLag = 1
    MaxFaults = 1
SPECIFICATION FairSpec
PROPERTIES ProgrammingCompletes FinalizationCompletes
CHECK_DEADLOCK FALSE
