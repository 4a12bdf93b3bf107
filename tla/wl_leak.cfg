CONSTANTS
    Instances = {i1}
    Used = {"firewall", "sa", "anchor", "secret"}
    MaxLag = 1
    MaxFaults = 0
SPECIFICATION Spec
INVARIANT NothingLeftBehind
CHECK_DEADLOCK FALSE
