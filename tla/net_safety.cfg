CONSTANTS
    Contexts = {c1}
    Ours = {c1}
    Lasting = {}
    MaxLag = 1
    MaxFaults = 1
SPECIFICATION Spec
INVARIANTS TypeOK NeverDeletedEarly ProgrammedMeansReady
PROPERTY ProgrammedIsFinal
CHECK_DEADLOCK FALSE
