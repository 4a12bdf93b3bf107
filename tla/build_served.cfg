CONSTANTS
    ImageMap = {"cos", "ubuntu"}
    MachineTypeMap = {"d1", "d2"}
    Keys <- MCKeys
    Scenarios <- MCScenarios
SPECIFICATION Spec
INVARIANT SecretsServed
CHECK_DEADLOCK FALSE
