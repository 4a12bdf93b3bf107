CONSTANTS
    ImageMap = {"cos", "ubuntu"}
    MachineTypeMap = {"d1", "d2"}
    Keys <- MCKeys
    Scenarios <- MCScenarios
SPECIFICATION FairSpec
INVARIANTS TypeOK FirewallsBeforeMachine GuestComplete ProgrammedMeansRunning ProgrammedMeansBuilt
PROPERTIES BuiltOnAccountAndSecret SpecFollows ComesToRest
CHECK_DEADLOCK FALSE
