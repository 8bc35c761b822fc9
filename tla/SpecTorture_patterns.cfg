SPECIFICATION Spec
CONSTANTS
    Json <- MCJson
    Depth <- MCDepth
    Conditions <- MCConditions
    Special <- MCSpecial
    Wires <- MCWires
    Events <- MCEvents
    Specs <- MCSpecs
    Configs <- MCConfigs
    MaxEvents = 2
    MaxRuns = 1
    MaxCrashes = 1
    MaxOthers = 1
INVARIANTS
    PatternsHold
CHECK_DEADLOCK FALSE
