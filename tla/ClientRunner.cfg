SPECIFICATION Spec
CONSTANTS
    Clients <- MCClients
    Bodies <- MCBodies
    MaxSends = 2
    MaxUnderWay = 1
    MaxLate = 1
    Filters <- MCFilters
INVARIANTS
    PassesAreEarned
    ConformingClientsPass
PROPERTIES
    RunEnds
CHECK_DEADLOCK FALSE
