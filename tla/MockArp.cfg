\* Replaced workspaces, auto agents, early restarts and requests that race the
\* goroutines.  The process may die of a data race, after which nothing happens.
CONSTANTS
    Projects = {p1, p2}
    Workspaces = {w1, w2}
    MaxAgents = 2
    MaxPorts = 4
SPECIFICATION FairSpec
INVARIANTS RegistryIsATree PortsAreDistinct
PROPERTY StartingEnds
CHECK_DEADLOCK FALSE
