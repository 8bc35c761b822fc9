\* Two overlapping requests on one agent and one workspace name, with either
\* backend, SIGTERM at any moment, and a client that may keep the server by watching.
\* The server stops when it has shut down.
CONSTANTS
    None = None
    Calls = {c1, c2}
    AgentIds = {1}
    Pids = {1, 2}
    WsNames = {w1}
    Projects = {p1}
    PortRange = {9100}
    OsPorts = {}
    Streams = {s1}
    MaxAutoAgents = 1
    Backends = {"exec", "mock"}
    MayExit = FALSE
    GlobalTemplates = FALSE
    Ops = {"spawn", "create", "stop", "restart", "destroy", "shutdown"}
SPECIFICATION FairSpec
INVARIANTS TypeOK HandleMatchesStatus MembersRegistered
PROPERTIES CallsReturn TransientStatusesEnd ShutdownCompletes
CHECK_DEADLOCK FALSE
