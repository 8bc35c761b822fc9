\* SIGTERM during a spawn.
CONSTANTS
    None = None
    Calls = {c1, c2}
    AgentIds = {1}
    Pids = {1, 2}
    WsNames = {w1}
    Projects = {p1}
    PortRange = {9100, 9101}
    OsPorts = {40000}
    Streams = {}
    MaxAutoAgents = 0
    Backends = {"exec"}
    MayExit = FALSE
    GlobalTemplates = FALSE
    Ops = {"spawn", "create", "shutdown"}
SPECIFICATION Spec
INVARIANT NoProcessOutlivesServer
CHECK_DEADLOCK FALSE
