\* Two handlers on two workspaces, never both on the same one.
CONSTANTS
    None = None
    Calls = {c1, c2}
    AgentIds = {1, 2}
    Pids = {1, 2, 3}
    WsNames = {w1, w2}
    Projects = {p1}
    PortRange = {9100}
    OsPorts = {40000}
    Streams = {}
    MaxAutoAgents = 1
    Backends = {"exec"}
    MayExit = TRUE
    GlobalTemplates = FALSE
    Ops = {"spawn", "create", "stop", "restart", "destroy"}
SPECIFICATION DisciplinedSpec
SYMMETRY Interchangeable
INVARIANTS NoLostProcess NoLeakedPort AgentsHaveWorkspace
PROPERTIES StopReturnsStopped ProcessLifecycle
