\* Stops that overlap a spawn or a restart of the same agent.
CONSTANTS
    None = None
    Calls = {c1, c2}
    AgentIds = {1}
    Pids = {1, 2}
    WsNames = {w1}
    Projects = {p1}
    PortRange = {9100, 9101}
    OsPorts = {40000}
    Streams = {}
    MaxAutoAgents = 0
    Backends = {"exec"}
    MayExit = FALSE
    GlobalTemplates = FALSE
    Ops = {"spawn", "create", "stop", "restart"}
SPECIFICATION Spec
INVARIANT StoppedIsTerminated
