--------------------------- MODULE ArpLifecycle ---------------------------
(***************************************************************************)
(* The reference ARP server (arp/server): the registry of projects,        *)
(* workspaces and agents, and the RPC handlers that change it.             *)
(*                                                                         *)
(* The handlers run concurrently, one goroutine per RPC.  The registry is  *)
(* guarded by one mutex, which a handler releases whenever it calls the    *)
(* agent backend; each lock section is one action here, each backend call  *)
(* one or more actions of its own, and any two handlers interleave between *)
(* them.  What a handler carries from one section to the next (Go local    *)
(* variables) is the record calls[c].                                      *)
(***************************************************************************)
EXTENDS Integers

CONSTANTS
    Calls,        \* RPC handlers that can be in flight at once
    AgentIds,     \* agent entries, numbered in the order they are created
    Pids,         \* agent processes, numbered in the order they are started
    WsNames,      \* workspace names
    Projects,     \* project names
    PortRange,    \* Config.PortRange
    OsPorts,      \* ports the operating system hands out when asked for any
    Streams,      \* watch streams that can be open when the server stops
    MaxAutoAgents,\* bound on the templates one CreateWorkspace names
    Backends,     \* the backends the server may have been started with
    MayExit,      \* TRUE: a process may exit by itself
    GlobalTemplates, \* TRUE: Config.Templates holds the requested template
    Ops,          \* the requests clients issue: a subset of AllOps
    None          \* the absent name, id, port or handle (Go's nil, "" and 0)

AllOps == {"spawn", "create", "stop", "restart", "destroy", "shutdown"}
Ports == PortRange \cup OsPorts
\* ExecBackend runs processes, MockBackend listens in the server's own process.
AllBackends == {"exec", "mock"}

ASSUME ConstantsAssumption ==
    /\ AgentIds \subseteq Nat
    /\ Pids \subseteq Nat
    /\ Ports \subseteq Nat
    /\ PortRange \cap OsPorts = {}
    /\ MaxAutoAgents \in Nat
    /\ {MayExit, GlobalTemplates} \subseteq BOOLEAN
    /\ Backends \subseteq AllBackends
    /\ Ops \subseteq AllOps
    /\ None \notin AgentIds \cup Pids \cup WsNames \cup Projects \cup Ports

VARIABLES
    projects,     \* Server.projects: the registered names
    workspaces,   \* Server.workspaces: name -> entry, or NoWorkspace
    agents,       \* every agentEntry ever made; registered = in Server.agents
    usedPorts,    \* Server.usedPorts
    procs,        \* the agent processes the backend has started
    calls,        \* the handlers' local state
    server        \* cmd/arp-server: serving, or on its way out after SIGTERM,
                  \* and the watch streams that keep it

vars == <<projects, workspaces, agents, usedPorts, procs, calls, server>>

----------------------------------------------------------------------------
(* Records                                                                 *)

Status == {"UNSPECIFIED", "STARTING", "READY", "ERROR", "STOPPING", "STOPPED"}

Agent == [registered : BOOLEAN, status : Status, ws : WsNames \cup {None},
          project : Projects \cup {None}, port : Ports \cup {None},
          handle : Pids \cup {None}]

NoAgent == [registered |-> FALSE, status |-> "UNSPECIFIED", ws |-> None,
            project |-> None, port |-> None, handle |-> None]

\* agents is the set of ids in workspaceEntry.agents
Workspace == [project : Projects \cup {None}, agents : SUBSET AgentIds]
NoWorkspace == [project |-> None, agents |-> {}]

\* bound: the process listens on port (it does not when another one has it)
Process == [state : {"unborn", "running", "dead"}, agent : AgentIds \cup {None},
            port : Ports \cup {None}, bound : BOOLEAN]
NoProcess == [state |-> "unborn", agent |-> None, port |-> None, bound |-> FALSE]

Points == {"idle", "reserve", "start", "poll", "attach", "fail",
           "stop", "term", "stopped", "reply", "realloc", "remove"}

\* A handler: what it runs, where it is, and its local variables.  agent is the
\* entry it works on, proc the handle Backend.Spawn returns to it (or, while it
\* stops an agent, the handle it captured), todo the agents still to stop,
\* snap DestroyWorkspace's agentIDs, autos the auto-agents still to spawn.
Call == [op : AllOps \cup {None}, pc : Points, ws : WsNames \cup {None},
         agent : AgentIds \cup {None}, proc : Pids \cup {None},
         port : Ports \cup {None}, todo : SUBSET AgentIds,
         snap : SUBSET AgentIds, autos : 0..MaxAutoAgents]
NoCall == [op |-> None, pc |-> "idle", ws |-> None, agent |-> None,
           proc |-> None, port |-> None, todo |-> {}, snap |-> {}, autos |-> 0]

\* doomed: the handles Server.Stop collected and has not stopped yet
Server == [phase : {"serving", "stopping", "draining", "exited"},
           doomed : SUBSET Pids, backend : AllBackends, streams : SUBSET Streams]

TypeOK ==
    /\ projects \subseteq Projects
    /\ workspaces \in [WsNames -> Workspace]
    /\ agents \in [AgentIds -> Agent]
    /\ usedPorts \subseteq Ports
    /\ procs \in [Pids -> Process]
    /\ calls \in [Calls -> Call]
    /\ server \in Server

----------------------------------------------------------------------------
(* What the handlers read                                                  *)

Exists(w) == workspaces[w] # NoWorkspace
Running(q) == procs[q].state = "running"
IsActive(id) == agents[id].status \in {"STARTING", "READY", "STOPPING"}

\* A process listens on the port, so that portFree and net.Listen fail on it
\* and a health check of it is answered.
Bound(port) ==
    \E q \in Pids : Running(q) /\ procs[q].bound /\ procs[q].port = port

\* newID: ids are drawn at random and never drawn twice.  Numbering entries
\* (and processes) in order of creation makes the draw deterministic.
NextId(id) ==
    /\ agents[id].status = "UNSPECIFIED"
    /\ \A other \in AgentIds : other < id => agents[other].status # "UNSPECIFIED"
NextPid(q) ==
    /\ procs[q].state = "unborn"
    /\ \A other \in Pids : other < q => procs[other].state # "unborn"

InRangeFree(port) == port \in PortRange /\ port \notin usedPorts /\ ~Bound(port)

\* allocPort: the lowest port of the range that is neither reserved nor bound;
\* when there is none, any port the system finds unbound.
AllocPort(port) ==
    \/ /\ InRangeFree(port)
       /\ \A p \in PortRange : p < port => ~InRangeFree(p)
    \/ /\ port \in OsPorts /\ ~Bound(port)
       /\ \A p \in PortRange : ~InRangeFree(p)

\* Faulty variant: the reservation is not given back.
FreePortForgotten(port) == usedPorts

FreePort(port) == usedPorts \ {port}

Resolvable(project) == project \in projects \/ GlobalTemplates

----------------------------------------------------------------------------
(* What the lock sections write                                            *)

StartingEntry(w, port) ==
    [registered |-> TRUE, status |-> "STARTING", ws |-> w,
     project |-> workspaces[w].project, port |-> port, handle |-> None]

\* Faulty variant: the handle and its port are swapped.
ReadyEntrySwapped(a, q) ==
    [a EXCEPT !.port = q, !.handle = procs[q].port, !.status = "READY"]

ReadyEntry(a, q) ==
    [a EXCEPT !.handle = q, !.port = procs[q].port, !.status = "READY"]

\* Faulty variants: the handle is not cleared; the status is not set.
StoppedEntryKeepsHandle(a) == [a EXCEPT !.status = "STOPPED"]
StoppedEntryKeepsStatus(a) == [a EXCEPT !.handle = None]

StoppedEntry(a) == [a EXCEPT !.status = "STOPPED", !.handle = None]

Goto(c, pc) == calls' = [calls EXCEPT ![c].pc = pc]
Return(c) == calls' = [calls EXCEPT ![c] = NoCall]

\* The process stops running and no longer holds its port.
Terminate(q) == procs' = [procs EXCEPT ![q].state = "dead", ![q].bound = FALSE]

\* gRPC accepts requests until GracefulStop.
Serving == server.phase \in {"serving", "stopping"}
Accepting(c, op) == op \in Ops /\ calls[c].pc = "idle" /\ Serving

Init ==
    /\ projects = {}
    /\ workspaces = [w \in WsNames |-> NoWorkspace]
    /\ agents = [id \in AgentIds |-> NoAgent]
    /\ usedPorts = {}
    /\ procs = [q \in Pids |-> NoProcess]
    /\ calls = [c \in Calls |-> NoCall]
    /\ \E b \in Backends :
          server = [phase |-> "serving", doomed |-> {}, backend |-> b, streams |-> {}]

----------------------------------------------------------------------------
(* ProjectService.  Both handlers are a single lock section.               *)

RegisterProject(p) ==
    /\ Serving
    /\ projects' = projects \cup {p}
    /\ UNCHANGED <<workspaces, agents, usedPorts, procs, calls, server>>

UnregisterProject(p) ==
    /\ Serving
    /\ p \in projects
    /\ ~ \E id \in AgentIds :
            agents[id].registered /\ agents[id].project = p /\ IsActive(id)
    /\ projects' = projects \ {p}
    /\ UNCHANGED <<workspaces, agents, usedPorts, procs, calls, server>>

----------------------------------------------------------------------------
(* spawnAgentInternal, run by SpawnAgent and, once per auto-agent, by      *)
(* CreateWorkspace.  A request refused before it changes anything is a     *)
(* stuttering step and is not written down.                                *)

\* The first lock section; rec is the handler's local state on entry.
ReserveAgent(c, w, rec) ==
    \E id \in AgentIds, port \in Ports :
        /\ Exists(w) /\ Resolvable(workspaces[w].project)
        /\ NextId(id) /\ AllocPort(port)
        /\ agents' = [agents EXCEPT ![id] = StartingEntry(w, port)]
        /\ workspaces' = [workspaces EXCEPT ![w].agents = @ \cup {id}]
        /\ usedPorts' = usedPorts \cup {port}
        /\ calls' = [calls EXCEPT ![c] =
              [rec EXCEPT !.pc = "start", !.agent = id, !.port = port]]
        /\ UNCHANGED <<projects, procs, server>>

SpawnAgent(c) ==
    /\ Accepting(c, "spawn")
    /\ \E w \in WsNames :
          ReserveAgent(c, w, [NoCall EXCEPT !.op = "spawn", !.ws = w])

CreateWorkspace(c) ==
    /\ Accepting(c, "create")
    /\ \E w \in WsNames, p \in projects, n \in 0..MaxAutoAgents :
        /\ ~Exists(w)
        /\ workspaces' = [workspaces EXCEPT ![w] = [project |-> p, agents |-> {}]]
        /\ calls' = [calls EXCEPT ![c] = IF n = 0 THEN NoCall ELSE
              [NoCall EXCEPT !.op = "create", !.pc = "reserve", !.ws = w, !.autos = n]]
    /\ UNCHANGED <<projects, agents, usedPorts, procs, server>>

AutoSpawn(c) ==
    /\ calls[c].pc = "reserve"
    /\ ReserveAgent(c, calls[c].ws, calls[c])

\* The workspace is gone, the template unknown, no port left, or the id taken:
\* CreateWorkspace returns the error and keeps what it has made so far.
AutoSpawnRejected(c) ==
    /\ calls[c].pc = "reserve"
    /\ Return(c)
    /\ UNCHANGED <<projects, workspaces, agents, usedPorts, procs, server>>

\* CreateWorkspace goes on to the next of its auto-agents.
NextAuto(rec) == [rec EXCEPT !.pc = "reserve", !.autos = rec.autos - 1,
                             !.agent = None, !.proc = None, !.port = None]

\* The last lock section.  entry is written whatever became of it meanwhile.
AttachSpawned(c) ==
    /\ calls[c].pc = "attach" /\ calls[c].op \in {"spawn", "create"}
    /\ agents' = [agents EXCEPT ![calls[c].agent] = ReadyEntry(@, calls[c].proc)]
    /\ calls' = [calls EXCEPT ![c] = IF @.autos < 2 THEN NoCall ELSE NextAuto(@)]
    /\ UNCHANGED <<projects, workspaces, usedPorts, procs, server>>

\* Faulty variant: the entry keeps its status.
SpawnFailedSilently(c) ==
    /\ calls[c].pc = "fail" /\ calls[c].op \in {"spawn", "create"}
    /\ usedPorts' = FreePort(calls[c].port)
    /\ Return(c)
    /\ UNCHANGED <<projects, workspaces, agents, procs, server>>

SpawnFailed(c) ==
    /\ calls[c].pc = "fail" /\ calls[c].op \in {"spawn", "create"}
    /\ agents' = IF agents[calls[c].agent].registered
                 THEN [agents EXCEPT ![calls[c].agent].status = "ERROR"]
                 ELSE agents
    /\ usedPorts' = FreePort(calls[c].port)
    /\ Return(c)
    /\ UNCHANGED <<projects, workspaces, procs, server>>

----------------------------------------------------------------------------
(* Backend.Spawn, called without the lock by a spawn or a restart.         *)

Spawned(c, q, port, bound) ==
    procs' = [procs EXCEPT ![q] = [state |-> "running", agent |-> calls[c].agent,
                                   port |-> port, bound |-> bound]]

\* ExecBackend: the process is told its port; when another process has that
\* port it runs without listening.
ExecStart(c) ==
    /\ server.backend = "exec" /\ calls[c].pc = "start"
    /\ \E q \in Pids :
        /\ NextPid(q)
        /\ Spawned(c, q, calls[c].port, ~Bound(calls[c].port))
        /\ calls' = [calls EXCEPT ![c].pc = "poll", ![c].proc = q]
    /\ UNCHANGED <<projects, workspaces, agents, usedPorts, server>>

\* MockBackend: the server itself listens, on another port if this one is bound.
MockStart(c) ==
    /\ server.backend = "mock" /\ calls[c].pc = "start"
    /\ \E q \in Pids, port \in Ports :
        /\ NextPid(q)
        /\ ~Bound(port)
        /\ port = calls[c].port \/ (Bound(calls[c].port) /\ port \in OsPorts)
        /\ Spawned(c, q, port, TRUE)
        /\ calls' = [calls EXCEPT ![c].pc = "attach", ![c].proc = q]
    /\ UNCHANGED <<projects, workspaces, agents, usedPorts, server>>

\* The process cannot be started (ExecBackend) or no port opened (MockBackend).
StartFails(c) ==
    /\ calls[c].pc = "start"
    /\ Goto(c, "fail")
    /\ UNCHANGED <<projects, workspaces, agents, usedPorts, procs, server>>

\* The health check asks the port, not the process: whoever listens answers it.
HealthCheckPasses(c) ==
    /\ calls[c].pc = "poll"
    /\ Bound(calls[c].port)
    /\ Goto(c, "attach")
    /\ UNCHANGED <<projects, workspaces, agents, usedPorts, procs, server>>

\* Faulty variant: the process is left running.
HealthCheckFailsOnly(c) ==
    /\ calls[c].pc = "poll"
    /\ Goto(c, "fail")
    /\ UNCHANGED <<projects, workspaces, agents, usedPorts, procs, server>>

\* Retries exhausted, or the request cancelled: the backend stops the process.
HealthCheckFails(c) ==
    /\ calls[c].pc = "poll"
    /\ Terminate(calls[c].proc)
    /\ Goto(c, "fail")
    /\ UNCHANGED <<projects, workspaces, agents, usedPorts, server>>

\* Nobody waits for a process that exits by itself: no handler runs.
ProcessExits(q) ==
    /\ MayExit /\ Running(q)
    /\ Terminate(q)
    /\ UNCHANGED <<projects, workspaces, agents, usedPorts, calls, server>>

----------------------------------------------------------------------------
(* stopAgentInternal, run by StopAgent, RestartAgent and, once per agent of *)
(* its snapshot, by DestroyWorkspace.                                       *)

StopAgent(c) ==
    /\ Accepting(c, "stop")
    /\ \E id \in AgentIds :
        /\ agents[id].registered
        /\ calls' = [calls EXCEPT ![c] =
              [NoCall EXCEPT !.op = "stop", !.pc = "stop", !.agent = id, !.todo = {id}]]
    /\ UNCHANGED <<projects, workspaces, agents, usedPorts, procs, server>>

\* Faulty variant: the agent is not stopped first.
RestartAgentUnstopped(c) ==
    /\ Accepting(c, "restart")
    /\ \E id \in AgentIds :
        /\ agents[id].registered
        /\ calls' = [calls EXCEPT ![c] =
              [NoCall EXCEPT !.op = "restart", !.pc = "realloc", !.agent = id]]
    /\ UNCHANGED <<projects, workspaces, agents, usedPorts, procs, server>>

RestartAgent(c) ==
    /\ Accepting(c, "restart")
    /\ \E id \in AgentIds :
        /\ agents[id].registered
        /\ calls' = [calls EXCEPT ![c] =
              [NoCall EXCEPT !.op = "restart", !.pc = "stop", !.agent = id, !.todo = {id}]]
    /\ UNCHANGED <<projects, workspaces, agents, usedPorts, procs, server>>

DestroyWorkspace(c) ==
    /\ Accepting(c, "destroy")
    /\ \E w \in WsNames :
        LET ids == workspaces[w].agents IN
        /\ Exists(w)
        /\ calls' = [calls EXCEPT ![c] =
              [NoCall EXCEPT !.op = "destroy", !.ws = w, !.todo = ids, !.snap = ids,
                             !.pc = IF ids = {} THEN "remove" ELSE "stop"]]
    /\ UNCHANGED <<projects, workspaces, agents, usedPorts, procs, server>>

\* Where a handler goes once an agent is stopped and todo are still to stop.
AfterStop(op, todo) ==
    IF todo # {} THEN "stop"
    ELSE CASE op = "stop"    -> "reply"
           [] op = "restart" -> "realloc"
           [] OTHER          -> "remove"

\* First lock section: the handle is read, then used after the unlock.
StopBegins(c) ==
    /\ calls[c].pc = "stop"
    /\ \E id \in calls[c].todo :
        /\ agents[id].registered
        /\ agents' = [agents EXCEPT ![id].status = "STOPPING"]
        /\ calls' = [calls EXCEPT ![c] =
              [@ EXCEPT !.pc = "term", !.agent = id, !.proc = agents[id].handle,
                        !.todo = calls[c].todo \ {id}]]
    /\ UNCHANGED <<projects, workspaces, usedPorts, procs, server>>

\* Faulty variant: an agent that is gone is tried again.
StopRetries(c) ==
    /\ calls[c].pc = "stop"
    /\ \E id \in calls[c].todo : ~agents[id].registered
    /\ UNCHANGED vars

\* The agent has been removed since: stopAgentInternal returns nil.
StopSkips(c) ==
    /\ calls[c].pc = "stop"
    /\ \E id \in calls[c].todo :
        /\ ~agents[id].registered
        /\ calls' = [calls EXCEPT ![c] =
              [@ EXCEPT !.pc = AfterStop(calls[c].op, calls[c].todo \ {id}),
                        !.todo = calls[c].todo \ {id}]]
    /\ UNCHANGED <<projects, workspaces, agents, usedPorts, procs, server>>

\* handle.Stop: SIGTERM, the grace period, SIGKILL.
HandleStops(c) ==
    /\ calls[c].pc = "term"
    /\ IF calls[c].proc = None THEN UNCHANGED procs ELSE Terminate(calls[c].proc)
    /\ Goto(c, "stopped")
    /\ UNCHANGED <<projects, workspaces, agents, usedPorts, server>>

\* Second lock section.
StopEnds(c) ==
    /\ calls[c].pc = "stopped"
    /\ agents' = [agents EXCEPT ![calls[c].agent] = StoppedEntry(@)]
    /\ usedPorts' = FreePort(agents[calls[c].agent].port)
    /\ calls' = [calls EXCEPT ![c].pc = AfterStop(calls[c].op, calls[c].todo),
                              ![c].proc = None]
    /\ UNCHANGED <<projects, workspaces, procs, server>>

\* StopAgent returns a copy of the entry as it is now.
StopReturns(c) ==
    /\ calls[c].pc = "reply"
    /\ Return(c)
    /\ UNCHANGED <<projects, workspaces, agents, usedPorts, procs, server>>

----------------------------------------------------------------------------
(* The rest of RestartAgent.                                               *)

ReallocPort(c) ==
    /\ calls[c].pc = "realloc"
    /\ \E port \in Ports :
        /\ AllocPort(port)
        /\ usedPorts' = usedPorts \cup {port}
        /\ calls' = [calls EXCEPT ![c].pc = "start", ![c].port = port]
    /\ UNCHANGED <<projects, workspaces, agents, procs, server>>

ReallocFails(c) ==
    /\ calls[c].pc = "realloc"
    /\ \A port \in Ports : ~AllocPort(port)
    /\ Return(c)
    /\ UNCHANGED <<projects, workspaces, agents, usedPorts, procs, server>>

AttachRestarted(c) ==
    /\ calls[c].pc = "attach" /\ calls[c].op = "restart"
    /\ agents' = [agents EXCEPT ![calls[c].agent] = ReadyEntry(@, calls[c].proc)]
    /\ Return(c)
    /\ UNCHANGED <<projects, workspaces, usedPorts, procs, server>>

RestartFailed(c) ==
    /\ calls[c].pc = "fail" /\ calls[c].op = "restart"
    /\ agents' = [agents EXCEPT ![calls[c].agent].status = "ERROR"]
    /\ usedPorts' = FreePort(calls[c].port)
    /\ Return(c)
    /\ UNCHANGED <<projects, workspaces, procs, server>>

----------------------------------------------------------------------------
(* The last lock section of DestroyWorkspace: by name, whatever entry has  *)
(* the name by now.                                                        *)

\* Faulty variant: the entries stay in the registry.
UnregisteredNot(ids) == agents

Unregistered(ids) ==
    [id \in AgentIds |-> IF id \in ids THEN [agents[id] EXCEPT !.registered = FALSE]
                                       ELSE agents[id]]

\* Faulty variant: the workspace keeps its name.
RemoveAgentsOnly(c) ==
    /\ calls[c].pc = "remove"
    /\ agents' = Unregistered(calls[c].snap)
    /\ Return(c)
    /\ UNCHANGED <<projects, workspaces, usedPorts, procs, server>>

RemoveWorkspace(c) ==
    /\ calls[c].pc = "remove"
    /\ agents' = Unregistered(calls[c].snap)
    /\ workspaces' = [workspaces EXCEPT ![calls[c].ws] = NoWorkspace]
    /\ Return(c)
    /\ UNCHANGED <<projects, usedPorts, procs, server>>

----------------------------------------------------------------------------
(* SIGTERM to cmd/arp-server: Server.Stop, then GracefulStop, then exit.   *)

ServerStop ==
    /\ "shutdown" \in Ops /\ server.phase = "serving"
    /\ server' = [server EXCEPT !.phase = "stopping", !.doomed =
          {agents[id].handle : id \in {i \in AgentIds : agents[i].registered}} \ {None}]
    /\ UNCHANGED <<projects, workspaces, agents, usedPorts, procs, calls>>

\* Faulty variant: the handle stays on the list.
StopDoomedAgain(q) ==
    /\ q \in server.doomed
    /\ Terminate(q)
    /\ UNCHANGED <<projects, workspaces, agents, usedPorts, calls, server>>

StopDoomed(q) ==
    /\ q \in server.doomed
    /\ Terminate(q)
    /\ server' = [server EXCEPT !.doomed = @ \ {q}]
    /\ UNCHANGED <<projects, workspaces, agents, usedPorts, calls>>

\* No request and no watch is accepted any more.  Which of WatchAgent and WatchWorkspace
\* are open at this moment is a choice: before it they matter to nothing here (what they
\* are sent is in ArpWatch).
GracefulStop ==
    /\ server.phase = "stopping" /\ server.doomed = {}
    /\ \E open \in SUBSET Streams :
          server' = [server EXCEPT !.phase = "draining", !.streams = open]
    /\ UNCHANGED <<projects, workspaces, agents, usedPorts, procs, calls>>

\* The client lets go, or the last event of what it watches has been sent to it.
CloseStream(s) ==
    /\ s \in server.streams
    /\ server' = [server EXCEPT !.streams = @ \ {s}]
    /\ UNCHANGED <<projects, workspaces, agents, usedPorts, procs, calls>>

\* GracefulStop waits for every handler, those of the watch streams too.
ServerExits ==
    /\ server.phase = "draining" /\ server.streams = {}
    /\ \A c \in Calls : calls[c].pc = "idle"
    /\ server' = [server EXCEPT !.phase = "exited"]
    /\ UNCHANGED <<projects, workspaces, agents, usedPorts, procs, calls>>

----------------------------------------------------------------------------

\* A client's request reaches a free handler.
Request(c) ==
    \/ SpawnAgent(c) \/ CreateWorkspace(c)
    \/ StopAgent(c) \/ RestartAgent(c) \/ DestroyWorkspace(c)

\* A handler in flight takes its next step.
Step(c) ==
    \/ AutoSpawn(c) \/ AutoSpawnRejected(c) \/ AttachSpawned(c) \/ SpawnFailed(c)
    \/ ExecStart(c) \/ MockStart(c) \/ StartFails(c)
    \/ HealthCheckPasses(c) \/ HealthCheckFails(c)
    \/ StopBegins(c) \/ StopSkips(c) \/ HandleStops(c) \/ StopEnds(c) \/ StopReturns(c)
    \/ ReallocPort(c) \/ ReallocFails(c) \/ AttachRestarted(c) \/ RestartFailed(c)
    \/ RemoveWorkspace(c)

Shutdown ==
    \/ ServerStop \/ (\E q \in Pids : StopDoomed(q)) \/ GracefulStop
    \/ (\E s \in Streams : CloseStream(s)) \/ ServerExits

Next ==
    \/ \E p \in Projects : RegisterProject(p) \/ UnregisterProject(p)
    \/ \E c \in Calls : Request(c) \/ Step(c)
    \/ \E q \in Pids : ProcessExits(q)
    \/ Shutdown

Spec == Init /\ [][Next]_vars

\* Goroutines are scheduled and every backend call is bounded (health-check
\* retries, the grace period), so a handler in flight keeps moving, and so does
\* the shutdown once it has begun.  Nothing obliges a client to send a request
\* or to close a stream, a process to exit or an operator to send the signal.
Fairness ==
    /\ \A c \in Calls : WF_vars(Step(c))
    /\ WF_vars((\E q \in Pids : StopDoomed(q)) \/ GracefulStop \/ ServerExits)

FairSpec == Spec /\ Fairness

=============================================================================
