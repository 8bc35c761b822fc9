------------------------- MODULE ArpLifecycleProps -------------------------
(***************************************************************************)
(* The correctness properties of ArpLifecycle.                             *)
(***************************************************************************)
EXTENDS ArpLifecycle

InFlight(c) == calls[c].pc # "idle"
Registered(id) == agents[id].registered

----------------------------------------------------------------------------
(* Invariants of every interleaving of handlers.                           *)

\* The status of an entry and its handle agree although spawn, restart and the
\* two halves of stop write them from different goroutines: a READY agent has a
\* handle to stop it by, and an agent that is STARTING or STOPPED has none.
HandleMatchesStatus ==
    \A id \in AgentIds :
        /\ agents[id].status = "READY" => agents[id].handle # None
        /\ agents[id].handle # None => agents[id].status \in {"READY", "STOPPING", "ERROR"}

\* Every id a workspace lists is a registered agent of that workspace and of
\* its project, also after two DestroyWorkspace calls and a CreateWorkspace of
\* the same name have crossed: deleting agents (workspace.go:153) and deleting
\* the workspace by name (:157) stay in step.
MembersRegistered ==
    \A w \in WsNames : \A id \in workspaces[w].agents :
        /\ agents[id].registered
        /\ agents[id].ws = w
        /\ agents[id].project = workspaces[w].project

----------------------------------------------------------------------------
(* Properties that need handlers not to overlap on a workspace.            *)

\* No running process is lost: a registered entry's handle reaches it, or a
\* handler in flight is still responsible for it.
NoLostProcess ==
    \A q \in Pids : Running(q) =>
        \/ \E id \in AgentIds : Registered(id) /\ agents[id].handle = q
        \/ \E c \in Calls : InFlight(c) /\ calls[c].proc = q

\* Every reserved port belongs to a registered agent that has a process or is
\* about to, or to a handler in flight: stop, failure and destroy give back what
\* spawn and restart reserved.
NoLeakedPort ==
    \A port \in usedPorts :
        \/ \E id \in AgentIds : Registered(id) /\ IsActive(id) /\ agents[id].port = port
        \/ \E c \in Calls : InFlight(c) /\ calls[c].port = port

\* DestroyWorkspace leaves no agent behind: a registered agent is listed by the
\* workspace it was spawned in.
AgentsHaveWorkspace ==
    \A id \in AgentIds : Registered(id) => id \in workspaces[agents[id].ws].agents

\* StopAgent answers with the final status STOPPED.
StopReturnsStopped ==
    [][\A c \in Calls : calls[c].pc = "reply" /\ calls'[c].pc = "idle"
            => agents[calls[c].agent].status = "STOPPED"]_vars

\* A restart that has stopped the agent and is starting its process again.
Respawns(c, id) ==
    /\ calls[c].op = "restart" /\ calls[c].agent = id
    /\ calls[c].pc \in {"start", "poll", "attach", "fail"}

\* Where the process of an agent is in its life: what its status says, but for a
\* restart, which leaves the status STOPPED while the process is starting.
Stage(id) == IF \E c \in Calls : Respawns(c, id) THEN "STARTING" ELSE agents[id].status

\* An agent's process goes through the documented life: stopped before it is
\* started again, and READY or ERROR only after a start (overview.md:355-379).  The
\* status alone does not: of a restart it shows STOPPED and then READY or ERROR, and
\* no STARTING between them (agent.go:320-355).
Life == INSTANCE AgentLifecycle
    WITH Ids <- AgentIds, status <- [id \in AgentIds |-> Stage(id)]
ProcessLifecycle == Life!Spec

\* The workspaces a handler in flight works on.
Footprint(c) ==
    IF InFlight(c)
    THEN ({calls[c].ws} \cup {agents[id].ws : id \in {calls[c].agent} \ {None}}) \ {None}
    ELSE {}

\* Clients that keep to one request at a time per workspace.
OnePerWorkspace ==
    \A c, d \in Calls : c # d => Footprint(c) \cap Footprint(d) = {}

\* A request is sent when none is in flight on its workspace; nothing else brings two
\* handlers onto one.
DisciplinedNext ==
    \/ \E p \in Projects : RegisterProject(p) \/ UnregisterProject(p)
    \/ \E c \in Calls : Request(c) /\ OnePerWorkspace'
    \/ \E c \in Calls : Step(c)
    \/ \E q \in Pids : ProcessExits(q)
    \/ Shutdown

DisciplinedSpec == Init /\ [][DisciplinedNext]_vars

----------------------------------------------------------------------------
(* Properties the documents state and the server breaks.                   *)

\* STOPPED means that the process has terminated, once no handler is at work.
StoppedIsTerminated ==
    (\A c \in Calls : ~InFlight(c)) =>
        \A id \in AgentIds : Registered(id) /\ agents[id].status = "STOPPED" =>
            \A q \in Pids : procs[q].agent = id => ~Running(q)

\* Server.Stop terminates all running agents: none outlives the server.
NoProcessOutlivesServer ==
    server.phase = "exited" => \A q \in Pids : ~Running(q)

----------------------------------------------------------------------------
(* Liveness, under Fairness.                                               *)

\* Every RPC that spawns, stops, restarts, creates or destroys returns, whatever
\* the other handlers do to the entries it uses.
CallsReturn == \A c \in Calls : InFlight(c) ~> ~InFlight(c)

\* No registered agent stays STARTING or STOPPING.
TransientStatusesEnd ==
    \A id \in AgentIds :
        /\ Registered(id) /\ agents[id].status = "STARTING"
             ~> ~Registered(id) \/ agents[id].status # "STARTING"
        /\ agents[id].status = "STOPPING" ~> agents[id].status # "STOPPING"

\* A shutdown that has begun gets as far as GracefulStop, and that ends once the
\* clients have let go of their watch streams: no other handler keeps it waiting
\* (main.go:69-72).
ShutdownCompletes ==
    /\ server.phase = "stopping" ~> server.phase = "draining"
    /\ server.phase = "draining" /\ server.streams = {} ~> server.phase = "exited"
=============================================================================
