------------------------------ MODULE MockArp ------------------------------
(***************************************************************************)
(* The mock ARP daemon of internal/mockserver/arp_lifecycle.go, against    *)
(* which the end-to-end test cases of specs/arp/spec-e2e.yaml run.         *)
(*                                                                         *)
(* Three maps under one mutex hold projects, workspaces and agents; every  *)
(* handler is one critical section.  Two things happen outside it.  Each   *)
(* spawn and each restart leaves a goroutine that marks the agent "ready"  *)
(* 100 ms later, whatever was asked in between: timers counts them.  And   *)
(* replies are encoded from the live entry after the unlock (lines 288,    *)
(* 340, 405, 444): encoding holds the ids being read, and a write to one   *)
(* of them meanwhile may make the Go runtime stop the process.             *)
(*                                                                         *)
(* Templates and the fields no handler reads are left out: how many of the *)
(* requested auto agents the project has templates for is a choice.        *)
(***************************************************************************)
EXTENDS Naturals, FiniteSets, Functions

CONSTANTS
    Projects,      \* project names clients use
    Workspaces,    \* workspace names clients use
    MaxAgents,     \* bound: agents spawned in a run
    MaxPorts       \* bound: ports handed out in a run, one per spawn or restart

ASSUME BoundsAssumption == MaxAgents \in Nat /\ MaxPorts \in Nat

VARIABLES
    up,            \* the process runs
    projects,      \* names of the registered projects
    workspaces,    \* registered workspace name -> [project, agents]
    agents,        \* registered agent id -> [ws, status, port]
    nextAgentN, nextPort,
    timers,        \* id -> its goroutines that will mark it "ready"
    encoding       \* ids of the entries being encoded outside the lock

registry == <<projects, workspaces, agents, nextAgentN, nextPort, timers>>
vars == <<up, projects, workspaces, agents, nextAgentN, nextPort, timers, encoding>>

Ids == 1..MaxAgents
Ports == 1..MaxPorts
Workspace == [project : Projects, agents : SUBSET Ids]
Agent == [ws : Workspaces, status : {"starting", "ready", "stopped"}, port : Ports]
\* f is a map with keys in S and values in T.
IsMap(f, S, T) == DOMAIN f \subseteq S /\ f \in [DOMAIN f -> T]

Init ==
    /\ up = TRUE
    /\ projects = {}
    /\ workspaces = [w \in {} |-> {}]
    /\ agents = [id \in {} |-> {}]
    /\ nextAgentN = 1 /\ nextPort = 1
    /\ timers = [id \in Ids |-> 0]
    /\ encoding = {}

----------------------------------------------------------------------------
\* n agents started in w, with consecutive ids and ports and a goroutine each.
NewIds(n) == nextAgentN .. (nextAgentN + n - 1)
Start(n, w) ==
    /\ nextAgentN + n <= MaxAgents + 1
    /\ nextPort + n <= MaxPorts + 1
    /\ agents' = [id \in DOMAIN agents \cup NewIds(n) |->
                    IF id \in NewIds(n)
                    THEN [ws |-> w, status |-> "starting", port |-> nextPort + (id - nextAgentN)]
                    ELSE agents[id]]
    /\ nextAgentN' = nextAgentN + n
    /\ nextPort' = nextPort + n
    /\ timers' = [id \in Ids |-> IF id \in NewIds(n) THEN timers[id] + 1 ELSE timers[id]]

\* Changes a bug could make, for judging the properties.

\* Active workspaces are not looked for.
UnregisterProjectUnchecked(p) ==
    /\ p \in projects
    /\ projects' = projects \ {p}
    /\ UNCHANGED <<workspaces, agents, nextAgentN, nextPort, timers>>

\* A restart keeps the counter of ports.
RestartAgentSamePort(id) ==
    /\ id \in DOMAIN agents
    /\ nextPort <= MaxPorts
    /\ agents' = [agents EXCEPT ![id].status = "starting", ![id].port = nextPort]
    /\ timers' = [timers EXCEPT ![id] = @ + 1]
    /\ UNCHANGED <<projects, workspaces, nextAgentN, nextPort>>

\* No goroutine after a restart.
RestartAgentForgotten(id) ==
    /\ id \in DOMAIN agents
    /\ nextPort <= MaxPorts
    /\ agents' = [agents EXCEPT ![id].status = "starting", ![id].port = nextPort]
    /\ nextPort' = nextPort + 1
    /\ UNCHANGED <<projects, workspaces, nextAgentN, timers>>

----------------------------------------------------------------------------
\* The handlers.

RegisterProject(p) ==
    /\ p \notin projects
    /\ projects' = projects \cup {p}
    /\ UNCHANGED <<workspaces, agents, nextAgentN, nextPort, timers>>

\* Every workspace is "active" for as long as it is registered.
UnregisterProject(p) ==
    /\ p \in projects
    /\ \A w \in DOMAIN workspaces : workspaces[w].project # p
    /\ projects' = projects \ {p}
    /\ UNCHANGED <<workspaces, agents, nextAgentN, nextPort, timers>>

\* A workspace of the same name is replaced; its agents stay.
CreateWorkspace(w, p, n) ==
    /\ p \in projects
    /\ workspaces' = [v \in DOMAIN workspaces \cup {w} |->
                        IF v = w THEN [project |-> p, agents |-> NewIds(n)] ELSE workspaces[v]]
    /\ Start(n, w)
    /\ UNCHANGED projects

DestroyWorkspace(w) ==
    /\ w \in DOMAIN workspaces
    /\ agents' = Restrict(agents, {id \in DOMAIN agents : agents[id].ws # w})
    /\ workspaces' = Restrict(workspaces, DOMAIN workspaces \ {w})
    /\ UNCHANGED <<projects, nextAgentN, nextPort, timers>>

SpawnAgent(w) ==
    /\ w \in DOMAIN workspaces
    /\ Start(1, w)
    /\ UNCHANGED <<projects, workspaces>>

StopAgent(id) ==
    /\ id \in DOMAIN agents
    /\ agents' = [agents EXCEPT ![id].status = "stopped"]
    /\ UNCHANGED <<projects, workspaces, nextAgentN, nextPort, timers>>

RestartAgent(id) ==
    /\ id \in DOMAIN agents
    /\ nextPort <= MaxPorts
    /\ agents' = [agents EXCEPT ![id].status = "starting", ![id].port = nextPort]
    /\ nextPort' = nextPort + 1
    /\ timers' = [timers EXCEPT ![id] = @ + 1]
    /\ UNCHANGED <<projects, workspaces, nextAgentN>>

\* The goroutine of a spawn or of a restart, 100 ms later.
MarkReady(id) ==
    /\ timers[id] > 0
    /\ timers' = [timers EXCEPT ![id] = @ - 1]
    /\ agents' = IF id \in DOMAIN agents THEN [agents EXCEPT ![id].status = "ready"] ELSE agents
    /\ UNCHANGED <<projects, workspaces, nextAgentN, nextPort>>

----------------------------------------------------------------------------
\* A reply that holds the entry of id is written after the unlock.
Encode(id) ==
    /\ up
    /\ id \in DOMAIN agents \ encoding
    /\ encoding' = encoding \cup {id}
    /\ UNCHANGED <<up, registry>>

Encoded(id) ==
    /\ up
    /\ id \in encoding
    /\ encoding' = encoding \ {id}
    /\ UNCHANGED <<up, registry>>

\* "fatal error: concurrent map iteration and map write": any handler or
\* goroutine may write the entry of a registered agent.
DataRace(id) ==
    /\ up
    /\ id \in encoding \cap DOMAIN agents
    /\ up' = FALSE
    /\ UNCHANGED <<registry, encoding>>

\* A critical section of a handler or of a goroutine.
Locked(A) == up /\ A /\ UNCHANGED <<up, encoding>>

Next ==
    \/ \E p \in Projects : Locked(RegisterProject(p)) \/ Locked(UnregisterProject(p))
    \/ \E w \in Workspaces :
        \/ \E p \in Projects, n \in 0..MaxAgents : Locked(CreateWorkspace(w, p, n))
        \/ Locked(DestroyWorkspace(w))
        \/ Locked(SpawnAgent(w))
    \/ \E id \in Ids :
        \/ Locked(StopAgent(id))
        \/ Locked(RestartAgent(id))
        \/ Locked(MarkReady(id))
        \/ Encode(id) \/ Encoded(id) \/ DataRace(id)

\* A sleeping goroutine wakes and gets the mutex, which no handler keeps.
Fairness == \A id \in Ids : WF_vars(Locked(MarkReady(id)))

Spec == Init /\ [][Next]_vars
FairSpec == Spec /\ Fairness

=============================================================================
