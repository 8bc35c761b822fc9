---------------------------- MODULE MockArpProps ----------------------------
(***************************************************************************)
(* The correctness properties of MockArp.                                  *)
(***************************************************************************)
EXTENDS MockArp

\* The types of the maps and counters.
TypeOK ==
    /\ up \in BOOLEAN
    /\ projects \subseteq Projects
    /\ IsMap(workspaces, Workspaces, Workspace)
    /\ IsMap(agents, Ids, Agent)
    /\ nextAgentN \in 1..(MaxAgents + 1)
    /\ nextPort \in 1..(MaxPorts + 1)
    /\ timers \in [Ids -> Nat]
    /\ encoding \subseteq Ids

\* DELETE and POST of the three kinds of entry keep the registry a tree, also
\* after a workspace was replaced by one of the same name: the project of a
\* workspace, the workspace of an agent and the agents a workspace lists are
\* all registered (arp_lifecycle.go:122-130, 177, 282-300, 351).
RegistryIsATree ==
    /\ \A w \in DOMAIN workspaces :
        /\ workspaces[w].project \in projects
        /\ workspaces[w].agents \subseteq {id \in DOMAIN agents : agents[id].ws = w}
    /\ \A id \in DOMAIN agents : agents[id].ws \in DOMAIN workspaces

\* No two agents share a port, however auto agents, spawns and restarts take
\* turns at the counter (arp_lifecycle.go:203, 358, 490).
PortsAreDistinct ==
    \A i, j \in DOMAIN agents : agents[i].port = agents[j].port => i = j

\* Polling an agent that starts ends: it is marked ready, unless it is stopped
\* or removed first, or the process dies.
StartingEnds ==
    \A id \in Ids :
        id \in DOMAIN agents /\ agents[id].status = "starting" ~>
            \/ ~up \/ id \notin DOMAIN agents
            \/ agents[id].status # "starting"
=============================================================================
