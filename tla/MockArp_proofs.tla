--------------------------- MODULE MockArp_proofs ---------------------------
(***************************************************************************)
(* The registry of the mock ARP daemon stays a tree whose agents have      *)
(* ports of their own, for any number of names, agents and ports.          *)
(*                                                                         *)
(* PortsAreDistinct is not inductive: a new port is one nobody has because *)
(* the counter is ahead of every port in use, and a new id is one no other *)
(* agent and no other workspace's list has because ids are counted too.    *)
(***************************************************************************)
EXTENDS MockArpProps, TLAPS

\* The counters are ahead of what they counted.
CountersAhead ==
    \A id \in DOMAIN agents : id < nextAgentN /\ agents[id].port < nextPort

IInv == TypeOK /\ RegistryIsATree /\ PortsAreDistinct /\ CountersAhead

\* The initial state has an empty registry, of which the invariant holds
\* (newARPState, arp_lifecycle.go:22-30).
LEMMA InitEstablishes == Init => IInv
BY BoundsAssumption
   DEF Init, IInv, TypeOK, IsMap, RegistryIsATree, PortsAreDistinct, CountersAhead, Ids

\* The part every spawn shares: the types of the agents, their ports and the
\* counters survive a Start, which keeps the agents there are and adds NewIds(n).
LEMMA StartIsSafe ==
    ASSUME IInv, NEW n \in Nat, NEW w \in Workspaces, Start(n, w)
    PROVE  /\ IsMap(agents', Ids, Agent)
           /\ nextAgentN' \in 1..(MaxAgents + 1) /\ nextPort' \in 1..(MaxPorts + 1)
           /\ timers' \in [Ids -> Nat]
           /\ PortsAreDistinct' /\ CountersAhead'
           /\ DOMAIN agents' = DOMAIN agents \cup NewIds(n)
           /\ NewIds(n) \subseteq Ids
           /\ \A id \in DOMAIN agents : id \notin NewIds(n) /\ agents'[id] = agents[id]
           /\ \A id \in NewIds(n) : agents'[id].ws = w
<1> DEFINE Added(id) == [ws |-> w, status |-> "starting", port |-> nextPort + (id - nextAgentN)]
<1>1. /\ nextAgentN \in Nat /\ nextPort \in Nat
      /\ nextAgentN >= 1 /\ nextPort >= 1
      /\ nextAgentN + n <= MaxAgents + 1 /\ nextPort + n <= MaxPorts + 1
      /\ nextAgentN' = nextAgentN + n /\ nextPort' = nextPort + n
  BY BoundsAssumption DEF IInv, TypeOK, Start
<1>2. \A id \in NewIds(n) :
        /\ id \in Nat /\ id \in Ids
        /\ id >= nextAgentN /\ id < nextAgentN'
        /\ nextPort + (id - nextAgentN) \in Ports
        /\ nextPort + (id - nextAgentN) >= nextPort
        /\ nextPort + (id - nextAgentN) < nextPort'
  BY <1>1, BoundsAssumption DEF NewIds, Ids, Ports
<1>3. \A id \in NewIds(n) : Added(id) \in Agent
  BY <1>2 DEF Agent
<1>4. \A id \in DOMAIN agents :
        /\ id \in Nat /\ id \in Ids /\ id \notin NewIds(n)
        /\ agents[id] \in Agent /\ agents[id].port \in Nat
        /\ id < nextAgentN /\ agents[id].port < nextPort
  BY <1>1, <1>2, BoundsAssumption
     DEF IInv, TypeOK, IsMap, CountersAhead, Ids, Agent, Ports
<1>5. agents' = [id \in DOMAIN agents \cup NewIds(n) |->
                    IF id \in NewIds(n) THEN Added(id) ELSE agents[id]]
  BY DEF Start
<1>6. /\ DOMAIN agents' = DOMAIN agents \cup NewIds(n)
      /\ \A id \in NewIds(n) : agents'[id] = Added(id)
      /\ \A id \in DOMAIN agents : agents'[id] = agents[id]
  BY <1>4, <1>5
<1>7. IsMap(agents', Ids, Agent)
  BY <1>2, <1>3, <1>4, <1>5, <1>6 DEF IsMap
<1>8. CountersAhead'
  BY <1>1, <1>2, <1>4, <1>6 DEF CountersAhead
<1>9. PortsAreDistinct'
  <2> SUFFICES ASSUME NEW i \in DOMAIN agents', NEW j \in DOMAIN agents',
                      agents'[i].port = agents'[j].port
               PROVE  i = j
    BY DEF PortsAreDistinct
  <2>1. CASE i \in NewIds(n) /\ j \in NewIds(n)
    BY <2>1, <1>1, <1>2, <1>6
  <2>2. CASE i \in NewIds(n) /\ j \in DOMAIN agents
    BY <2>2, <1>1, <1>2, <1>4, <1>6
  <2>3. CASE i \in DOMAIN agents /\ j \in NewIds(n)
    BY <2>3, <1>1, <1>2, <1>4, <1>6
  <2>4. CASE i \in DOMAIN agents /\ j \in DOMAIN agents
    BY <2>4, <1>6 DEF IInv, PortsAreDistinct
  <2> QED BY <2>1, <2>2, <2>3, <2>4, <1>6
<1>10. timers' \in [Ids -> Nat]
  BY DEF Start, IInv, TypeOK
<1>11. nextAgentN' \in 1..(MaxAgents + 1) /\ nextPort' \in 1..(MaxPorts + 1)
  BY <1>1, BoundsAssumption
<1> QED BY <1>2, <1>4, <1>6, <1>7, <1>8, <1>9, <1>10, <1>11

\* POST /api/projects.
LEMMA RegisterProjectIsSafe ==
    ASSUME IInv, NEW p \in Projects, Locked(RegisterProject(p))
    PROVE  IInv'
BY DEF IInv, TypeOK, IsMap, RegistryIsATree, PortsAreDistinct, CountersAhead, Locked, RegisterProject

\* DELETE /api/projects/{name}: the search for active workspaces is what keeps
\* the registry a tree.
LEMMA UnregisterProjectIsSafe ==
    ASSUME IInv, NEW p \in Projects, Locked(UnregisterProject(p))
    PROVE  IInv'
BY DEF IInv, TypeOK, IsMap, RegistryIsATree, PortsAreDistinct, CountersAhead, Locked, UnregisterProject

\* POST /api/workspaces, also for a name that is taken.
LEMMA CreateWorkspaceIsSafe ==
    ASSUME IInv, NEW w \in Workspaces, NEW p \in Projects, NEW n \in 0..MaxAgents,
           Locked(CreateWorkspace(w, p, n))
    PROVE  IInv'
<1>1. n \in Nat /\ Start(n, w)
  BY BoundsAssumption DEF Locked, CreateWorkspace
<1>2. /\ IsMap(agents', Ids, Agent)
      /\ nextAgentN' \in 1..(MaxAgents + 1) /\ nextPort' \in 1..(MaxPorts + 1)
      /\ timers' \in [Ids -> Nat]
      /\ PortsAreDistinct' /\ CountersAhead'
      /\ DOMAIN agents' = DOMAIN agents \cup NewIds(n)
      /\ NewIds(n) \subseteq Ids
      /\ \A id \in DOMAIN agents : id \notin NewIds(n) /\ agents'[id] = agents[id]
      /\ \A id \in NewIds(n) : agents'[id].ws = w
  BY <1>1, StartIsSafe
<1>3. /\ DOMAIN workspaces' = DOMAIN workspaces \cup {w}
      /\ workspaces'[w] = [project |-> p, agents |-> NewIds(n)]
      /\ \A v \in DOMAIN workspaces : v # w => workspaces'[v] = workspaces[v]
      /\ workspaces' = [v \in DOMAIN workspaces' |-> workspaces'[v]]
      /\ p \in projects /\ projects' = projects /\ up' = up /\ encoding' = encoding
  BY DEF Locked, CreateWorkspace
<1>4. IsMap(workspaces', Workspaces, Workspace)
  BY <1>2, <1>3 DEF IInv, TypeOK, IsMap, Workspace
<1>5. TypeOK'
  BY <1>2, <1>3, <1>4 DEF IInv, TypeOK
<1>6. ASSUME NEW v \in DOMAIN workspaces'
      PROVE  /\ workspaces'[v].project \in projects'
             /\ workspaces'[v].agents \subseteq {id \in DOMAIN agents' : agents'[id].ws = v}
  <2>1. CASE v = w
    BY <2>1, <1>2, <1>3
  <2>2. CASE v # w
    <3>1. v \in DOMAIN workspaces /\ workspaces'[v] = workspaces[v]
      BY <2>2, <1>3
    <3> QED BY <3>1, <1>2, <1>3 DEF IInv, RegistryIsATree
  <2> QED BY <2>1, <2>2
<1>7. \A id \in DOMAIN agents' : agents'[id].ws \in DOMAIN workspaces'
  BY <1>2, <1>3 DEF IInv, RegistryIsATree
<1>8. RegistryIsATree'
  BY <1>6, <1>7 DEF RegistryIsATree
<1> QED BY <1>2, <1>5, <1>8 DEF IInv

\* DELETE /api/workspaces/{name}: agents and workspace go in one lock section.
LEMMA DestroyWorkspaceIsSafe ==
    ASSUME IInv, NEW w \in Workspaces, Locked(DestroyWorkspace(w))
    PROVE  IInv'
<1>1. /\ DOMAIN agents' = {id \in DOMAIN agents : agents[id].ws # w}
      /\ \A id \in DOMAIN agents' : agents'[id] = agents[id]
      /\ agents' = [id \in DOMAIN agents' |-> agents'[id]]
      /\ DOMAIN workspaces' = DOMAIN workspaces \ {w}
      /\ \A v \in DOMAIN workspaces' : workspaces'[v] = workspaces[v]
      /\ workspaces' = [v \in DOMAIN workspaces' |-> workspaces'[v]]
      /\ UNCHANGED <<up, projects, nextAgentN, nextPort, timers, encoding>>
  BY DEF Locked, DestroyWorkspace, Restrict
<1>2. TypeOK'
  BY <1>1 DEF IInv, TypeOK, IsMap
<1>3. RegistryIsATree'
  BY <1>1 DEF IInv, RegistryIsATree
<1>4. PortsAreDistinct' /\ CountersAhead'
  BY <1>1 DEF IInv, PortsAreDistinct, CountersAhead
<1> QED BY <1>2, <1>3, <1>4 DEF IInv

\* POST /api/agents.
LEMMA SpawnAgentIsSafe ==
    ASSUME IInv, NEW w \in Workspaces, Locked(SpawnAgent(w))
    PROVE  IInv'
<1>1. Start(1, w) /\ w \in DOMAIN workspaces /\ UNCHANGED <<up, projects, workspaces, encoding>>
  BY DEF Locked, SpawnAgent
<1>2. /\ IsMap(agents', Ids, Agent)
      /\ nextAgentN' \in 1..(MaxAgents + 1) /\ nextPort' \in 1..(MaxPorts + 1)
      /\ timers' \in [Ids -> Nat]
      /\ PortsAreDistinct' /\ CountersAhead'
      /\ DOMAIN agents' = DOMAIN agents \cup NewIds(1)
      /\ \A id \in DOMAIN agents : id \notin NewIds(1) /\ agents'[id] = agents[id]
      /\ \A id \in NewIds(1) : agents'[id].ws = w
  BY <1>1, StartIsSafe
<1>3. TypeOK'
  BY <1>1, <1>2 DEF IInv, TypeOK, IsMap
<1>4. RegistryIsATree'
  BY <1>1, <1>2 DEF IInv, RegistryIsATree
<1> QED BY <1>2, <1>3, <1>4 DEF IInv

\* What stop, restart and the goroutines do: one entry gets a status and maybe
\* a port that was never used.
LEMMA EntryUpdateIsSafe ==
    ASSUME IInv, NEW id \in DOMAIN agents, NEW e \in Agent,
           agents' = [agents EXCEPT ![id] = e],
           e.ws = agents[id].ws,
           \/ e.port = agents[id].port /\ nextPort' = nextPort
           \/ e.port = nextPort /\ nextPort' = nextPort + 1 /\ nextPort <= MaxPorts,
           timers' \in [Ids -> Nat],
           UNCHANGED <<up, projects, workspaces, nextAgentN, encoding>>
    PROVE  IInv'
<1>1. /\ DOMAIN agents' = DOMAIN agents
      /\ agents'[id] = e
      /\ \A i \in DOMAIN agents : i # id => agents'[i] = agents[i]
  OBVIOUS
<1>2. /\ \A i \in DOMAIN agents : agents[i].port \in Nat /\ agents[i].port < nextPort
      /\ nextPort \in Nat /\ nextPort' \in Nat /\ nextPort <= nextPort'
      /\ nextPort' \in 1..(MaxPorts + 1)
  BY BoundsAssumption DEF IInv, TypeOK, IsMap, CountersAhead, Agent, Ports
<1>3. TypeOK'
  BY <1>2 DEF IInv, TypeOK, IsMap
<1>4. RegistryIsATree'
  BY <1>1 DEF IInv, RegistryIsATree
<1>5. PortsAreDistinct'
  <2> SUFFICES ASSUME NEW i \in DOMAIN agents, NEW j \in DOMAIN agents,
                      agents'[i].port = agents'[j].port
               PROVE  i = j
    BY <1>1 DEF PortsAreDistinct
  <2>1. CASE i # id /\ j # id
    BY <2>1, <1>1 DEF IInv, PortsAreDistinct
  <2>2. CASE i = id /\ j # id
    BY <2>2, <1>1, <1>2 DEF IInv, PortsAreDistinct
  <2>3. CASE i # id /\ j = id
    BY <2>3, <1>1, <1>2 DEF IInv, PortsAreDistinct
  <2> QED BY <2>1, <2>2, <2>3
<1>6. CountersAhead'
  <2>1. \A i \in DOMAIN agents : i < nextAgentN'
    BY DEF IInv, CountersAhead
  <2>2. \A i \in DOMAIN agents : agents'[i].port < nextPort'
    BY <1>1, <1>2
  <2> QED BY <2>1, <2>2, <1>1 DEF CountersAhead
<1> QED BY <1>3, <1>4, <1>5, <1>6 DEF IInv

\* POST /api/agents/{id}/stop.
LEMMA StopAgentIsSafe ==
    ASSUME IInv, NEW id \in Ids, Locked(StopAgent(id))
    PROVE  IInv'
<1>1. PICK e : e = [agents[id] EXCEPT !.status = "stopped"]
  OBVIOUS
<1>2. /\ id \in DOMAIN agents
      /\ agents' = [agents EXCEPT ![id] = e]
      /\ UNCHANGED <<up, projects, workspaces, nextAgentN, nextPort, timers, encoding>>
  BY <1>1 DEF Locked, StopAgent
<1>3. e \in Agent /\ e.ws = agents[id].ws /\ e.port = agents[id].port
  BY <1>1, <1>2 DEF IInv, TypeOK, IsMap, Agent
<1>4. timers' \in [Ids -> Nat]
  BY <1>2 DEF IInv, TypeOK
<1> QED BY <1>2, <1>3, <1>4, EntryUpdateIsSafe

\* POST /api/agents/{id}/restart.
LEMMA RestartAgentIsSafe ==
    ASSUME IInv, NEW id \in Ids, Locked(RestartAgent(id))
    PROVE  IInv'
<1>1. PICK e : e = [agents[id] EXCEPT !.status = "starting", !.port = nextPort]
  OBVIOUS
<1>2. /\ id \in DOMAIN agents /\ nextPort <= MaxPorts
      /\ agents' = [agents EXCEPT ![id] = e]
      /\ nextPort' = nextPort + 1
      /\ UNCHANGED <<up, projects, workspaces, nextAgentN, encoding>>
  BY <1>1 DEF Locked, RestartAgent
<1>3. e \in Agent /\ e.ws = agents[id].ws /\ e.port = nextPort
  <2>1. nextPort \in Ports
    BY <1>2, BoundsAssumption DEF IInv, TypeOK, Ports
  <2>2. agents[id] \in Agent
    BY <1>2 DEF IInv, TypeOK, IsMap
  <2> QED BY <1>1, <2>1, <2>2 DEF Agent
<1>4. timers' \in [Ids -> Nat]
  BY DEF Locked, RestartAgent, IInv, TypeOK
<1> QED BY <1>2, <1>3, <1>4, EntryUpdateIsSafe

\* The goroutine of a spawn or restart.
LEMMA MarkReadyIsSafe ==
    ASSUME IInv, NEW id \in Ids, Locked(MarkReady(id))
    PROVE  IInv'
<1>1. timers' \in [Ids -> Nat]
  BY DEF Locked, MarkReady, IInv, TypeOK
<1>2. CASE id \in DOMAIN agents
  <2>1. PICK e : e = [agents[id] EXCEPT !.status = "ready"]
    OBVIOUS
  <2>2. /\ agents' = [agents EXCEPT ![id] = e]
        /\ UNCHANGED <<up, projects, workspaces, nextAgentN, nextPort, encoding>>
    BY <1>2, <2>1 DEF Locked, MarkReady
  <2>3. e \in Agent /\ e.ws = agents[id].ws /\ e.port = agents[id].port
    BY <1>2, <2>1 DEF IInv, TypeOK, IsMap, Agent
  <2> QED BY <1>1, <1>2, <2>2, <2>3, EntryUpdateIsSafe
<1>3. CASE id \notin DOMAIN agents
  <2>1. UNCHANGED <<up, projects, workspaces, agents, nextAgentN, nextPort, encoding>>
    BY <1>3 DEF Locked, MarkReady
  <2> QED BY <1>1, <2>1
          DEF IInv, TypeOK, IsMap, RegistryIsATree, PortsAreDistinct, CountersAhead
<1> QED BY <1>2, <1>3

\* Replies read the registry and change nothing of it.
LEMMA EncodingIsSafe ==
    ASSUME IInv, NEW id \in Ids, Encode(id) \/ Encoded(id) \/ DataRace(id)
    PROVE  IInv'
<1>1. /\ UNCHANGED registry
      /\ up' \in BOOLEAN /\ encoding' \subseteq Ids
  BY DEF IInv, TypeOK, Encode, Encoded, DataRace
<1>2. UNCHANGED <<projects, workspaces, agents, nextAgentN, nextPort, timers>>
  BY <1>1 DEF registry
<1>3. TypeOK'
  BY <1>1, <1>2 DEF IInv, TypeOK, IsMap
<1>4. RegistryIsATree' /\ PortsAreDistinct' /\ CountersAhead'
  BY <1>2 DEF IInv, RegistryIsATree, PortsAreDistinct, CountersAhead
<1> QED BY <1>3, <1>4 DEF IInv

\* Every step of every handler and goroutine keeps the invariant.
LEMMA NextPreserves == IInv /\ [Next]_vars => IInv'
<1> SUFFICES ASSUME IInv, [Next]_vars PROVE IInv'
  OBVIOUS
<1>1. ASSUME NEW p \in Projects, Locked(RegisterProject(p)) PROVE IInv'
  BY <1>1, RegisterProjectIsSafe
<1>2. ASSUME NEW p \in Projects, Locked(UnregisterProject(p)) PROVE IInv'
  BY <1>2, UnregisterProjectIsSafe
<1>3. ASSUME NEW w \in Workspaces, NEW p \in Projects, NEW n \in 0..MaxAgents,
             Locked(CreateWorkspace(w, p, n))
      PROVE  IInv'
  BY <1>3, CreateWorkspaceIsSafe
<1>4. ASSUME NEW w \in Workspaces, Locked(DestroyWorkspace(w)) PROVE IInv'
  BY <1>4, DestroyWorkspaceIsSafe
<1>5. ASSUME NEW w \in Workspaces, Locked(SpawnAgent(w)) PROVE IInv'
  BY <1>5, SpawnAgentIsSafe
<1>6. ASSUME NEW id \in Ids, Locked(StopAgent(id)) PROVE IInv'
  BY <1>6, StopAgentIsSafe
<1>7. ASSUME NEW id \in Ids, Locked(RestartAgent(id)) PROVE IInv'
  BY <1>7, RestartAgentIsSafe
<1>8. ASSUME NEW id \in Ids, Locked(MarkReady(id)) PROVE IInv'
  BY <1>8, MarkReadyIsSafe
<1>9. ASSUME NEW id \in Ids, Encode(id) \/ Encoded(id) \/ DataRace(id) PROVE IInv'
  BY <1>9, EncodingIsSafe
<1>10. CASE UNCHANGED vars
  BY <1>10 DEF vars, IInv, TypeOK, IsMap, RegistryIsATree, PortsAreDistinct, CountersAhead
<1> QED BY <1>1, <1>2, <1>3, <1>4, <1>5, <1>6, <1>7, <1>8, <1>9, <1>10 DEF Next

\* The invariant of every reachable state.
LEMMA Invariance == Spec => []IInv
BY InitEstablishes, NextPreserves, PTL DEF Spec

\* The maps hold entries of the right shape and the counters stay in range.
THEOREM TypeCorrect == Spec => []TypeOK
<1>1. IInv => TypeOK BY DEF IInv
<1> QED BY <1>1, Invariance, PTL

\* However POST, DELETE and replacement interleave, the project of a workspace,
\* the workspace of an agent and the agents a workspace lists are registered.
THEOREM RegistryStaysATree == Spec => []RegistryIsATree
<1>1. IInv => RegistryIsATree BY DEF IInv
<1> QED BY <1>1, Invariance, PTL

\* Auto agents, spawns and restarts never hand out a port twice.
THEOREM PortsStayDistinct == Spec => []PortsAreDistinct
<1>1. IInv => PortsAreDistinct BY DEF IInv
<1> QED BY <1>1, Invariance, PTL
=============================================================================
