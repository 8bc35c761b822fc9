------------------------ MODULE ArpLifecycle_proofs ------------------------
(***************************************************************************)
(* Proofs about ArpLifecycle for any number of handlers, agents, processes,*)
(* workspaces and ports, whatever the handlers' interleaving.              *)
(***************************************************************************)
EXTENDS ArpLifecycleProps, TLAPS

----------------------------------------------------------------------------
(* The inductive invariant.                                                *)

\* A handler that polls or attaches holds the process it has started, and one
\* with auto-agents left to spawn knows their workspace.
LocalsSet ==
    \A c \in Calls :
        /\ calls[c].pc \in {"poll", "attach"} => calls[c].proc \in Pids
        /\ calls[c].pc = "reserve" \/ calls[c].autos # 0 => calls[c].ws \in WsNames

Typed == TypeOK /\ LocalsSet

\* An entry is in the registry only once it has been made.
RegisteredIsBorn == \A id \in AgentIds : agents[id].registered => agents[id].status # "UNSPECIFIED"

\* The agents DestroyWorkspace is to unregister are of the workspace it removes.
SnapOfWorkspace ==
    \A c \in Calls : \A id \in calls[c].snap :
        agents[id].status # "UNSPECIFIED" /\ agents[id].ws = calls[c].ws

Membership == RegisteredIsBorn /\ SnapOfWorkspace /\ MembersRegistered

----------------------------------------------------------------------------
(* Types                                                                   *)

\* The null records are of their types.
LEMMA NullRecords ==
    /\ NoAgent \in Agent /\ NoWorkspace \in Workspace
    /\ NoProcess \in Process /\ NoCall \in Call
BY ConstantsAssumption DEF NoAgent, Agent, NoWorkspace, Workspace, NoProcess,
    Process, NoCall, Call, Status, Points

\* The server starts with empty tables and idle handlers.
LEMMA TypedInit == Init => Typed
<1> SUFFICES ASSUME Init PROVE Typed  OBVIOUS
<1>1. TypeOK
  BY NullRecords, ConstantsAssumption DEF Init, TypeOK, Server
<1>2. LocalsSet
  BY DEF Init, LocalsSet, NoCall
<1> QED  BY <1>1, <1>2 DEF Typed

\* A handler's next local state is well-formed whenever its fields are.
LEMMA Handler ==
    ASSUME Typed, NEW c \in Calls, NEW r \in Call,
           r.pc \in {"poll", "attach"} => r.proc \in Pids,
           r.pc = "reserve" \/ r.autos # 0 => r.ws \in WsNames,
           calls' = [calls EXCEPT ![c] = r]
    PROVE  calls' \in [Calls -> Call] /\ LocalsSet'
<1>1. calls \in [Calls -> Call] /\ LocalsSet  BY DEF Typed, TypeOK
<1>2. calls' \in [Calls -> Call]  BY <1>1
<1>3. ASSUME NEW d \in Calls
      PROVE  /\ calls'[d].pc \in {"poll", "attach"} => calls'[d].proc \in Pids
             /\ calls'[d].pc = "reserve" \/ calls'[d].autos # 0 => calls'[d].ws \in WsNames
  <2>1. CASE d = c  BY <1>1, <2>1
  <2>2. CASE d # c  BY <1>1, <2>2 DEF LocalsSet
  <2> QED  BY <2>1, <2>2
<1> QED  BY <1>2, <1>3 DEF LocalsSet

\* The local variables of a handler that runs nothing.
LEMMA NullCall ==
    NoCall \in Call /\ NoCall.pc = "idle" /\ NoCall.autos = 0 /\ NoCall.snap = {}
BY NullRecords DEF NoCall

\* The values a handler that has just been called starts with.
LEMMA EntryConstants ==
    /\ "spawn" \in AllOps /\ "create" \in AllOps /\ "stop" \in AllOps
    /\ "restart" \in AllOps /\ "destroy" \in AllOps
    /\ "reserve" \in Points /\ "stop" \in Points /\ "remove" \in Points
BY ConstantsAssumption DEF AllOps, Points

\* A handler that returns needs nothing any more.
LEMMA Returns ==
    ASSUME Typed, NEW c \in Calls, Return(c)
    PROVE  calls' \in [Calls -> Call] /\ LocalsSet'
BY NullCall, Handler DEF Return

\* A handler moves to a point where it needs no more than it has.
LEMMA Moves ==
    ASSUME Typed, NEW c \in Calls, NEW pc \in Points, Goto(c, pc),
           pc # "reserve", pc \in {"poll", "attach"} => calls[c].proc \in Pids
    PROVE  calls' \in [Calls -> Call] /\ LocalsSet'
<1> DEFINE r == [calls[c] EXCEPT !.pc = pc]
<1>1. calls[c] \in Call /\ LocalsSet  BY DEF Typed, TypeOK
<1>2. /\ r \in Call /\ r.pc = pc /\ r.proc = calls[c].proc
      /\ r.ws = calls[c].ws /\ r.autos = calls[c].autos
  BY <1>1 DEF Call
<1>3. calls' = [calls EXCEPT ![c] = r]  BY DEF Goto
<1>4. r.autos # 0 => r.ws \in WsNames  BY <1>1, <1>2 DEF LocalsSet
<1> HIDE DEF r
<1> QED  BY <1>2, <1>3, <1>4, Handler

\* Terminating no process, or one, keeps the process table well-formed.
LEMMA Terminated ==
    ASSUME procs \in [Pids -> Process], NEW q, Terminate(q)
    PROVE  procs' \in [Pids -> Process]
<1>1. \A p \in Process : [p EXCEPT !.state = "dead", !.bound = FALSE] \in Process
  BY DEF Process
<1>2. CASE q \in Pids
  <2> DEFINE p == [procs[q] EXCEPT !.state = "dead", !.bound = FALSE]
  <2>1. procs[q] \in Process  BY <1>2
  <2>2. p \in Process  BY <1>1, <2>1
  <2>3. procs' = [procs EXCEPT ![q] = p]  BY <1>2 DEF Terminate
  <2> HIDE DEF p
  <2> QED  BY <2>2, <2>3
<1>3. CASE q \notin Pids
  BY <1>3 DEF Terminate
<1> QED  BY <1>2, <1>3

\* Writing a well-formed entry, or writing outside the table, keeps its type.
LEMMA EntryWritten ==
    ASSUME agents \in [AgentIds -> Agent], NEW id, NEW e,
           id \in AgentIds => e \in Agent, agents' = [agents EXCEPT ![id] = e]
    PROVE  agents' \in [AgentIds -> Agent]
OBVIOUS

\* A new status, and a dropped handle, keep an entry well-formed.
LEMMA EntryStatus ==
    ASSUME NEW a \in Agent
    PROVE  /\ \A s \in Status : [a EXCEPT !.status = s] \in Agent
           /\ StoppedEntry(a) \in Agent
<1>1. \A s \in Status : [a EXCEPT !.status = s] \in Agent  BY DEF Agent
<1>2. StoppedEntry(a) \in Agent  BY DEF Agent, Status, StoppedEntry
<1> QED  BY <1>1, <1>2

\* The entry a handler makes READY has a process for its handle.
LEMMA Attached ==
    ASSUME Typed, NEW c \in Calls, calls[c].pc = "attach",
           agents' = [agents EXCEPT ![calls[c].agent] = ReadyEntry(@, calls[c].proc)]
    PROVE  agents' \in [AgentIds -> Agent]
<1>1. calls[c].proc \in Pids  BY DEF Typed, LocalsSet
<1> DEFINE id == calls[c].agent
           e == ReadyEntry(agents[id], calls[c].proc)
<1>2. agents \in [AgentIds -> Agent] /\ procs \in [Pids -> Process]
  BY DEF Typed, TypeOK
<1>3. ASSUME id \in AgentIds  PROVE e \in Agent
  <2>1. agents[id] \in Agent  BY <1>2, <1>3
  <2>2. procs[calls[c].proc] \in Process  BY <1>1, <1>2
  <2>3. procs[calls[c].proc].port \in Ports \cup {None}  BY <2>2 DEF Process
  <2> QED  BY <1>1, <2>1, <2>3 DEF ReadyEntry, Agent, Status
<1>4. agents' = [agents EXCEPT ![id] = e]  OBVIOUS
<1> HIDE DEF e, id
<1> QED  BY <1>2, <1>3, <1>4, EntryWritten

\* The first lock section of a spawn: a new entry, id and port.
LEMMA TypedReserve ==
    ASSUME Typed, NEW c \in Calls, NEW w \in WsNames, NEW rec \in Call,
           rec.autos # 0 => rec.ws \in WsNames, ReserveAgent(c, w, rec)
    PROVE  Typed'
<1> USE DEF Typed, TypeOK
<1>1. PICK id \in AgentIds, port \in Ports :
          /\ agents' = [agents EXCEPT ![id] = StartingEntry(w, port)]
          /\ workspaces' = [workspaces EXCEPT ![w].agents = @ \cup {id}]
          /\ usedPorts' = usedPorts \cup {port}
          /\ calls' = [calls EXCEPT ![c] =
                [rec EXCEPT !.pc = "start", !.agent = id, !.port = port]]
          /\ UNCHANGED <<projects, procs, server>>
  BY DEF ReserveAgent
<1>2. StartingEntry(w, port) \in Agent
  BY DEF StartingEntry, Agent, Status, Workspace
<1>3. agents' \in [AgentIds -> Agent]  BY <1>1, <1>2
<1>4. workspaces' \in [WsNames -> Workspace]  BY <1>1 DEF Workspace
<1> DEFINE r == [rec EXCEPT !.pc = "start", !.agent = id, !.port = port]
<1>5. r \in Call /\ r.pc = "start" /\ r.autos = rec.autos /\ r.ws = rec.ws  BY DEF Call, Points
<1> HIDE DEF r
<1>6. calls' \in [Calls -> Call] /\ LocalsSet'
  BY <1>1, <1>5, Handler DEF r
<1> QED  BY <1>1, <1>3, <1>4, <1>6

\* The spawning handlers' steps.
LEMMA TypedSpawn ==
    ASSUME Typed, NEW c \in Calls,
           \/ SpawnAgent(c) \/ CreateWorkspace(c) \/ AutoSpawn(c) \/ AutoSpawnRejected(c)
           \/ AttachSpawned(c) \/ SpawnFailed(c)
    PROVE  Typed'
<1>0. calls[c] \in Call /\ LocalsSet /\ TypeOK  BY DEF Typed, TypeOK
<1>1. CASE SpawnAgent(c)
  <2>1. PICK w \in WsNames : ReserveAgent(c, w, [NoCall EXCEPT !.op = "spawn", !.ws = w])
    BY <1>1 DEF SpawnAgent
  <2> DEFINE r == [NoCall EXCEPT !.op = "spawn", !.ws = w]
  <2>2. r \in Call /\ r.autos = 0
    BY NullCall, EntryConstants DEF Call
  <2> HIDE DEF r
  <2> QED  BY <2>1, <2>2, TypedReserve DEF r
<1>2. CASE CreateWorkspace(c)
  <2>1. PICK w \in WsNames, p \in projects, n \in 0..MaxAutoAgents :
           /\ workspaces' = [workspaces EXCEPT ![w] = [project |-> p, agents |-> {}]]
           /\ calls' = [calls EXCEPT ![c] = IF n = 0 THEN NoCall ELSE
                 [NoCall EXCEPT !.op = "create", !.pc = "reserve", !.ws = w, !.autos = n]]
    BY <1>2 DEF CreateWorkspace
  <2>2. workspaces' \in [WsNames -> Workspace]
    BY <1>0, <2>1 DEF TypeOK, Workspace
  <2> DEFINE r == IF n = 0 THEN NoCall ELSE
                 [NoCall EXCEPT !.op = "create", !.pc = "reserve", !.ws = w, !.autos = n]
  <2>3. r \in Call /\ r.pc \in {"idle", "reserve"}
        /\ (r.pc = "reserve" \/ r.autos # 0 => r.ws \in WsNames)
    BY NullCall, EntryConstants DEF Call
  <2> HIDE DEF r
  <2>4. calls' \in [Calls -> Call] /\ LocalsSet'
    BY <2>1, <2>3, Handler DEF r
  <2> QED  BY <1>0, <1>2, <2>2, <2>4 DEF Typed, TypeOK, CreateWorkspace
<1>3. CASE AutoSpawn(c)
  BY <1>0, <1>3, TypedReserve DEF AutoSpawn, LocalsSet
<1>4. CASE AutoSpawnRejected(c)
  BY <1>0, <1>4, Returns DEF Typed, TypeOK, AutoSpawnRejected
<1>5. CASE AttachSpawned(c)
  <2>1. agents' \in [AgentIds -> Agent]
    BY <1>0, <1>5, Attached DEF AttachSpawned, LocalsSet
  <2> DEFINE next == NextAuto(calls[c])
  <2>2. CASE calls[c].autos < 2
    <3>1. Return(c)  BY <1>5, <2>2 DEF AttachSpawned, Return
    <3> QED  BY <1>0, <1>5, <2>1, <3>1, Returns DEF Typed, TypeOK, AttachSpawned
  <2>3. CASE ~(calls[c].autos < 2)
    <3>1. calls[c].autos \in 0..MaxAutoAgents  BY <1>0 DEF Call
    <3>2. calls[c].autos - 1 \in 0..MaxAutoAgents /\ calls[c].autos # 0
      BY <2>3, <3>1, ConstantsAssumption
    <3>3. next \in Call /\ next.pc = "reserve"  BY <1>0, <3>2 DEF Call, Points, NextAuto
    <3>4. next.ws \in WsNames  BY <1>0, <3>2 DEF LocalsSet, Call, NextAuto
    <3>5. calls' = [calls EXCEPT ![c] = next]
      BY <1>5, <2>3 DEF AttachSpawned
    <3> HIDE DEF next
    <3>6. calls' \in [Calls -> Call] /\ LocalsSet'  BY <3>3, <3>4, <3>5, Handler
    <3> QED  BY <1>0, <1>5, <2>1, <3>6 DEF Typed, TypeOK, AttachSpawned
  <2> QED  BY <2>2, <2>3
<1>6. CASE SpawnFailed(c)
  <2>1. agents' \in [AgentIds -> Agent] /\ usedPorts' \subseteq Ports
    <3> DEFINE id == calls[c].agent
               e == [agents[id] EXCEPT !.status = "ERROR"]
    <3>1. usedPorts' \subseteq Ports
      BY <1>0, <1>6 DEF SpawnFailed, TypeOK, FreePort
    <3>2. agents \in [AgentIds -> Agent]  BY <1>0 DEF TypeOK
    <3>3. agents' = [agents EXCEPT ![id] = e] \/ agents' = agents
      BY <1>6 DEF SpawnFailed
    <3>4. id \in AgentIds => e \in Agent  BY <3>2, EntryStatus DEF Status
    <3> HIDE DEF e, id
    <3> QED  BY <3>1, <3>2, <3>3, <3>4, EntryWritten
  <2> QED  BY <1>0, <1>6, <2>1, Returns DEF Typed, TypeOK, SpawnFailed
<1> QED  BY <1>1, <1>2, <1>3, <1>4, <1>5, <1>6

\* The steps of Backend.Spawn and of a process.
LEMMA TypedBackend ==
    ASSUME Typed, NEW c \in Calls,
           \/ ExecStart(c) \/ MockStart(c) \/ StartFails(c)
           \/ HealthCheckPasses(c) \/ HealthCheckFails(c)
    PROVE  Typed'
<1>0. calls[c] \in Call /\ LocalsSet /\ TypeOK  BY DEF Typed, TypeOK
<1>1. ASSUME NEW q \in Pids, NEW port \in Ports \cup {None}, NEW bound \in BOOLEAN,
             NEW pc \in {"poll", "attach"}, Spawned(c, q, port, bound),
             calls' = [calls EXCEPT ![c].pc = pc, ![c].proc = q],
             UNCHANGED <<projects, workspaces, agents, usedPorts, server>>
      PROVE  Typed'
  <2> DEFINE r == [calls[c] EXCEPT !.pc = pc, !.proc = q]
  <2>1. procs' \in [Pids -> Process]
    BY <1>0, <1>1 DEF TypeOK, Spawned, Process, Call
  <2>2. /\ r \in Call /\ r.pc = pc /\ r.proc = q
        /\ r.autos = calls[c].autos /\ r.ws = calls[c].ws
    BY <1>0, <1>1 DEF Call, Points
  <2>3. calls' = [calls EXCEPT ![c] = r]  BY <1>0, <1>1 DEF TypeOK
  <2>4. r.autos # 0 => r.ws \in WsNames  BY <1>0, <2>2 DEF LocalsSet
  <2> HIDE DEF r
  <2>5. calls' \in [Calls -> Call] /\ LocalsSet'  BY <1>1, <2>2, <2>3, <2>4, Handler
  <2> QED  BY <1>0, <1>1, <2>1, <2>5 DEF Typed, TypeOK
<1>2. CASE ExecStart(c)
  <2>1. calls[c].port \in Ports \cup {None} /\ Bound(calls[c].port) \in BOOLEAN
    BY <1>0 DEF Call, Bound
  <2> QED  BY <1>1, <1>2, <2>1 DEF ExecStart
<1>3. CASE MockStart(c)
  BY <1>1, <1>3 DEF MockStart
<1>4. ASSUME NEW pc \in Points, Goto(c, pc), pc \notin {"reserve", "poll"},
             pc = "attach" => calls[c].proc \in Pids,
             UNCHANGED <<projects, workspaces, agents, usedPorts, server>>,
             procs' \in [Pids -> Process]
      PROVE  Typed'
  <2>1. calls' \in [Calls -> Call] /\ LocalsSet'  BY <1>4, Moves
  <2> QED  BY <1>0, <1>4, <2>1 DEF Typed, TypeOK
<1>5. CASE StartFails(c)
  BY <1>0, <1>4, <1>5 DEF StartFails, Points, TypeOK
<1>6. CASE HealthCheckPasses(c)
  BY <1>0, <1>4, <1>6 DEF HealthCheckPasses, Points, TypeOK, LocalsSet
<1>7. CASE HealthCheckFails(c)
  BY <1>0, <1>4, <1>7, Terminated DEF HealthCheckFails, Points, TypeOK
<1> QED  BY <1>2, <1>3, <1>5, <1>6, <1>7

\* Where a handler goes after it stopped an agent.
LEMMA AfterStopped ==
    ASSUME NEW op, NEW todo
    PROVE  AfterStop(op, todo) \in Points
BY DEF AfterStop, Points

\* The steps of stopAgentInternal and of its callers.
LEMMA TypedStop ==
    ASSUME Typed, NEW c \in Calls,
           \/ StopAgent(c) \/ RestartAgent(c) \/ DestroyWorkspace(c)
           \/ StopBegins(c) \/ StopSkips(c) \/ HandleStops(c) \/ StopEnds(c) \/ StopReturns(c)
    PROVE  Typed'
<1>0. calls[c] \in Call /\ LocalsSet /\ TypeOK  BY DEF Typed, TypeOK
<1>1. ASSUME NEW r \in Call, calls' = [calls EXCEPT ![c] = r],
             r.pc \notin {"poll", "attach", "reserve"}, r.autos # 0 => r.ws \in WsNames,
             UNCHANGED <<projects, workspaces, procs, server>>,
             agents' \in [AgentIds -> Agent], usedPorts' \subseteq Ports
      PROVE  Typed'
  <2>1. calls' \in [Calls -> Call] /\ LocalsSet'  BY <1>1, Handler
  <2> QED  BY <1>0, <1>1, <2>1 DEF Typed, TypeOK
<1>2. \A op, todo : AfterStop(op, todo) \in {"stop", "reply", "realloc", "remove"}
  BY DEF AfterStop
<1>3. CASE StopAgent(c)
  <2>1. PICK id \in AgentIds : calls' = [calls EXCEPT ![c] =
              [NoCall EXCEPT !.op = "stop", !.pc = "stop", !.agent = id, !.todo = {id}]]
    BY <1>3 DEF StopAgent
  <2> DEFINE r == [NoCall EXCEPT !.op = "stop", !.pc = "stop", !.agent = id, !.todo = {id}]
  <2>2. r \in Call /\ r.pc = "stop" /\ r.autos = 0
    BY NullCall, EntryConstants DEF Call
  <2> HIDE DEF r
  <2> QED  BY <1>0, <1>1, <1>3, <2>1, <2>2 DEF StopAgent, TypeOK, r
<1>4. CASE RestartAgent(c)
  <2>1. PICK id \in AgentIds : calls' = [calls EXCEPT ![c] =
              [NoCall EXCEPT !.op = "restart", !.pc = "stop", !.agent = id, !.todo = {id}]]
    BY <1>4 DEF RestartAgent
  <2> DEFINE r == [NoCall EXCEPT !.op = "restart", !.pc = "stop", !.agent = id, !.todo = {id}]
  <2>2. r \in Call /\ r.pc = "stop" /\ r.autos = 0
    BY NullCall, EntryConstants DEF Call
  <2> HIDE DEF r
  <2> QED  BY <1>0, <1>1, <1>4, <2>1, <2>2 DEF RestartAgent, TypeOK, r
<1>5. CASE DestroyWorkspace(c)
  <2>1. PICK w \in WsNames : calls' = [calls EXCEPT ![c] =
              [NoCall EXCEPT !.op = "destroy", !.ws = w, !.todo = workspaces[w].agents,
                             !.snap = workspaces[w].agents,
                             !.pc = IF workspaces[w].agents = {} THEN "remove" ELSE "stop"]]
    BY <1>5 DEF DestroyWorkspace
  <2> DEFINE ids == workspaces[w].agents
             r == [NoCall EXCEPT !.op = "destroy", !.ws = w, !.todo = ids, !.snap = ids,
                             !.pc = IF ids = {} THEN "remove" ELSE "stop"]
  <2>2. ids \subseteq AgentIds  BY <1>0 DEF TypeOK, Workspace
  <2> HIDE DEF ids
  <2>3. r \in Call /\ r.pc \in {"remove", "stop"} /\ r.autos = 0
    BY <2>2, NullCall, EntryConstants DEF Call
  <2>4. calls' = [calls EXCEPT ![c] = r]  BY <2>1 DEF ids
  <2> HIDE DEF r
  <2>5. UNCHANGED <<projects, workspaces, agents, usedPorts, procs, server>>
    BY <1>5 DEF DestroyWorkspace
  <2>6. agents' \in [AgentIds -> Agent] /\ usedPorts' \subseteq Ports
    BY <1>0, <2>5 DEF TypeOK
  <2> QED  BY <1>1, <2>3, <2>4, <2>5, <2>6
<1>6. CASE StopBegins(c)
  <2>1. PICK id \in calls[c].todo :
           /\ agents' = [agents EXCEPT ![id].status = "STOPPING"]
           /\ calls' = [calls EXCEPT ![c] =
                 [@ EXCEPT !.pc = "term", !.agent = id, !.proc = agents[id].handle,
                           !.todo = calls[c].todo \ {id}]]
    BY <1>6 DEF StopBegins
  <2>2. id \in AgentIds  BY <1>0 DEF Call
  <2> DEFINE r == [calls[c] EXCEPT !.pc = "term", !.agent = id, !.proc = agents[id].handle,
                                   !.todo = calls[c].todo \ {id}]
  <2>3. r \in Call /\ r.pc = "term" /\ r.autos = calls[c].autos /\ r.ws = calls[c].ws
    BY <1>0, <2>2 DEF Call, Points, TypeOK, Agent
  <2>4. calls' = [calls EXCEPT ![c] = r]  BY <2>1, <1>0 DEF Call
  <2>5. agents' \in [AgentIds -> Agent]  BY <1>0, <2>1, <2>2 DEF TypeOK, Agent, Status
  <2> HIDE DEF r
  <2> QED  BY <1>0, <1>1, <1>6, <2>3, <2>4, <2>5 DEF StopBegins, LocalsSet, TypeOK
<1>7. CASE StopSkips(c)
  <2>1. PICK id \in calls[c].todo : calls' = [calls EXCEPT ![c] =
              [@ EXCEPT !.pc = AfterStop(calls[c].op, calls[c].todo \ {id}),
                        !.todo = calls[c].todo \ {id}]]
    BY <1>7 DEF StopSkips
  <2> DEFINE r == [calls[c] EXCEPT !.pc = AfterStop(calls[c].op, calls[c].todo \ {id}),
                                   !.todo = calls[c].todo \ {id}]
  <2>2. /\ r \in Call /\ r.pc \in {"stop", "reply", "realloc", "remove"}
        /\ r.autos = calls[c].autos /\ r.ws = calls[c].ws
    BY <1>0, <1>2, AfterStopped DEF Call
  <2>3. calls' = [calls EXCEPT ![c] = r]  BY <2>1, <1>0 DEF Call
  <2> HIDE DEF r
  <2> QED  BY <1>0, <1>1, <1>7, <2>2, <2>3 DEF StopSkips, LocalsSet, TypeOK
<1>8. CASE HandleStops(c)
  <2>1. calls' \in [Calls -> Call] /\ LocalsSet'
    BY <1>8, Moves DEF HandleStops, Points
  <2>2. procs' \in [Pids -> Process]  BY <1>0, <1>8, Terminated DEF HandleStops, TypeOK
  <2> QED  BY <1>0, <1>8, <2>1, <2>2 DEF HandleStops, Typed, TypeOK
<1>9. CASE StopEnds(c)
  <2> DEFINE r == [calls[c] EXCEPT !.pc = AfterStop(calls[c].op, calls[c].todo), !.proc = None]
  <2>1. /\ r \in Call /\ r.pc \in {"stop", "reply", "realloc", "remove"}
        /\ r.autos = calls[c].autos /\ r.ws = calls[c].ws
    BY <1>0, <1>2, AfterStopped DEF Call
  <2>2. calls' = [calls EXCEPT ![c] = r]  BY <1>0, <1>9 DEF StopEnds, TypeOK
  <2>3. agents' \in [AgentIds -> Agent] /\ usedPorts' \subseteq Ports
    <3> DEFINE id == calls[c].agent
               e == StoppedEntry(agents[id])
    <3>1. agents' = [agents EXCEPT ![id] = e]  BY <1>9 DEF StopEnds
    <3>2. agents \in [AgentIds -> Agent]  BY <1>0 DEF TypeOK
    <3>3. id \in AgentIds => e \in Agent  BY <3>2, EntryStatus
    <3>4. usedPorts' \subseteq Ports  BY <1>0, <1>9 DEF StopEnds, FreePort, TypeOK
    <3> HIDE DEF e, id
    <3> QED  BY <3>1, <3>2, <3>3, <3>4, EntryWritten
  <2> HIDE DEF r
  <2> QED  BY <1>0, <1>1, <1>9, <2>1, <2>2, <2>3 DEF StopEnds, LocalsSet, TypeOK
<1>10. CASE StopReturns(c)
  BY <1>0, <1>10, Returns DEF StopReturns, Typed, TypeOK
<1> QED  BY <1>3, <1>4, <1>5, <1>6, <1>7, <1>8, <1>9, <1>10

\* The rest of a restart and of a destroy.
LEMMA TypedEnd ==
    ASSUME Typed, NEW c \in Calls,
           \/ ReallocPort(c) \/ ReallocFails(c) \/ AttachRestarted(c) \/ RestartFailed(c)
           \/ RemoveWorkspace(c)
    PROVE  Typed'
<1>0. calls[c] \in Call /\ LocalsSet /\ TypeOK  BY DEF Typed, TypeOK
<1>1. CASE ReallocPort(c)
  <2>1. PICK port \in Ports :
           /\ usedPorts' = usedPorts \cup {port}
           /\ calls' = [calls EXCEPT ![c].pc = "start", ![c].port = port]
    BY <1>1 DEF ReallocPort
  <2> DEFINE r == [calls[c] EXCEPT !.pc = "start", !.port = port]
  <2>2. r \in Call /\ r.pc = "start" /\ r.autos = calls[c].autos /\ r.ws = calls[c].ws
    BY <1>0 DEF Call, Points
  <2>3. calls' = [calls EXCEPT ![c] = r]  BY <1>0, <2>1 DEF TypeOK
  <2>4. r.autos # 0 => r.ws \in WsNames  BY <1>0, <2>2 DEF LocalsSet
  <2> HIDE DEF r
  <2>5. calls' \in [Calls -> Call] /\ LocalsSet'  BY <2>2, <2>3, <2>4, Handler
  <2> QED  BY <1>0, <1>1, <2>1, <2>5 DEF ReallocPort, Typed, TypeOK
<1>2. CASE ReallocFails(c)
  BY <1>0, <1>2, Returns DEF ReallocFails, Typed, TypeOK
<1>3. CASE AttachRestarted(c)
  <2>1. agents' \in [AgentIds -> Agent]  BY <1>3, Attached DEF AttachRestarted
  <2> QED  BY <1>0, <1>3, <2>1, Returns DEF AttachRestarted, Typed, TypeOK
<1>4. CASE RestartFailed(c)
  <2>1. agents' \in [AgentIds -> Agent] /\ usedPorts' \subseteq Ports
    <3> DEFINE id == calls[c].agent
               e == [agents[id] EXCEPT !.status = "ERROR"]
    <3>1. agents' = [agents EXCEPT ![id] = e]  BY <1>4 DEF RestartFailed
    <3>2. agents \in [AgentIds -> Agent]  BY <1>0 DEF TypeOK
    <3>3. id \in AgentIds => e \in Agent  BY <3>2, EntryStatus DEF Status
    <3>4. usedPorts' \subseteq Ports  BY <1>0, <1>4 DEF RestartFailed, FreePort, TypeOK
    <3> HIDE DEF e, id
    <3> QED  BY <3>1, <3>2, <3>3, <3>4, EntryWritten
  <2> QED  BY <1>0, <1>4, <2>1, Returns DEF RestartFailed, Typed, TypeOK
<1>5. CASE RemoveWorkspace(c)
  <2>1. agents' \in [AgentIds -> Agent]
    <3>1. \A id \in AgentIds : agents[id] \in Agent /\ [agents[id] EXCEPT !.registered = FALSE] \in Agent
      BY <1>0 DEF TypeOK, Agent
    <3>2. agents' = Unregistered(calls[c].snap)  BY <1>5 DEF RemoveWorkspace
    <3> QED  BY <3>1, <3>2 DEF Unregistered
  <2>2. workspaces' \in [WsNames -> Workspace]
    BY <1>0, <1>5, NullRecords DEF RemoveWorkspace, TypeOK
  <2> QED  BY <1>0, <1>5, <2>1, <2>2, Returns DEF RemoveWorkspace, Typed, TypeOK
<1> QED  BY <1>1, <1>2, <1>3, <1>4, <1>5

\* The steps of no handler in calls: projects, exits of processes and the shutdown.
LEMMA TypedOther ==
    ASSUME Typed,
           \/ \E p \in Projects : RegisterProject(p) \/ UnregisterProject(p)
           \/ \E q \in Pids : ProcessExits(q)
           \/ Shutdown
           \/ UNCHANGED vars
    PROVE  Typed'
<1> USE DEF Typed, TypeOK
<1>1. CASE \E p \in Projects : RegisterProject(p) \/ UnregisterProject(p)
  BY <1>1 DEF RegisterProject, UnregisterProject, LocalsSet
<1>2. CASE \E q \in Pids : ProcessExits(q)
  <2>1. procs' \in [Pids -> Process]  BY <1>2, Terminated DEF ProcessExits
  <2> QED  BY <1>2, <2>1 DEF ProcessExits, LocalsSet
<1>3. CASE ServerStop
  <2> DEFINE handles == {agents[id].handle :
                            id \in {i \in AgentIds : agents[i].registered}} \ {None}
  <2>1. handles \subseteq Pids  BY DEF Agent
  <2>2. server' = [server EXCEPT !.phase = "stopping", !.doomed = handles]  BY <1>3 DEF ServerStop
  <2> HIDE DEF handles
  <2>3. server' \in Server  BY <2>1, <2>2 DEF Server
  <2> QED  BY <1>3, <2>3 DEF ServerStop, LocalsSet
<1>4. CASE \E q \in Pids : StopDoomed(q)
  <2>1. procs' \in [Pids -> Process]  BY <1>4, Terminated DEF StopDoomed
  <2>2. server' \in Server  BY <1>4 DEF StopDoomed, Server
  <2> QED  BY <1>4, <2>1, <2>2 DEF StopDoomed, LocalsSet
<1>5. CASE GracefulStop \/ ServerExits
  <2>1. server' \in Server  BY <1>5 DEF GracefulStop, ServerExits, Server
  <2> QED  BY <1>5, <2>1 DEF GracefulStop, ServerExits, LocalsSet
<1>6. ASSUME NEW s \in Streams, CloseStream(s) PROVE Typed'
  <2>1. server' \in Server  BY <1>6 DEF CloseStream, Server
  <2> QED  BY <1>6, <2>1 DEF CloseStream, LocalsSet
<1>7. CASE UNCHANGED vars
  BY <1>7 DEF vars, LocalsSet
<1> QED  BY <1>1, <1>2, <1>3, <1>4, <1>5, <1>6, <1>7 DEF Shutdown

\* Every step keeps the types.
LEMMA TypedNext == Typed /\ [Next]_vars => Typed'
<1> SUFFICES ASSUME Typed, [Next]_vars PROVE Typed'  OBVIOUS
<1>1. ASSUME NEW c \in Calls, Request(c) \/ Step(c) PROVE Typed'
  BY <1>1, TypedSpawn, TypedBackend, TypedStop, TypedEnd DEF Request, Step
<1> QED  BY <1>1, TypedOther DEF Next

\* Every variable stays of its type, whatever handlers run and however they
\* overlap; in particular a READY agent's handle and port are those of a process.
THEOREM TypeCorrect == Spec => []TypeOK
<1>1. Typed => TypeOK  BY DEF Typed
<1> QED  BY <1>1, TypedInit, TypedNext, PTL DEF Spec

----------------------------------------------------------------------------
(* Handles and statuses                                                    *)

\* What one step can do to one entry.
EntryStep(a, b) ==
    \/ b = a
    \/ a.status = "UNSPECIFIED" /\ \E w \in WsNames, port \in Ports : b = StartingEntry(w, port)
    \/ \E c \in Calls : calls[c].pc = "attach" /\ b = ReadyEntry(a, calls[c].proc)
    \/ \E s \in {"ERROR", "STOPPING"} : b = [a EXCEPT !.status = s]
    \/ b = StoppedEntry(a)
    \/ b = [a EXCEPT !.registered = FALSE]

\* The reservation makes a STARTING entry without a handle.
LEMMA EntryStepReserve ==
    ASSUME Typed, NEW c \in Calls, NEW w \in WsNames, NEW rec,
           ReserveAgent(c, w, rec), NEW i \in AgentIds
    PROVE  EntryStep(agents[i], agents'[i])
<1>1. PICK id \in AgentIds, port \in Ports :
          NextId(id) /\ agents' = [agents EXCEPT ![id] = StartingEntry(w, port)]
  BY DEF ReserveAgent
<1>2. agents' = [agents EXCEPT ![id] = StartingEntry(w, port)]  BY <1>1
<1>3. CASE i = id
  BY <1>1, <1>2, <1>3 DEF Typed, TypeOK, NextId, EntryStep
<1>4. CASE i # id
  BY <1>2, <1>4 DEF Typed, TypeOK, EntryStep
<1> QED  BY <1>3, <1>4

\* No step writes an entry in any way but those of EntryStep.
LEMMA EntrySteps ==
    ASSUME Typed, [Next]_vars, NEW i \in AgentIds
    PROVE  EntryStep(agents[i], agents'[i])
<1>0. agents \in [AgentIds -> Agent] /\ LocalsSet  BY DEF Typed, TypeOK
<1>1. ASSUME UNCHANGED agents PROVE EntryStep(agents[i], agents'[i])
  BY <1>1 DEF EntryStep
<1>2. ASSUME NEW c \in Calls, Request(c) \/ Step(c) PROVE EntryStep(agents[i], agents'[i])
  <2>1. CASE SpawnAgent(c)
    BY <2>1, EntryStepReserve DEF SpawnAgent
  <2>2. CASE AutoSpawn(c)
    BY <1>0, <2>2, EntryStepReserve DEF AutoSpawn, LocalsSet
  <2>3. CASE AttachSpawned(c) \/ AttachRestarted(c)
    <3>1. calls[c].pc = "attach"  BY <2>3 DEF AttachSpawned, AttachRestarted
    <3> QED  BY <1>0, <2>3, <3>1 DEF AttachSpawned, AttachRestarted, EntryStep
  <2>4. CASE SpawnFailed(c) \/ RestartFailed(c)
    <3>1. agents' = agents \/ agents' = [agents EXCEPT ![calls[c].agent].status = "ERROR"]
      BY <2>4 DEF SpawnFailed, RestartFailed
    <3>2. agents'[i] = agents[i] \/ agents'[i] = [agents[i] EXCEPT !.status = "ERROR"]
      BY <1>0, <3>1
    <3> QED  BY <3>2 DEF EntryStep
  <2>5. CASE StopBegins(c)
    BY <1>0, <2>5 DEF StopBegins, EntryStep
  <2>6. CASE StopEnds(c)
    BY <1>0, <2>6 DEF StopEnds, EntryStep
  <2>7. CASE RemoveWorkspace(c)
    BY <1>0, <2>7 DEF RemoveWorkspace, Unregistered, EntryStep
  <2>8. CASE \/ CreateWorkspace(c) \/ StopAgent(c) \/ RestartAgent(c) \/ DestroyWorkspace(c)
             \/ AutoSpawnRejected(c) \/ ExecStart(c) \/ MockStart(c) \/ StartFails(c)
             \/ HealthCheckPasses(c) \/ HealthCheckFails(c) \/ StopSkips(c) \/ HandleStops(c)
             \/ StopReturns(c) \/ ReallocPort(c) \/ ReallocFails(c)
    BY <1>1, <2>8 DEF CreateWorkspace, StopAgent, RestartAgent, DestroyWorkspace,
       AutoSpawnRejected, ExecStart, MockStart, StartFails, HealthCheckPasses,
       HealthCheckFails, StopSkips, HandleStops, StopReturns, ReallocPort, ReallocFails
  <2> QED  BY <1>2, <2>1, <2>2, <2>3, <2>4, <2>5, <2>6, <2>7, <2>8 DEF Request, Step
<1>3. CASE \/ \E p \in Projects : RegisterProject(p) \/ UnregisterProject(p)
           \/ \E q \in Pids : ProcessExits(q)
           \/ Shutdown
           \/ UNCHANGED vars
  BY <1>1, <1>3 DEF RegisterProject, UnregisterProject, ProcessExits, Shutdown, ServerStop,
     StopDoomed, GracefulStop, ServerExits, CloseStream, vars
<1> QED  BY <1>2, <1>3 DEF Next

\* Whoever writes an entry, its handle and its status go on to agree.
LEMMA HandleNext == Typed /\ HandleMatchesStatus /\ [Next]_vars => HandleMatchesStatus'
<1> SUFFICES ASSUME Typed, HandleMatchesStatus, [Next]_vars, NEW i \in AgentIds
             PROVE  /\ agents'[i].status = "READY" => agents'[i].handle # None
                    /\ agents'[i].handle # None =>
                          agents'[i].status \in {"READY", "STOPPING", "ERROR"}
  BY DEF HandleMatchesStatus
<1>1. agents[i] \in Agent  BY DEF Typed, TypeOK
<1>2. EntryStep(agents[i], agents'[i])  BY EntrySteps
<1> DEFINE a == agents[i]  b == agents'[i]
<1>3. /\ a.status = "READY" => a.handle # None
      /\ a.handle # None => a.status \in {"READY", "STOPPING", "ERROR"}
  BY DEF HandleMatchesStatus
<1> HIDE DEF a, b
<1> SUFFICES /\ b.status = "READY" => b.handle # None
             /\ b.handle # None => b.status \in {"READY", "STOPPING", "ERROR"}
  BY DEF b
<1>4. a \in Agent /\ EntryStep(a, b)  BY <1>1, <1>2 DEF a, b
<1>5. CASE b = a  BY <1>3, <1>5
<1>6. CASE \E w \in WsNames, port \in Ports : b = StartingEntry(w, port)
  BY <1>6 DEF StartingEntry
<1>7. CASE \E c \in Calls : calls[c].pc = "attach" /\ b = ReadyEntry(a, calls[c].proc)
  <2>1. \E q \in Pids : b = ReadyEntry(a, q)  BY <1>7 DEF Typed, LocalsSet
  <2> QED  BY <1>4, <2>1, ConstantsAssumption DEF ReadyEntry, Agent
<1>8. CASE \E s \in {"ERROR", "STOPPING"} : b = [a EXCEPT !.status = s]
  BY <1>4, <1>8 DEF Agent
<1>9. CASE b = StoppedEntry(a)
  BY <1>4, <1>9 DEF StoppedEntry, Agent
<1>10. CASE b = [a EXCEPT !.registered = FALSE]
  BY <1>3, <1>4, <1>10 DEF Agent
<1> QED  BY <1>4, <1>5, <1>6, <1>7, <1>8, <1>9, <1>10 DEF EntryStep

\* The handle and the status of an entry agree in every interleaving of the
\* spawns, stops and restarts that write them: a READY agent has a handle to
\* stop it by, and one that is STARTING or STOPPED has none.
THEOREM HandlesMatch == Spec => []HandleMatchesStatus
<1>1. Init => HandleMatchesStatus
  BY DEF Init, HandleMatchesStatus, NoAgent
<1> QED  BY <1>1, HandleNext, TypedInit, TypedNext, PTL DEF Spec

----------------------------------------------------------------------------
(* Membership                                                              *)

\* What most steps leave alone: which workspace lists what, where an entry
\* belongs, and which agents a DestroyWorkspace is to unregister.
KeepsEntry(i) ==
    /\ agents'[i].registered = agents[i].registered
    /\ agents'[i].ws = agents[i].ws
    /\ agents'[i].project = agents[i].project
    /\ agents[i].status # "UNSPECIFIED" => agents'[i].status # "UNSPECIFIED"

KeepsSnap(c) ==
    \/ calls'[c].snap = {}
    \/ calls'[c].snap = calls[c].snap /\ calls'[c].ws = calls[c].ws

\* A step that none but handler c takes, and that replaces its local state by r.
LEMMA SnapKept ==
    ASSUME Typed, NEW c \in Calls, NEW r, calls' = [calls EXCEPT ![c] = r],
           r.snap = {} \/ (r.snap = calls[c].snap /\ r.ws = calls[c].ws)
    PROVE  \A d \in Calls : KeepsSnap(d)
BY DEF Typed, TypeOK, KeepsSnap

\* A handler that returns forgets its snapshot.
LEMMA SnapReturned ==
    ASSUME Typed, NEW c \in Calls, Return(c)
    PROVE  \A d \in Calls : KeepsSnap(d)
<1>1. NoCall.snap = {}  BY DEF NoCall
<1> QED  BY <1>1, SnapKept DEF Return

\* One that moves on keeps it.
LEMMA SnapMoved ==
    ASSUME Typed, NEW c \in Calls, NEW pc, Goto(c, pc)
    PROVE  \A d \in Calls : KeepsSnap(d)
<1> DEFINE r == [calls[c] EXCEPT !.pc = pc]
<1>1. calls' = [calls EXCEPT ![c] = r]  BY DEF Goto
<1>2. r.snap = calls[c].snap /\ r.ws = calls[c].ws  BY DEF Typed, TypeOK, Call
<1> HIDE DEF r
<1> QED  BY <1>1, <1>2, SnapKept

\* The four steps that move agents or workspaces about.
Moving(c) == SpawnAgent(c) \/ AutoSpawn(c) \/ CreateWorkspace(c) \/ DestroyWorkspace(c)
                \/ RemoveWorkspace(c)

\* The other steps move no agent between workspaces and take no snapshot.
LEMMA QuietSteps ==
    ASSUME Typed, [Next]_vars, ~ \E c \in Calls : Moving(c)
    PROVE  /\ workspaces' = workspaces
           /\ \A i \in AgentIds : KeepsEntry(i)
           /\ \A d \in Calls : KeepsSnap(d)
<1>0. agents \in [AgentIds -> Agent] /\ calls \in [Calls -> Call] /\ LocalsSet
  BY DEF Typed, TypeOK
<1>1. ASSUME UNCHANGED agents PROVE \A i \in AgentIds : KeepsEntry(i)
  BY <1>1 DEF KeepsEntry
<1>2. ASSUME UNCHANGED calls PROVE \A d \in Calls : KeepsSnap(d)
  BY <1>2 DEF KeepsSnap
<1>3. ASSUME NEW c \in Calls, Request(c) \/ Step(c)
      PROVE  /\ workspaces' = workspaces
             /\ \A i \in AgentIds : KeepsEntry(i)
             /\ \A d \in Calls : KeepsSnap(d)
  <2>1. CASE AttachSpawned(c)
    <3>1. \A i \in AgentIds : KeepsEntry(i)
      BY <1>0, <2>1 DEF AttachSpawned, KeepsEntry, ReadyEntry, Agent
    <3>2. \A d \in Calls : KeepsSnap(d)
      <4> DEFINE r == IF calls[c].autos < 2 THEN NoCall ELSE NextAuto(calls[c])
      <4>1. calls' = [calls EXCEPT ![c] = r]  BY <2>1 DEF AttachSpawned
      <4>2. r.snap = {} \/ (r.snap = calls[c].snap /\ r.ws = calls[c].ws)
        BY <1>0 DEF NoCall, NextAuto, Call
      <4> HIDE DEF r
      <4> QED  BY <4>1, <4>2, SnapKept
    <3> QED  BY <2>1, <3>1, <3>2 DEF AttachSpawned
  <2>2. CASE AttachRestarted(c)
    <3>1. \A i \in AgentIds : KeepsEntry(i)
      BY <1>0, <2>2 DEF AttachRestarted, KeepsEntry, ReadyEntry, Agent
    <3> QED  BY <2>2, <3>1, SnapReturned DEF AttachRestarted
  <2>3. CASE SpawnFailed(c) \/ RestartFailed(c)
    <3>1. agents' = agents \/ agents' = [agents EXCEPT ![calls[c].agent].status = "ERROR"]
      BY <2>3 DEF SpawnFailed, RestartFailed
    <3>2. \A i \in AgentIds : KeepsEntry(i)
      BY <1>0, <3>1 DEF KeepsEntry, Agent
    <3> QED  BY <2>3, <3>2, SnapReturned DEF SpawnFailed, RestartFailed
  <2>4. CASE StopBegins(c)
    <3>1. PICK id \in calls[c].todo :
             /\ agents' = [agents EXCEPT ![id].status = "STOPPING"]
             /\ calls' = [calls EXCEPT ![c] =
                   [@ EXCEPT !.pc = "term", !.agent = id, !.proc = agents[id].handle,
                             !.todo = calls[c].todo \ {id}]]
      BY <2>4 DEF StopBegins
    <3>2. \A i \in AgentIds : KeepsEntry(i)
      BY <1>0, <3>1 DEF KeepsEntry, Agent
    <3> DEFINE r == [calls[c] EXCEPT !.pc = "term", !.agent = id, !.proc = agents[id].handle,
                                     !.todo = calls[c].todo \ {id}]
    <3>3. calls' = [calls EXCEPT ![c] = r]  BY <3>1
    <3>4. r.snap = calls[c].snap /\ r.ws = calls[c].ws  BY <1>0 DEF Call
    <3> HIDE DEF r
    <3> QED  BY <2>4, <3>2, <3>3, <3>4, SnapKept DEF StopBegins
  <2>5. CASE StopEnds(c)
    <3>1. \A i \in AgentIds : KeepsEntry(i)
      BY <1>0, <2>5 DEF StopEnds, KeepsEntry, StoppedEntry, Agent
    <3> DEFINE r == [calls[c] EXCEPT !.pc = AfterStop(calls[c].op, calls[c].todo), !.proc = None]
    <3>2. calls' = [calls EXCEPT ![c].pc = AfterStop(calls[c].op, calls[c].todo),
                                 ![c].proc = None]
      BY <2>5 DEF StopEnds
    <3>5. calls' = [calls EXCEPT ![c] = r]  BY <1>0, <3>2
    <3>3. r.snap = calls[c].snap /\ r.ws = calls[c].ws  BY <1>0 DEF Call
    <3> HIDE DEF r
    <3> QED  BY <2>5, <3>1, <3>5, <3>3, SnapKept DEF StopEnds
  <2>6. CASE StopSkips(c)
    <3>1. PICK id \in calls[c].todo : calls' = [calls EXCEPT ![c] =
              [@ EXCEPT !.pc = AfterStop(calls[c].op, calls[c].todo \ {id}),
                        !.todo = calls[c].todo \ {id}]]
      BY <2>6 DEF StopSkips
    <3> DEFINE r == [calls[c] EXCEPT !.pc = AfterStop(calls[c].op, calls[c].todo \ {id}),
                                     !.todo = calls[c].todo \ {id}]
    <3>2. calls' = [calls EXCEPT ![c] = r]  BY <3>1
    <3>3. r.snap = calls[c].snap /\ r.ws = calls[c].ws  BY <1>0 DEF Call
    <3> HIDE DEF r
    <3> QED  BY <1>1, <2>6, <3>2, <3>3, SnapKept DEF StopSkips
  <2>7. CASE StopAgent(c) \/ RestartAgent(c)
    <3>1. \E id \in AgentIds, op \in {"stop", "restart"} : calls' = [calls EXCEPT ![c] =
              [NoCall EXCEPT !.op = op, !.pc = "stop", !.agent = id, !.todo = {id}]]
      BY <2>7 DEF StopAgent, RestartAgent
    <3>2. \A id \in AgentIds, op \in {"stop", "restart"} :
              [NoCall EXCEPT !.op = op, !.pc = "stop", !.agent = id, !.todo = {id}].snap = {}
      BY DEF NoCall
    <3>3. \A d \in Calls : KeepsSnap(d)
      BY <3>1, <3>2, SnapKept
    <3> QED  BY <1>1, <2>7, <3>3 DEF StopAgent, RestartAgent
  <2>8. CASE ExecStart(c) \/ MockStart(c) \/ ReallocPort(c)
    <3>1. /\ calls'[c].snap = calls[c].snap /\ calls'[c].ws = calls[c].ws
          /\ \A d \in Calls \ {c} : calls'[d] = calls[d]
      <4>1. CASE ExecStart(c)  BY <1>0, <4>1 DEF ExecStart, Call
      <4>2. CASE MockStart(c)  BY <1>0, <4>2 DEF MockStart, Call
      <4>3. CASE ReallocPort(c)  BY <1>0, <4>3 DEF ReallocPort, Call
      <4> QED  BY <2>8, <4>1, <4>2, <4>3
    <3>2. \A d \in Calls : KeepsSnap(d)  BY <3>1 DEF KeepsSnap
    <3> QED  BY <1>1, <2>8, <3>2 DEF ExecStart, MockStart, ReallocPort
  <2>9. CASE AutoSpawnRejected(c) \/ StopReturns(c) \/ ReallocFails(c)
    BY <1>1, <2>9, SnapReturned DEF AutoSpawnRejected, StopReturns, ReallocFails
  <2>10. CASE StartFails(c) \/ HealthCheckPasses(c) \/ HealthCheckFails(c) \/ HandleStops(c)
    BY <1>1, <2>10, SnapMoved DEF StartFails, HealthCheckPasses, HealthCheckFails, HandleStops
  <2> QED  BY <1>3, <2>1, <2>2, <2>3, <2>4, <2>5, <2>6, <2>7, <2>8, <2>9, <2>10
           DEF Request, Step, Moving
<1>4. CASE \/ \E p \in Projects : RegisterProject(p) \/ UnregisterProject(p)
           \/ \E q \in Pids : ProcessExits(q)
           \/ Shutdown
           \/ UNCHANGED vars
  BY <1>1, <1>2, <1>4 DEF RegisterProject, UnregisterProject, ProcessExits, Shutdown,
     ServerStop, StopDoomed, GracefulStop, ServerExits, CloseStream, vars
<1> QED  BY <1>3, <1>4 DEF Next

\* ReserveAgent adds an agent that was in no workspace and on no snapshot.
LEMMA MembershipReserve ==
    ASSUME Typed, Membership, NEW c \in Calls, NEW w \in WsNames, NEW rec \in Call,
           ReserveAgent(c, w, rec), rec.snap = {} \/ rec = calls[c]
    PROVE  Membership'
<1>0. /\ agents \in [AgentIds -> Agent] /\ calls \in [Calls -> Call]
      /\ workspaces \in [WsNames -> Workspace]
      /\ RegisteredIsBorn /\ SnapOfWorkspace /\ MembersRegistered
  BY DEF Typed, TypeOK, Membership
<1>1. PICK id \in AgentIds, port \in Ports :
          /\ agents[id].status = "UNSPECIFIED"
          /\ agents' = [agents EXCEPT ![id] = StartingEntry(w, port)]
          /\ workspaces' = [workspaces EXCEPT ![w].agents = @ \cup {id}]
          /\ calls' = [calls EXCEPT ![c] =
                [rec EXCEPT !.pc = "start", !.agent = id, !.port = port]]
  BY DEF ReserveAgent, NextId
<1>2. /\ agents'[id].registered /\ agents'[id].status = "STARTING"
      /\ agents'[id].ws = w /\ agents'[id].project = workspaces[w].project
  BY <1>0, <1>1 DEF StartingEntry
<1>3. \A i \in AgentIds : i # id => agents'[i] = agents[i]  BY <1>0, <1>1
<1>4. RegisteredIsBorn'
  <2> SUFFICES ASSUME NEW i \in AgentIds, agents'[i].registered
               PROVE  agents'[i].status # "UNSPECIFIED"
    BY DEF RegisteredIsBorn
  <2> QED  BY <1>0, <1>2, <1>3 DEF RegisteredIsBorn
<1>5. SnapOfWorkspace'
  <2> SUFFICES ASSUME NEW d \in Calls, NEW i \in calls'[d].snap
               PROVE  agents'[i].status # "UNSPECIFIED" /\ agents'[i].ws = calls'[d].ws
    BY DEF SnapOfWorkspace
  <2> DEFINE r == [rec EXCEPT !.pc = "start", !.agent = id, !.port = port]
  <2>1. r.snap = rec.snap /\ r.ws = rec.ws  BY DEF Call
  <2>2. calls' = [calls EXCEPT ![c] = r]  BY <1>1
  <2> HIDE DEF r
  <2>3. KeepsSnap(d)  BY <2>1, <2>2, SnapKept
  <2>4. i \in calls[d].snap /\ calls'[d].ws = calls[d].ws  BY <2>3 DEF KeepsSnap
  <2>5. i \in AgentIds /\ agents[i].status # "UNSPECIFIED" /\ agents[i].ws = calls[d].ws
    BY <1>0, <2>4 DEF SnapOfWorkspace, Call
  <2> QED  BY <1>1, <1>3, <2>4, <2>5
<1>6. MembersRegistered'
  <2> SUFFICES ASSUME NEW v \in WsNames, NEW i \in workspaces'[v].agents
               PROVE  /\ agents'[i].registered /\ agents'[i].ws = v
                      /\ agents'[i].project = workspaces'[v].project
    BY DEF MembersRegistered
  <2>1. workspaces'[v].project = workspaces[v].project
    BY <1>0, <1>1 DEF Workspace
  <2>2. i \in workspaces[v].agents \/ (v = w /\ i = id)
    BY <1>0, <1>1 DEF Workspace
  <2>3. CASE i = id /\ v = w  BY <1>2, <2>1, <2>3
  <2>4. CASE i \in workspaces[v].agents
    <3>1. /\ i \in AgentIds /\ agents[i].registered /\ agents[i].ws = v
          /\ agents[i].project = workspaces[v].project
      BY <1>0, <2>4 DEF MembersRegistered, Workspace
    <3>2. i # id  BY <1>0, <1>1, <3>1 DEF RegisteredIsBorn
    <3> QED  BY <1>3, <2>1, <3>1, <3>2
  <2> QED  BY <2>2, <2>3, <2>4
<1> QED  BY <1>4, <1>5, <1>6 DEF Membership

\* RemoveWorkspace unregisters agents of the workspace it removes and of no other.
LEMMA MembershipRemove ==
    ASSUME Typed, Membership, NEW c \in Calls, RemoveWorkspace(c)
    PROVE  Membership'
<1>0. /\ agents \in [AgentIds -> Agent] /\ calls \in [Calls -> Call]
      /\ workspaces \in [WsNames -> Workspace]
      /\ RegisteredIsBorn /\ SnapOfWorkspace /\ MembersRegistered
  BY DEF Typed, TypeOK, Membership
<1>1. \A i \in AgentIds :
          /\ agents'[i].status = agents[i].status /\ agents'[i].ws = agents[i].ws
          /\ agents'[i].project = agents[i].project
          /\ agents'[i].registered => agents[i].registered
          /\ i \notin calls[c].snap => agents'[i] = agents[i]
  BY <1>0 DEF RemoveWorkspace, Unregistered, Agent
<1>2. RegisteredIsBorn'  BY <1>0, <1>1 DEF RegisteredIsBorn
<1>3. SnapOfWorkspace'
  <2> SUFFICES ASSUME NEW d \in Calls, NEW i \in calls'[d].snap
               PROVE  agents'[i].status # "UNSPECIFIED" /\ agents'[i].ws = calls'[d].ws
    BY DEF SnapOfWorkspace
  <2>1. KeepsSnap(d)  BY SnapReturned DEF RemoveWorkspace
  <2>2. i \in calls[d].snap /\ calls'[d].ws = calls[d].ws  BY <2>1 DEF KeepsSnap
  <2>3. i \in AgentIds /\ agents[i].status # "UNSPECIFIED" /\ agents[i].ws = calls[d].ws
    BY <1>0, <2>2 DEF SnapOfWorkspace, Call
  <2> QED  BY <1>1, <2>2, <2>3
<1>4. MembersRegistered'
  <2> SUFFICES ASSUME NEW v \in WsNames, NEW i \in workspaces'[v].agents
               PROVE  /\ agents'[i].registered /\ agents'[i].ws = v
                      /\ agents'[i].project = workspaces'[v].project
    BY DEF MembersRegistered
  <2>1. v # calls[c].ws /\ workspaces'[v] = workspaces[v]
    BY <1>0 DEF RemoveWorkspace, NoWorkspace
  <2>2. /\ i \in AgentIds /\ agents[i].registered /\ agents[i].ws = v
        /\ agents[i].project = workspaces[v].project
    BY <1>0, <2>1 DEF MembersRegistered, Workspace
  <2>3. i \notin calls[c].snap  BY <1>0, <2>1, <2>2 DEF SnapOfWorkspace
  <2> QED  BY <1>1, <2>1, <2>2, <2>3
<1> QED  BY <1>2, <1>3, <1>4 DEF Membership

\* A new workspace lists nobody.
LEMMA MembershipCreate ==
    ASSUME Typed, Membership, NEW c \in Calls, CreateWorkspace(c)
    PROVE  Membership'
<1>0. /\ calls \in [Calls -> Call] /\ workspaces \in [WsNames -> Workspace]
      /\ RegisteredIsBorn /\ SnapOfWorkspace /\ MembersRegistered
  BY DEF Typed, TypeOK, Membership
<1>1. PICK w \in WsNames, p \in projects, n \in 0..MaxAutoAgents :
         /\ workspaces' = [workspaces EXCEPT ![w] = [project |-> p, agents |-> {}]]
         /\ calls' = [calls EXCEPT ![c] = IF n = 0 THEN NoCall ELSE
               [NoCall EXCEPT !.op = "create", !.pc = "reserve", !.ws = w, !.autos = n]]
         /\ agents' = agents
  BY DEF CreateWorkspace
<1>2. RegisteredIsBorn'  BY <1>0, <1>1 DEF RegisteredIsBorn
<1>3. SnapOfWorkspace'
  <2> DEFINE r == IF n = 0 THEN NoCall ELSE
               [NoCall EXCEPT !.op = "create", !.pc = "reserve", !.ws = w, !.autos = n]
  <2>1. r.snap = {}  BY DEF NoCall
  <2>2. calls' = [calls EXCEPT ![c] = r]  BY <1>1
  <2> HIDE DEF r
  <2>3. \A d \in Calls : KeepsSnap(d)  BY <2>1, <2>2, SnapKept
  <2> QED  BY <1>0, <1>1, <2>3 DEF SnapOfWorkspace, KeepsSnap
<1>4. MembersRegistered'
  <2> SUFFICES ASSUME NEW v \in WsNames, NEW i \in workspaces'[v].agents
               PROVE  /\ agents[i].registered /\ agents[i].ws = v
                      /\ agents[i].project = workspaces'[v].project
    BY <1>1 DEF MembersRegistered
  <2>1. workspaces'[v] = workspaces[v]  BY <1>0, <1>1
  <2> QED  BY <1>0, <2>1 DEF MembersRegistered
<1> QED  BY <1>2, <1>3, <1>4 DEF Membership

\* DestroyWorkspace snapshots the agents of the workspace it is asked to remove.
LEMMA MembershipDestroy ==
    ASSUME Typed, Membership, NEW c \in Calls, DestroyWorkspace(c)
    PROVE  Membership'
<1>0. /\ calls \in [Calls -> Call] /\ workspaces \in [WsNames -> Workspace]
      /\ RegisteredIsBorn /\ SnapOfWorkspace /\ MembersRegistered
  BY DEF Typed, TypeOK, Membership
<1>1. UNCHANGED <<agents, workspaces>>  BY DEF DestroyWorkspace
<1>2. PICK w \in WsNames : calls' = [calls EXCEPT ![c] =
              [NoCall EXCEPT !.op = "destroy", !.ws = w, !.todo = workspaces[w].agents,
                             !.snap = workspaces[w].agents,
                             !.pc = IF workspaces[w].agents = {} THEN "remove" ELSE "stop"]]
  BY DEF DestroyWorkspace
<1>3. calls'[c].snap = workspaces[w].agents /\ calls'[c].ws = w
  BY <1>0, <1>2 DEF NoCall
<1>4. SnapOfWorkspace'
  <2> SUFFICES ASSUME NEW d \in Calls, NEW i \in calls'[d].snap
               PROVE  agents[i].status # "UNSPECIFIED" /\ agents[i].ws = calls'[d].ws
    BY <1>1 DEF SnapOfWorkspace
  <2>1. CASE d = c
    <3>1. i \in AgentIds /\ agents[i].registered /\ agents[i].ws = w
      BY <1>0, <1>3, <2>1 DEF MembersRegistered, Workspace
    <3> QED  BY <1>0, <1>3, <2>1, <3>1 DEF RegisteredIsBorn
  <2>2. CASE d # c
    <3>1. calls'[d] = calls[d]  BY <1>0, <1>2, <2>2
    <3> QED  BY <1>0, <3>1 DEF SnapOfWorkspace
  <2> QED  BY <2>1, <2>2
<1> QED  BY <1>0, <1>1, <1>4 DEF Membership, RegisteredIsBorn, MembersRegistered

\* Such steps keep the two tables in agreement.
LEMMA MembershipQuiet ==
    ASSUME Typed, Membership,
           workspaces' = workspaces,
           \A i \in AgentIds : KeepsEntry(i),
           \A d \in Calls : KeepsSnap(d)
    PROVE  Membership'
<1>0. /\ calls \in [Calls -> Call] /\ workspaces \in [WsNames -> Workspace]
      /\ RegisteredIsBorn /\ SnapOfWorkspace /\ MembersRegistered
  BY DEF Typed, TypeOK, Membership
<1>1. RegisteredIsBorn'  BY <1>0 DEF RegisteredIsBorn, KeepsEntry
<1>2. SnapOfWorkspace'
  <2> SUFFICES ASSUME NEW d \in Calls, NEW i \in calls'[d].snap
               PROVE  agents'[i].status # "UNSPECIFIED" /\ agents'[i].ws = calls'[d].ws
    BY DEF SnapOfWorkspace
  <2>1. i \in calls[d].snap /\ calls'[d].ws = calls[d].ws  BY DEF KeepsSnap
  <2>2. i \in AgentIds /\ agents[i].status # "UNSPECIFIED" /\ agents[i].ws = calls[d].ws
    BY <1>0, <2>1 DEF SnapOfWorkspace, Call
  <2> QED  BY <2>1, <2>2 DEF KeepsEntry
<1>3. MembersRegistered'
  <2> SUFFICES ASSUME NEW v \in WsNames, NEW i \in workspaces[v].agents
               PROVE  /\ agents'[i].registered /\ agents'[i].ws = v
                      /\ agents'[i].project = workspaces[v].project
    BY DEF MembersRegistered
  <2>1. i \in AgentIds  BY <1>0 DEF Workspace
  <2> QED  BY <1>0, <2>1 DEF MembersRegistered, KeepsEntry
<1> QED  BY <1>1, <1>2, <1>3 DEF Membership

\* So do the four that move agents about.
LEMMA MembershipNext == Typed /\ Membership /\ [Next]_vars => Membership'
<1> SUFFICES ASSUME Typed, Membership, [Next]_vars PROVE Membership'  OBVIOUS
<1>1. CASE ~ \E c \in Calls : Moving(c)
  BY <1>1, QuietSteps, MembershipQuiet
<1>2. ASSUME NEW c \in Calls, Moving(c) PROVE Membership'
  <2>1. CASE SpawnAgent(c)
    <3>1. PICK w \in WsNames : ReserveAgent(c, w, [NoCall EXCEPT !.op = "spawn", !.ws = w])
      BY <2>1 DEF SpawnAgent
    <3> DEFINE r == [NoCall EXCEPT !.op = "spawn", !.ws = w]
    <3>2. r \in Call /\ r.snap = {}
      BY NullCall, EntryConstants DEF Call
    <3> HIDE DEF r
    <3> QED  BY <3>1, <3>2, MembershipReserve DEF r
  <2>2. CASE AutoSpawn(c)
    <3>1. calls[c] \in Call /\ calls[c].ws \in WsNames
      BY <2>2 DEF AutoSpawn, Typed, TypeOK, LocalsSet
    <3> QED  BY <2>2, <3>1, MembershipReserve DEF AutoSpawn
  <2> QED  BY <1>2, <2>1, <2>2, MembershipCreate, MembershipDestroy, MembershipRemove
           DEF Moving
<1> QED  BY <1>1, <1>2

\* What a workspace lists is registered and belongs to it and to its project,
\* however the spawns, destroys and re-creations of a name overlap.
THEOREM MembersAreRegistered == Spec => []MembersRegistered
<1>1. Init => Membership
  BY DEF Init, Membership, RegisteredIsBorn, SnapOfWorkspace, MembersRegistered,
     NoAgent, NoCall, NoWorkspace
<1>2. Membership => MembersRegistered  BY DEF Membership
<1> QED  BY <1>1, <1>2, MembershipNext, TypedInit, TypedNext, PTL DEF Spec
=============================================================================
