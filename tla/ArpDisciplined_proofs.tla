----------------------- MODULE ArpDisciplined_proofs -----------------------
(***************************************************************************)
(* Proofs about ArpLifecycle under clients that keep to one request at a   *)
(* time per workspace (DisciplinedSpec): nothing is lost or left behind,   *)
(* and the server implements the documented life cycle of an agent.        *)
(*                                                                         *)
(* The argument: a handler in flight works in one workspace, its home, and *)
(* on agents of that workspace only.  What it knows of them (Local) stays  *)
(* true while other handlers run, since their homes are other workspaces.  *)
(***************************************************************************)
EXTENDS ArpLifecycle_proofs

----------------------------------------------------------------------------
(* The inductive invariant.                                                *)

\* Backend.Spawn is to be called, under way, or has been.
Spawning == {"start", "poll", "attach", "fail"}

\* What a handler that spawns knows of the entry it has reserved.
SpawnLocals(r) ==
    /\ r.op \in {"spawn", "create"} /\ r.pc \in {"reserve"} \cup Spawning
    /\ r.ws \in WsNames /\ Exists(r.ws) /\ r.todo = {} /\ r.snap = {}
    /\ r.pc = "reserve" => r.agent = None
    /\ r.pc \in Spawning =>
          /\ r.agent \in AgentIds /\ agents[r.agent].registered
          /\ agents[r.agent].ws = r.ws /\ agents[r.agent].port = r.port
          /\ agents[r.agent].status = "STARTING"

\* What a handler that stops or restarts one agent knows of it.
StopLocals(r) ==
    /\ r.op \in {"stop", "restart"} /\ r.agent \in AgentIds /\ r.snap = {}
    /\ agents[r.agent].registered
    /\ r.pc \in {"stop", "term", "stopped"} \cup
                (IF r.op = "stop" THEN {"reply"} ELSE {"realloc"} \cup Spawning)
    /\ r.todo = IF r.pc = "stop" THEN {r.agent} ELSE {}
    /\ r.pc \notin {"stop", "term", "stopped"} => agents[r.agent].status = "STOPPED"

\* What a handler that destroys a workspace knows of the agents on its list.
DestroyLocals(r) ==
    /\ r.op = "destroy" /\ r.ws \in WsNames /\ r.pc \in {"stop", "term", "stopped", "remove"}
    /\ Exists(r.ws) /\ workspaces[r.ws].agents = r.snap /\ r.todo \subseteq r.snap
    /\ r.agent \in r.snap \cup {None}
    /\ r.pc = "remove" => r.todo = {}
    /\ r.pc \in {"term", "stopped"} => r.agent \in r.snap \ r.todo
    /\ \A id \in r.snap \ r.todo :
          \/ agents[id].status = "STOPPED"
          \/ r.pc \in {"term", "stopped"} /\ id = r.agent

\* What any of them knows of the process it has started or is to stop.
ProcessLocals(r) ==
    /\ r.pc \notin {"poll", "attach", "fail", "term", "stopped"} => r.proc = None
    /\ r.proc # None => procs[r.proc].state # "unborn"
    /\ r.pc \in Spawning => r.port \in Ports
    /\ r.pc \in {"poll", "attach"} /\ server.backend = "exec" => procs[r.proc].port = r.port
    /\ r.pc \in {"term", "stopped"} =>
          agents[r.agent].status = "STOPPING" /\ agents[r.agent].handle = r.proc
    /\ r.pc \in {"fail", "stopped"} /\ r.proc # None => ~Running(r.proc)

Local(c) ==
    InFlight(c) =>
        /\ SpawnLocals(calls[c]) \/ StopLocals(calls[c]) \/ DestroyLocals(calls[c])
        /\ ProcessLocals(calls[c])

\* The workspace a handler works in.
Home(c) == IF calls[c].op \in {"stop", "restart"} THEN agents[calls[c].agent].ws ELSE calls[c].ws

HomesApart ==
    \A c, d \in Calls : c # d /\ InFlight(c) /\ InFlight(d) => Home(c) # Home(d)

AgentsPlaced == \A id \in AgentIds : agents[id].registered => agents[id].ws \in WsNames

HandlesBorn ==
    \A id \in AgentIds : agents[id].handle # None => procs[agents[id].handle].state # "unborn"

Locals == \A c \in Calls : Local(c)

Apart == Typed /\ Membership /\ HandleMatchesStatus /\ AgentsHaveWorkspace
            /\ AgentsPlaced /\ HandlesBorn /\ Locals /\ HomesApart

----------------------------------------------------------------------------
(* Other handlers' steps                                                   *)

\* Processes only die, and keep their ports.
ProcessesAge ==
    \A q \in Pids : procs[q].state # "unborn" =>
        /\ procs'[q].state # "unborn" /\ procs'[q].port = procs[q].port
        /\ Running(q)' => Running(q)

\* A step that works in workspace w leaves the agents and the lists of the other
\* workspaces alone.
WorksIn(w) ==
    /\ \A id \in AgentIds : agents[id].registered /\ agents[id].ws # w => agents'[id] = agents[id]
    /\ \A v \in WsNames : v # w => workspaces'[v] = workspaces[v]
    /\ ProcessesAge
    /\ server'.backend = server.backend

\* What a handler knows is not disturbed by a step in another workspace.
LEMMA LocalKept ==
    ASSUME Apart, NEW d \in Calls, NEW w, WorksIn(w),
           calls'[d] = calls[d], InFlight(d) => Home(d) # w
    PROVE  Local(d)' /\ (InFlight(d) => Home(d)' = Home(d))
<1> SUFFICES ASSUME InFlight(d)
             PROVE  Home(d)' = Home(d) /\ ProcessLocals(calls[d])' /\
                    (SpawnLocals(calls[d])' \/ StopLocals(calls[d])' \/ DestroyLocals(calls[d])')
  BY DEF Local, InFlight
<1> DEFINE r == calls[d]
<1>0. /\ r \in Call /\ procs \in [Pids -> Process] /\ Typed /\ Local(d)
      /\ Membership /\ AgentIds \subseteq Nat /\ None \notin AgentIds
  BY ConstantsAssumption DEF Apart, Typed, TypeOK, Locals
<1>1. ASSUME r.agent \in AgentIds, agents[r.agent].registered, agents[r.agent].ws = Home(d)
      PROVE  agents'[r.agent] = agents[r.agent]
  BY <1>1 DEF WorksIn
<1>5. ASSUME r.pc \in {"term", "stopped"} => agents'[r.agent] = agents[r.agent]
      PROVE  ProcessLocals(calls[d])'
  <2>1. /\ ProcessLocals(r) /\ (r.proc # None => r.proc \in Pids)
        /\ (r.pc \in {"poll", "attach"} => r.proc \in Pids /\ r.proc # None)
    BY <1>0, ConstantsAssumption DEF Local, Typed, LocalsSet, Call
  <2>2. r.proc # None =>
           /\ procs'[r.proc].state # "unborn" /\ procs'[r.proc].port = procs[r.proc].port
           /\ Running(r.proc)' => Running(r.proc)
    BY <2>1 DEF ProcessLocals, WorksIn, ProcessesAge
  <2> QED  BY <1>5, <2>1, <2>2 DEF ProcessLocals, WorksIn
<1>2. CASE SpawnLocals(r)
  <2>1. Home(d) = r.ws /\ Home(d)' = r.ws  BY <1>2 DEF SpawnLocals, Home
  <2>2. r.pc \in Spawning => agents'[r.agent] = agents[r.agent]
    BY <1>1, <1>2, <2>1 DEF SpawnLocals
  <2>5. workspaces'[r.ws] = workspaces[r.ws]  BY <1>2, <2>1 DEF SpawnLocals, WorksIn
  <2>3. SpawnLocals(calls[d])'  BY <1>2, <2>2, <2>5 DEF SpawnLocals, Exists
  <2>4. ProcessLocals(calls[d])'
    BY <1>2, <1>5 DEF SpawnLocals, Spawning
  <2> QED  BY <2>1, <2>3, <2>4
<1>3. CASE StopLocals(r)
  <2>1. agents'[r.agent] = agents[r.agent]
    BY <1>1, <1>3 DEF StopLocals, Home
  <2>2. Home(d)' = Home(d)  BY <1>3, <2>1 DEF StopLocals, Home
  <2>3. StopLocals(calls[d])'  BY <1>3, <2>1 DEF StopLocals
  <2>4. ProcessLocals(calls[d])'
    BY <1>5, <2>1
  <2> QED  BY <2>2, <2>3, <2>4
<1>4. CASE DestroyLocals(r)
  <2>1. Home(d) = r.ws /\ Home(d)' = r.ws  BY <1>4 DEF DestroyLocals, Home
  <2>2. workspaces'[r.ws] = workspaces[r.ws]  BY <1>4, <2>1 DEF DestroyLocals, WorksIn
  <2>3. \A id \in r.snap : id \in AgentIds /\ agents[id].registered /\ agents[id].ws = r.ws
    BY <1>0, <1>4 DEF DestroyLocals, Membership, MembersRegistered, Call
  <2>4. \A id \in r.snap : agents'[id] = agents[id]  BY <2>1, <2>3 DEF WorksIn
  <2>5. DestroyLocals(calls[d])'  BY <1>4, <2>2, <2>4 DEF DestroyLocals, Exists
  <2>6. ProcessLocals(calls[d])'
    BY <1>4, <1>5, <2>4 DEF DestroyLocals
  <2> QED  BY <2>1, <2>5, <2>6
<1> QED  BY <1>0, <1>2, <1>3, <1>4 DEF Local

----------------------------------------------------------------------------
(* A handler's own steps                                                   *)

\* A handler's step stays in its home and leaves it knowing what it needs next.
Works(c) == WorksIn(Home(c)) /\ Local(c)' /\ (InFlight(c)' => Home(c)' = Home(c))

\* What a handler starts a step from.
LEMMA Knows ==
    ASSUME Apart, NEW c \in Calls
    PROVE  /\ Typed /\ Local(c) /\ calls[c] \in Call /\ agents \in [AgentIds -> Agent]
           /\ procs \in [Pids -> Process] /\ workspaces \in [WsNames -> Workspace]
           /\ calls \in [Calls -> Call] /\ LocalsSet /\ Membership /\ HandlesBorn
           /\ None \notin AgentIds /\ None \notin Pids /\ None \notin WsNames /\ None \notin Ports
           /\ calls[c].proc # None => calls[c].proc \in Pids
           /\ calls[c].pc \in {"poll", "attach"} => calls[c].proc \in Pids
BY ConstantsAssumption DEF Apart, Locals, Typed, TypeOK, LocalsSet, Call

\* Processes that are left alone, or of which one is terminated, only age.
LEMMA ProcessesSame == UNCHANGED procs => ProcessesAge
BY DEF ProcessesAge, Running

\* Terminating a process starts none.
LEMMA ProcessDies ==
    ASSUME procs \in [Pids -> Process], NEW q, Terminate(q)
    PROVE  ProcessesAge /\ (q \in Pids => procs'[q].state # "running")
BY DEF ProcessesAge, Running, Terminate, Process

\* A new process takes the place of none.
LEMMA ProcessStarts ==
    ASSUME procs \in [Pids -> Process], NEW c, NEW q \in Pids, NEW port, NEW bound,
           NextPid(q), Spawned(c, q, port, bound)
    PROVE  ProcessesAge /\ procs'[q].state = "running" /\ procs'[q].port = port
BY DEF ProcessesAge, Running, NextPid, Spawned, Process

\* Writing one entry of workspace w, or one that is not registered yet.
LEMMA EntryWorks ==
    ASSUME agents \in [AgentIds -> Agent], NEW w, NEW id, NEW e,
           id \in AgentIds /\ agents[id].registered => agents[id].ws = w,
           agents' = [agents EXCEPT ![id] = e] \/ agents' = agents,
           \A v \in WsNames : v # w => workspaces'[v] = workspaces[v],
           ProcessesAge, UNCHANGED server
    PROVE  WorksIn(w)
BY DEF WorksIn

\* Writing no entry and no workspace.
LEMMA NothingWorks ==
    ASSUME NEW w, UNCHANGED <<agents, workspaces, server>>, ProcessesAge
    PROVE  WorksIn(w)
BY DEF WorksIn

\* A handler that has returned is in flight no more.
LEMMA ReturnWorks ==
    ASSUME Apart, NEW c \in Calls, Return(c), WorksIn(Home(c))
    PROVE  Works(c)
<1>1. calls'[c] = NoCall  BY Knows DEF Return
<1>2. ~InFlight(c)'  BY <1>1 DEF InFlight, NoCall
<1> QED  BY <1>2 DEF Works, Local

\* The first lock section of a spawn, in the workspace of the request.
LEMMA ReserveWorks ==
    ASSUME Apart, NEW c \in Calls, NEW w \in WsNames, NEW rec \in Call,
           rec.op \in {"spawn", "create"}, rec.ws = w, rec.todo = {}, rec.snap = {},
           rec.proc = None, ReserveAgent(c, w, rec)
    PROVE  WorksIn(w) /\ Local(c)' /\ InFlight(c)' /\ Home(c)' = w
<1>0. PICK id \in AgentIds, port \in Ports :
          /\ NextId(id)
          /\ agents' = [agents EXCEPT ![id] = StartingEntry(w, port)]
          /\ workspaces' = [workspaces EXCEPT ![w].agents = @ \cup {id}]
          /\ calls' = [calls EXCEPT ![c] =
                [rec EXCEPT !.pc = "start", !.agent = id, !.port = port]]
          /\ UNCHANGED <<projects, procs, server>>
  BY DEF ReserveAgent
<1> DEFINE r == [rec EXCEPT !.pc = "start", !.agent = id, !.port = port]
<1>1. ~agents[id].registered
  BY <1>0, Knows DEF NextId, Membership, RegisteredIsBorn
<1>2. WorksIn(w)
  BY <1>0, <1>1, Knows, EntryWorks, ProcessesSame
<1>3. /\ r.pc = "start" /\ r.agent = id /\ r.port = port /\ r.op = rec.op /\ r.ws = w
      /\ r.todo = {} /\ r.snap = {} /\ r.proc = None
  BY DEF Call
<1> HIDE DEF r
<1>4. calls'[c] = r  BY <1>0, Knows DEF r
<1>5. /\ agents'[id].registered /\ agents'[id].ws = w /\ agents'[id].port = port
      /\ agents'[id].status = "STARTING"
  BY <1>0, Knows DEF StartingEntry
<1>10. Exists(w)'
  <2>1. id \in workspaces'[w].agents  BY <1>0, Knows DEF Workspace
  <2> QED  BY <2>1 DEF Exists, NoWorkspace
<1>6. SpawnLocals(r)'  BY <1>3, <1>5, <1>10 DEF SpawnLocals, Spawning
<1>7. ProcessLocals(r)'  BY <1>3 DEF ProcessLocals, Spawning
<1>8. InFlight(c)' /\ Local(c)'  BY <1>3, <1>4, <1>6, <1>7 DEF InFlight, Local
<1>9. Home(c)' = w  BY <1>3, <1>4 DEF Home
<1> QED  BY <1>2, <1>8, <1>9

\* Handlers keep their workspace when they write their local state only, and the
\* status, handle or port of the entry they work on.
LEMMA HomeKept ==
    ASSUME Apart, NEW c \in Calls, calls'[c].op = calls[c].op, calls'[c].ws = calls[c].ws,
           calls[c].op \in {"stop", "restart"} =>
              calls'[c].agent = calls[c].agent /\ agents'[calls[c].agent].ws = agents[calls[c].agent].ws
    PROVE  Home(c)' = Home(c)
BY DEF Home

\* The handler has reserved an entry that no process serves yet.
LEMMA SpawningKnows ==
    ASSUME Apart, NEW c \in Calls, calls[c].pc \in Spawning
    PROVE  LET r == calls[c] IN
           /\ InFlight(c) /\ r.agent \in AgentIds /\ agents[r.agent].registered
           /\ agents[r.agent].ws = Home(c) /\ agents[r.agent].handle = None
           /\ agents[r.agent].status = IF r.op = "restart" THEN "STOPPED" ELSE "STARTING"
           /\ r.op # "restart" => agents[r.agent].port = r.port
           /\ r.port \in Ports /\ r.todo = {} /\ ProcessLocals(r)
           /\ SpawnLocals(r) \/ (r.op = "restart" /\ StopLocals(r))
<1> DEFINE r == calls[c]
<1>1. InFlight(c) /\ ~DestroyLocals(r)  BY DEF InFlight, Spawning, DestroyLocals
<1>2. ProcessLocals(r) /\ (SpawnLocals(r) \/ StopLocals(r))  BY <1>1, Knows DEF Local
<1>3. r.port \in Ports  BY <1>2 DEF ProcessLocals
<1>4. CASE SpawnLocals(r)
  <2>1. agents[r.agent].handle = None
    BY <1>4 DEF SpawnLocals, Apart, HandleMatchesStatus
  <2> QED  BY <1>1, <1>2, <1>3, <1>4, <2>1 DEF SpawnLocals, Home
<1>5. CASE StopLocals(r)
  <2>1. r.op = "restart" /\ agents[r.agent].status = "STOPPED" /\ r.todo = {}
    BY <1>5 DEF StopLocals, Spawning
  <2>2. agents[r.agent].handle = None
    BY <1>5, <2>1 DEF StopLocals, Apart, HandleMatchesStatus
  <2> QED  BY <1>1, <1>2, <1>3, <1>5, <2>1, <2>2 DEF StopLocals, Home
<1> QED  BY <1>2, <1>4, <1>5

\* CreateWorkspace reserves its next agent, or is refused it.
LEMMA AutoWorks ==
    ASSUME Apart, NEW c \in Calls, AutoSpawn(c) \/ AutoSpawnRejected(c)
    PROVE  Works(c)
<1>1. InFlight(c) /\ calls[c].pc = "reserve"
  BY DEF AutoSpawn, AutoSpawnRejected, InFlight
<1>2. SpawnLocals(calls[c]) /\ ProcessLocals(calls[c])
  BY <1>1, Knows DEF Local, StopLocals, DestroyLocals, Spawning
<1>3. Home(c) = calls[c].ws  BY <1>2 DEF SpawnLocals, Home
<1>4. CASE AutoSpawn(c)
  <2>1. calls[c].proc = None  BY <1>1, <1>2 DEF ProcessLocals
  <2> QED  BY <1>2, <1>3, <1>4, <2>1, Knows, ReserveWorks DEF SpawnLocals, AutoSpawn, Works
<1>5. CASE AutoSpawnRejected(c)
  BY <1>5, NothingWorks, ProcessesSame, ReturnWorks DEF AutoSpawnRejected
<1> QED  BY <1>4, <1>5

\* The entry becomes READY, and CreateWorkspace goes on to its next agent.
LEMMA AttachWorks ==
    ASSUME Apart, NEW c \in Calls, AttachSpawned(c) \/ AttachRestarted(c)
    PROVE  Works(c)
<1> DEFINE r == calls[c]  e == ReadyEntry(agents[r.agent], r.proc)
<1>1. r.pc \in Spawning /\ r.pc = "attach"  BY DEF AttachSpawned, AttachRestarted, Spawning
<1>2. /\ r.agent \in AgentIds /\ agents[r.agent].ws = Home(c)
      /\ SpawnLocals(r) \/ (r.op = "restart" /\ StopLocals(r))
  BY <1>1, SpawningKnows
<1>3. /\ agents' = [agents EXCEPT ![r.agent] = e] /\ UNCHANGED <<workspaces, procs, server>>
  BY DEF AttachSpawned, AttachRestarted
<1> HIDE DEF e
<1>4. WorksIn(Home(c))  BY <1>2, <1>3, Knows, EntryWorks, ProcessesSame
<1>5. CASE Return(c)  BY <1>4, <1>5, ReturnWorks
<1>6. CASE AttachSpawned(c) /\ ~(r.autos < 2)
  <2> DEFINE n == NextAuto(r)
  <2>1. SpawnLocals(r)  BY <1>2, <1>6 DEF AttachSpawned, StopLocals
  <2>2. calls'[c] = n  BY <1>6, Knows DEF AttachSpawned
  <2>3. /\ n.pc = "reserve" /\ n.agent = None /\ n.proc = None /\ n.op = r.op /\ n.ws = r.ws
        /\ n.todo = r.todo /\ n.snap = r.snap
    BY Knows DEF NextAuto, Call
  <2> HIDE DEF n
  <2>4. SpawnLocals(calls[c])' /\ ProcessLocals(calls[c])'
    BY <1>3, <2>1, <2>2, <2>3 DEF SpawnLocals, ProcessLocals, Spawning, Exists
  <2>5. Local(c)'  BY <2>4 DEF Local
  <2>6. Home(c)' = Home(c)  BY <2>1, <2>2, <2>3, HomeKept DEF SpawnLocals
  <2> QED  BY <1>4, <2>5, <2>6 DEF Works
<1> QED  BY <1>5, <1>6 DEF AttachSpawned, AttachRestarted, Return

\* The backend has failed: the entry is in ERROR.
LEMMA FailWorks ==
    ASSUME Apart, NEW c \in Calls, SpawnFailed(c) \/ RestartFailed(c)
    PROVE  Works(c)
<1> DEFINE id == calls[c].agent  e == [agents[id] EXCEPT !.status = "ERROR"]
<1>1. id \in AgentIds /\ agents[id].ws = Home(c)
  BY SpawningKnows DEF SpawnFailed, RestartFailed, Spawning
<1>2. /\ agents' = [agents EXCEPT ![id] = e] \/ agents' = agents
      /\ Return(c) /\ UNCHANGED <<workspaces, procs, server>>
  BY DEF SpawnFailed, RestartFailed
<1> HIDE DEF e, id
<1>3. WorksIn(Home(c))  BY <1>1, <1>2, Knows, EntryWorks, ProcessesSame
<1> QED  BY <1>2, <1>3, ReturnWorks

\* Backend.Spawn has started a process, which the handler now holds.
LEMMA StartWorks ==
    ASSUME Apart, NEW c \in Calls, ExecStart(c) \/ MockStart(c)
    PROVE  Works(c)
<1> DEFINE r == calls[c]
<1>1. r.pc \in Spawning /\ r.pc = "start"  BY DEF ExecStart, MockStart, Spawning
<1>2. /\ r.agent \in AgentIds /\ r.port \in Ports /\ ProcessLocals(r)
      /\ SpawnLocals(r) \/ (r.op = "restart" /\ StopLocals(r))
  BY <1>1, SpawningKnows
<1>3. PICK q \in Pids, port \in Ports, bound \in BOOLEAN, pc \in {"poll", "attach"} :
          /\ NextPid(q) /\ Spawned(c, q, port, bound)
          /\ server.backend = "exec" => port = r.port
          /\ calls' = [calls EXCEPT ![c].pc = pc, ![c].proc = q]
          /\ UNCHANGED <<workspaces, agents, server>>
  <2>1. CASE ExecStart(c)
    <3>1. PICK q \in Pids :
             /\ NextPid(q) /\ Spawned(c, q, r.port, ~Bound(r.port))
             /\ calls' = [calls EXCEPT ![c].pc = "poll", ![c].proc = q]
      BY <2>1 DEF ExecStart
    <3>2. (~Bound(r.port)) \in BOOLEAN  BY DEF Bound
    <3>3. UNCHANGED <<workspaces, agents, server>>  BY <2>1 DEF ExecStart
    <3> QED  BY <1>2, <3>1, <3>2, <3>3
  <2>2. CASE MockStart(c)
    <3>1. PICK q \in Pids, port \in Ports :
             /\ NextPid(q) /\ Spawned(c, q, port, TRUE)
             /\ calls' = [calls EXCEPT ![c].pc = "attach", ![c].proc = q]
      BY <2>2 DEF MockStart
    <3>2. server.backend # "exec" /\ UNCHANGED <<workspaces, agents, server>>
      BY <2>2 DEF MockStart
    <3> QED  BY <3>1, <3>2
  <2> QED  BY <2>1, <2>2
<1>4. /\ ProcessesAge /\ procs'[q].state = "running" /\ procs'[q].port = port
  BY <1>3, Knows, ProcessStarts
<1>5. WorksIn(Home(c))  BY <1>3, <1>4, NothingWorks
<1>6. /\ calls'[c].pc = pc /\ calls'[c].proc = q /\ calls'[c].op = r.op
      /\ calls'[c].ws = r.ws /\ calls'[c].agent = r.agent /\ calls'[c].port = r.port
      /\ calls'[c].todo = r.todo /\ calls'[c].snap = r.snap
  BY <1>3, Knows DEF Call
<1>7. ProcessLocals(calls[c])'
  BY <1>2, <1>3, <1>4, <1>6 DEF ProcessLocals, Spawning
<1>9. SpawnLocals(calls[c])' \/ StopLocals(calls[c])'
  <2>1. CASE SpawnLocals(r)
    BY <1>1, <1>3, <1>6, <2>1 DEF SpawnLocals, Spawning, Exists
  <2>2. CASE r.op = "restart" /\ StopLocals(r)
    <3>1. /\ r.op = "restart" /\ r.agent \in AgentIds /\ r.snap = {} /\ r.todo = {}
          /\ agents[r.agent].registered /\ agents[r.agent].status = "STOPPED"
      BY <1>1, <2>2 DEF StopLocals
    <3>2. /\ calls'[c].op = "restart" /\ calls'[c].agent \in AgentIds /\ calls'[c].snap = {}
          /\ calls'[c].todo = {} /\ agents'[calls'[c].agent].registered
          /\ agents'[calls'[c].agent].status = "STOPPED" /\ calls'[c].pc \in {"poll", "attach"}
      BY <1>3, <1>6, <3>1
    <3> HIDE <1>3
    <3> QED  BY <3>2 DEF StopLocals, Spawning
  <2> QED  BY <1>2, <2>1, <2>2
<1>10. Home(c)' = Home(c)  BY <1>3, <1>6, HomeKept
<1> QED  BY <1>5, <1>7, <1>9, <1>10 DEF Works, Local

\* A handler that moves on keeps its other local variables.
LEMMA Moved ==
    ASSUME calls \in [Calls -> Call], NEW c \in Calls, NEW pc, Goto(c, pc)
    PROVE  LET r == calls[c]  n == calls'[c] IN
           /\ n.pc = pc /\ n.op = r.op /\ n.ws = r.ws /\ n.agent = r.agent
           /\ n.proc = r.proc /\ n.port = r.port /\ n.todo = r.todo /\ n.snap = r.snap
BY DEF Goto, Call

\* Backend.Spawn fails or its health check ends.
LEMMA BackendWorks ==
    ASSUME Apart, NEW c \in Calls,
           StartFails(c) \/ HealthCheckPasses(c) \/ HealthCheckFails(c)
    PROVE  Works(c)
<1> DEFINE r == calls[c]
<1>1. r.pc \in Spawning /\ r.pc \in {"start", "poll"}
  BY DEF StartFails, HealthCheckPasses, HealthCheckFails, Spawning
<1>2. /\ r.agent \in AgentIds /\ r.port \in Ports /\ ProcessLocals(r)
      /\ SpawnLocals(r) \/ (r.op = "restart" /\ StopLocals(r))
  BY <1>1, SpawningKnows
<1>3. PICK pc \in {"fail", "attach"} : Goto(c, pc) /\ (pc = "attach" => HealthCheckPasses(c))
  BY DEF StartFails, HealthCheckPasses, HealthCheckFails
<1>4. UNCHANGED <<agents, workspaces, server>>
  BY DEF StartFails, HealthCheckPasses, HealthCheckFails
<1>5. ProcessesAge /\ (r.pc = "poll" /\ pc = "fail" => procs'[r.proc].state # "running")
  <2>1. CASE HealthCheckFails(c)
    BY <1>1, <2>1, Knows, ProcessDies DEF HealthCheckFails
  <2>2. CASE StartFails(c)
    BY <2>2, ProcessesSame DEF StartFails
  <2>3. CASE HealthCheckPasses(c)
    <3>1. UNCHANGED procs /\ Goto(c, "attach")  BY <2>3 DEF HealthCheckPasses
    <3>2. pc = "attach"  BY <1>3, <3>1, Knows, Moved
    <3> QED  BY <3>1, <3>2, ProcessesSame
  <2> QED  BY <2>1, <2>2, <2>3
<1>6. WorksIn(Home(c))  BY <1>4, <1>5, NothingWorks
<1>7. LET n == calls'[c] IN
      /\ n.pc = pc /\ n.op = r.op /\ n.ws = r.ws /\ n.agent = r.agent
      /\ n.proc = r.proc /\ n.port = r.port /\ n.todo = r.todo /\ n.snap = r.snap
  BY <1>3, Knows, Moved
<1>8. ProcessLocals(calls[c])'
  <2>1. /\ r.proc # None => procs[r.proc].state # "unborn"
        /\ r.pc = "start" => r.proc = None
        /\ r.pc = "poll" /\ server.backend = "exec" => procs[r.proc].port = r.port
    BY <1>1, <1>2 DEF ProcessLocals
  <2>2. /\ r.proc # None =>
              procs'[r.proc].state # "unborn" /\ procs'[r.proc].port = procs[r.proc].port
        /\ r.pc = "poll" => r.proc # None
    BY <1>5, <2>1, Knows DEF ProcessesAge
  <2>3. pc = "attach" => r.pc = "poll"
    BY <1>3 DEF HealthCheckPasses
  <2> QED  BY <1>1, <1>2, <1>3, <1>4, <1>5, <1>7, <2>1, <2>2, <2>3 DEF ProcessLocals, Running
<1>9. SpawnLocals(calls[c])' \/ StopLocals(calls[c])'
  <2>1. CASE SpawnLocals(r)
    BY <1>1, <1>3, <1>4, <1>7, <2>1 DEF SpawnLocals, Spawning, Exists
  <2>2. CASE r.op = "restart" /\ StopLocals(r)
    <3>1. /\ r.op = "restart" /\ r.agent \in AgentIds /\ r.snap = {} /\ r.todo = {}
          /\ agents[r.agent].registered /\ agents[r.agent].status = "STOPPED"
      BY <1>1, <2>2 DEF StopLocals
    <3>2. /\ calls'[c].op = "restart" /\ calls'[c].agent \in AgentIds /\ calls'[c].snap = {}
          /\ calls'[c].todo = {} /\ agents'[calls'[c].agent].registered
          /\ agents'[calls'[c].agent].status = "STOPPED" /\ calls'[c].pc \in {"fail", "attach"}
      BY <1>3, <1>4, <1>7, <3>1
    <3> QED  BY <3>2 DEF StopLocals, Spawning
  <2> QED  BY <1>2, <2>1, <2>2
<1>10. Home(c)' = Home(c)  BY <1>4, <1>7, HomeKept
<1> QED  BY <1>6, <1>8, <1>9, <1>10 DEF Works, Local

\* The handler is stopping an agent: it knows which.
LEMMA StoppingKnows ==
    ASSUME Apart, NEW c \in Calls, calls[c].pc \in {"stop", "term", "stopped", "reply", "realloc", "remove"}
    PROVE  LET r == calls[c] IN
           /\ InFlight(c) /\ ProcessLocals(r)
           /\ StopLocals(r) \/ DestroyLocals(r)
           /\ \A id \in r.todo \cup r.snap \cup ({r.agent} \ {None}) :
                 id \in AgentIds /\ agents[id].registered /\ agents[id].ws = Home(c)
           /\ r.pc # "stop" /\ r.op # "destroy" => r.agent \in AgentIds
<1> DEFINE r == calls[c]
<1>1. InFlight(c) /\ ~SpawnLocals(r)  BY DEF InFlight, Spawning, SpawnLocals
<1>2. ProcessLocals(r) /\ (StopLocals(r) \/ DestroyLocals(r))  BY <1>1, Knows DEF Local
<1>3. CASE StopLocals(r)
  BY <1>1, <1>2, <1>3 DEF StopLocals, Home
<1>4. CASE DestroyLocals(r)
  <2>1. Home(c) = r.ws  BY <1>4 DEF DestroyLocals, Home
  <2>2. \A id \in r.snap : id \in AgentIds /\ agents[id].registered /\ agents[id].ws = r.ws
    BY <1>4, Knows DEF DestroyLocals, Membership, MembersRegistered, Call
  <2> QED  BY <1>1, <1>2, <1>4, <2>1, <2>2 DEF DestroyLocals
<1> QED  BY <1>2, <1>3, <1>4

\* The first half of a stop: the status is STOPPING and the handle captured.
LEMMA StopBeginsWorks ==
    ASSUME Apart, NEW c \in Calls, StopBegins(c)
    PROVE  Works(c)
<1> DEFINE r == calls[c]
<1>1. /\ StopLocals(r) \/ DestroyLocals(r)
      /\ \A id \in r.todo : id \in AgentIds /\ agents[id].registered /\ agents[id].ws = Home(c)
  BY StoppingKnows DEF StopBegins
<1>2. PICK id \in r.todo :
          /\ agents' = [agents EXCEPT ![id].status = "STOPPING"]
          /\ calls' = [calls EXCEPT ![c] =
              [@ EXCEPT !.pc = "term", !.agent = id, !.proc = agents[id].handle,
                        !.todo = calls[c].todo \ {id}]]
  BY DEF StopBegins
<1>3. /\ r.pc = "stop" /\ UNCHANGED <<workspaces, procs, server>>  BY DEF StopBegins
<1>4. id \in AgentIds /\ agents[id].registered /\ agents[id].ws = Home(c)  BY <1>1
<1> DEFINE e == [agents[id] EXCEPT !.status = "STOPPING"]
<1>5. agents' = [agents EXCEPT ![id] = e]  BY <1>2
<1>6. /\ e.status = "STOPPING" /\ e.registered /\ e.ws = Home(c) /\ e.handle = agents[id].handle
  BY <1>4, Knows DEF Agent
<1> HIDE DEF e
<1>7. WorksIn(Home(c))  BY <1>3, <1>4, <1>5, Knows, EntryWorks, ProcessesSame
<1>8. LET n == calls'[c] IN
      /\ n.pc = "term" /\ n.op = r.op /\ n.ws = r.ws /\ n.agent = id
      /\ n.proc = agents[id].handle /\ n.todo = r.todo \ {id} /\ n.snap = r.snap
  BY <1>2, Knows DEF Call
<1>9. /\ agents'[id] = e /\ \A i \in AgentIds : i # id => agents'[i] = agents[i]
  BY <1>4, <1>5, Knows
<1>10. ProcessLocals(calls[c])'
  <2>1. agents[id].handle # None => procs[agents[id].handle].state # "unborn"
    BY <1>4, Knows DEF HandlesBorn
  <2> QED  BY <1>3, <1>6, <1>8, <1>9, <2>1 DEF ProcessLocals, Spawning
<1>11. CASE StopLocals(r)
  <2>1. /\ r.op \in {"stop", "restart"} /\ r.snap = {} /\ id = r.agent /\ r.todo \ {id} = {}
    BY <1>3, <1>11 DEF StopLocals
  <2>2. StopLocals(calls[c])'
    BY <1>4, <1>6, <1>8, <1>9, <2>1 DEF StopLocals
  <2>3. Home(c)' = Home(c)  BY <1>6, <1>8, <1>9, <2>1 DEF Home
  <2> QED  BY <1>7, <1>10, <2>2, <2>3 DEF Works, Local
<1>12. CASE DestroyLocals(r)
  <2>1. \A i \in r.snap : i \in AgentIds  BY Knows DEF Call
  <2>2. \A i \in r.snap \ (r.todo \ {id}) : i = id \/ agents'[i].status = "STOPPED"
    BY <1>3, <1>9, <1>12, <2>1 DEF DestroyLocals
  <2>3. DestroyLocals(calls[c])'
    BY <1>3, <1>8, <1>12, <2>2 DEF DestroyLocals, Exists
  <2>4. Home(c)' = Home(c)  BY <1>8, <1>12 DEF DestroyLocals, Home
  <2> QED  BY <1>7, <1>10, <2>3, <2>4 DEF Works, Local
<1> QED  BY <1>1, <1>11, <1>12

\* The captured handle is stopped.
LEMMA HandleStopsWorks ==
    ASSUME Apart, NEW c \in Calls, HandleStops(c)
    PROVE  Works(c)
<1> DEFINE r == calls[c]
<1>1. /\ StopLocals(r) \/ DestroyLocals(r)
      /\ ProcessLocals(r) /\ r.pc = "term" /\ Goto(c, "stopped")
      /\ UNCHANGED <<workspaces, agents, server>>
  BY StoppingKnows DEF HandleStops
<1>2. ProcessesAge /\ (r.proc # None => procs'[r.proc].state # "running")
  BY Knows, ProcessDies, ProcessesSame DEF HandleStops
<1>3. WorksIn(Home(c))  BY <1>1, <1>2, NothingWorks
<1>4. LET n == calls'[c] IN
      /\ n.pc = "stopped" /\ n.op = r.op /\ n.ws = r.ws /\ n.agent = r.agent
      /\ n.proc = r.proc /\ n.port = r.port /\ n.todo = r.todo /\ n.snap = r.snap
  BY <1>1, Knows, Moved
<1>5. ProcessLocals(calls[c])'
  <2>1. r.proc # None => procs'[r.proc].state # "unborn"
    BY <1>1, <1>2, Knows DEF ProcessLocals, ProcessesAge
  <2> QED  BY <1>1, <1>2, <1>4, <2>1 DEF ProcessLocals, Spawning, Running
<1>6. CASE StopLocals(r)
  BY <1>1, <1>3, <1>4, <1>5, <1>6, HomeKept DEF Works, Local, StopLocals
<1>7. CASE DestroyLocals(r)
  BY <1>1, <1>3, <1>4, <1>5, <1>7, HomeKept DEF Works, Local, DestroyLocals, Exists
<1> QED  BY <1>1, <1>6, <1>7

\* The second half of a stop, when the process has terminated.
LEMMA StopEndsWorks ==
    ASSUME Apart, NEW c \in Calls, StopEnds(c)
    PROVE  Works(c)
<1> DEFINE r == calls[c]  id == r.agent  e == StoppedEntry(agents[id])
           next == AfterStop(r.op, r.todo)
<1>1. /\ StopLocals(r) \/ DestroyLocals(r)
      /\ r.pc = "stopped" /\ agents' = [agents EXCEPT ![id] = e]
      /\ UNCHANGED <<workspaces, procs, server>>
  BY StoppingKnows DEF StopEnds
<1>2. id \in AgentIds /\ agents[id].registered /\ agents[id].ws = Home(c)
  <2>1. r.agent # None  BY <1>1, Knows DEF StopLocals, DestroyLocals, Call
  <2> QED  BY <1>1, <2>1, StoppingKnows
<1>3. e.status = "STOPPED" /\ e.registered /\ e.ws = Home(c)
  BY <1>2, Knows DEF StoppedEntry, Agent
<1>4. LET n == calls'[c] IN
      /\ n.pc = next /\ n.op = r.op /\ n.ws = r.ws /\ n.agent = id
      /\ n.proc = None /\ n.todo = r.todo /\ n.snap = r.snap
  BY Knows DEF StopEnds, Call
<1>5. next = IF r.todo # {} THEN "stop"
             ELSE IF r.op = "stop" THEN "reply"
             ELSE IF r.op = "restart" THEN "realloc" ELSE "remove"
  BY DEF AfterStop
<1> HIDE DEF e, next
<1>6. WorksIn(Home(c))  BY <1>1, <1>2, Knows, EntryWorks, ProcessesSame
<1>7. /\ agents'[id] = e /\ \A i \in AgentIds : i # id => agents'[i] = agents[i]
  BY <1>1, <1>2, Knows
<1>8. ProcessLocals(calls[c])'  BY <1>4, <1>5 DEF ProcessLocals, Spawning
<1>9. CASE StopLocals(r)
  <2>1. /\ r.op \in {"stop", "restart"} /\ r.snap = {} /\ r.todo = {}
    BY <1>1, <1>9 DEF StopLocals
  <2>2. next = IF r.op = "stop" THEN "reply" ELSE "realloc"  BY <1>5, <2>1
  <2>3. StopLocals(calls[c])'
    BY <1>2, <1>3, <1>4, <1>7, <2>1, <2>2 DEF StopLocals
  <2>4. Home(c)' = Home(c)  BY <1>3, <1>4, <1>7, <2>1 DEF Home
  <2> QED  BY <1>6, <1>8, <2>3, <2>4 DEF Works, Local
<1>10. CASE DestroyLocals(r)
  <2>1. \A i \in r.snap : i \in AgentIds  BY Knows DEF Call
  <2>2. \A i \in r.snap \ r.todo : agents'[i].status = "STOPPED"
    BY <1>3, <1>7, <1>10, <2>1 DEF DestroyLocals
  <2>3. next = IF r.todo # {} THEN "stop" ELSE "remove"
    BY <1>5, <1>10 DEF DestroyLocals
  <2>4. DestroyLocals(calls[c])'
    BY <1>1, <1>4, <1>10, <2>2, <2>3 DEF DestroyLocals, Exists
  <2>5. Home(c)' = Home(c)  BY <1>4, <1>10 DEF DestroyLocals, Home
  <2> QED  BY <1>6, <1>8, <2>4, <2>5 DEF Works, Local
<1> QED  BY <1>1, <1>9, <1>10

\* A disciplined handler finds every agent it is to stop.
LEMMA NothingSkipped ==
    ASSUME Apart, NEW c \in Calls
    PROVE  ~StopSkips(c)
BY StoppingKnows DEF StopSkips

\* RestartAgent reserves a port again; the other steps return.
LEMMA EndWorks ==
    ASSUME Apart, NEW c \in Calls,
           StopReturns(c) \/ ReallocPort(c) \/ ReallocFails(c) \/ RemoveWorkspace(c)
    PROVE  Works(c)
<1> DEFINE r == calls[c]
<1>1. /\ StopLocals(r) \/ DestroyLocals(r)
      /\ ProcessLocals(r)
      /\ \A id \in r.snap : id \in AgentIds /\ agents[id].ws = Home(c)
  BY StoppingKnows DEF StopReturns, ReallocPort, ReallocFails, RemoveWorkspace
<1>2. CASE StopReturns(c) \/ ReallocFails(c)
  BY <1>2, NothingWorks, ProcessesSame, ReturnWorks DEF StopReturns, ReallocFails
<1>3. CASE ReallocPort(c)
  <2>1. PICK port \in Ports : calls' = [calls EXCEPT ![c].pc = "start", ![c].port = port]
    BY <1>3 DEF ReallocPort
  <2>2. r.pc = "realloc" /\ UNCHANGED <<agents, workspaces, procs, server>>
    BY <1>3 DEF ReallocPort
  <2>3. LET n == calls'[c] IN
        /\ n.pc = "start" /\ n.op = r.op /\ n.ws = r.ws /\ n.agent = r.agent
        /\ n.proc = r.proc /\ n.port = port /\ n.todo = r.todo /\ n.snap = r.snap
    BY <2>1, Knows DEF Call
  <2>4. StopLocals(r) /\ r.op = "restart" /\ r.proc = None
    BY <1>1, <2>2 DEF StopLocals, DestroyLocals, ProcessLocals
  <2>5. StopLocals(calls[c])'  BY <2>2, <2>3, <2>4 DEF StopLocals, Spawning
  <2>6. ProcessLocals(calls[c])'  BY <2>3, <2>4 DEF ProcessLocals, Spawning
  <2>7. WorksIn(Home(c))  BY <2>2, NothingWorks, ProcessesSame
  <2> QED  BY <2>2, <2>3, <2>5, <2>6, <2>7, HomeKept DEF Works, Local
<1>4. CASE RemoveWorkspace(c)
  <2>1. /\ r.pc = "remove" /\ agents' = Unregistered(r.snap) /\ Return(c)
        /\ workspaces' = [workspaces EXCEPT ![r.ws] = NoWorkspace]
        /\ UNCHANGED <<procs, server>>
    BY <1>4 DEF RemoveWorkspace
  <2>2. Home(c) = r.ws  BY <1>1, <2>1 DEF StopLocals, DestroyLocals, Home, Spawning
  <2>3. WorksIn(Home(c))
    BY <1>1, <2>1, <2>2, Knows, ProcessesSame DEF WorksIn, Unregistered
  <2> QED  BY <2>1, <2>3, ReturnWorks
<1> QED  BY <1>2, <1>3, <1>4

\* Every step of a handler stays in its home.
LEMMA StepWorks ==
    ASSUME Apart, NEW c \in Calls, Step(c)
    PROVE  Works(c) /\ InFlight(c) /\ (\A d \in Calls : d # c => calls'[d] = calls[d])
<1>1. Works(c)
  BY AutoWorks, AttachWorks, FailWorks, StartWorks, BackendWorks, StopBeginsWorks,
     NothingSkipped, HandleStopsWorks, StopEndsWorks, EndWorks DEF Step
<1>2. InFlight(c)
  BY DEF Step, InFlight, AutoSpawn, AutoSpawnRejected, AttachSpawned, SpawnFailed, ExecStart,
     MockStart, StartFails, HealthCheckPasses, HealthCheckFails, StopBegins, StopSkips,
     HandleStops, StopEnds, StopReturns, ReallocPort, ReallocFails, AttachRestarted,
     RestartFailed, RemoveWorkspace
<1>3. \A d \in Calls : d # c => calls'[d] = calls[d]
  <2>0. calls \in [Calls -> Call]  BY Knows
  <2>1. CASE Return(c) \/ \E pc : Goto(c, pc)
    BY <2>0, <2>1 DEF Return, Goto
  <2>2. CASE AutoSpawn(c) \/ AttachSpawned(c)
    BY <2>0, <2>2 DEF AutoSpawn, ReserveAgent, AttachSpawned
  <2>3. CASE ExecStart(c) \/ MockStart(c)
    BY <2>0, <2>3 DEF ExecStart, MockStart
  <2>4. CASE StopBegins(c) \/ StopSkips(c) \/ StopEnds(c) \/ ReallocPort(c)
    BY <2>0, <2>4 DEF StopBegins, StopSkips, StopEnds, ReallocPort
  <2>5. CASE \/ AutoSpawnRejected(c) \/ SpawnFailed(c) \/ StopReturns(c) \/ ReallocFails(c)
             \/ AttachRestarted(c) \/ RestartFailed(c) \/ RemoveWorkspace(c)
    BY <2>1, <2>5 DEF AutoSpawnRejected, SpawnFailed, StopReturns, ReallocFails,
       AttachRestarted, RestartFailed, RemoveWorkspace
  <2>6. CASE StartFails(c) \/ HealthCheckPasses(c) \/ HealthCheckFails(c) \/ HandleStops(c)
    BY <2>1, <2>6 DEF StartFails, HealthCheckPasses, HealthCheckFails, HandleStops
  <2> QED  BY <2>2, <2>3, <2>4, <2>5, <2>6 DEF Step
<1> QED  BY <1>1, <1>2, <1>3

----------------------------------------------------------------------------
(* Requests                                                                *)

\* A handler in flight works in a workspace that exists.
LEMMA HomeExists ==
    ASSUME Apart, NEW d \in Calls, InFlight(d)
    PROVE  /\ Home(d) \in WsNames /\ Exists(Home(d)) /\ Home(d) \in Footprint(d)
           /\ calls[d].agent # None => calls[d].agent \in AgentIds /\ agents[calls[d].agent].registered
<1> DEFINE r == calls[d]
<1>1. SpawnLocals(r) \/ StopLocals(r) \/ DestroyLocals(r)  BY Knows DEF Local
<1>2. CASE SpawnLocals(r)
  <2>1. Home(d) = r.ws /\ r.ws \in WsNames /\ Exists(r.ws)  BY <1>2 DEF SpawnLocals, Home
  <2>2. r.pc \in Spawning \/ r.agent = None  BY <1>2 DEF SpawnLocals
  <2> QED  BY <1>2, <2>1, <2>2, Knows DEF SpawnLocals, Footprint
<1>3. CASE StopLocals(r)
  <2>1. /\ Home(d) = agents[r.agent].ws /\ r.agent \in AgentIds /\ agents[r.agent].registered
    BY <1>3 DEF StopLocals, Home
  <2>2. Home(d) \in WsNames /\ r.agent \in workspaces[Home(d)].agents
    BY <2>1 DEF Apart, AgentsPlaced, AgentsHaveWorkspace, Registered
  <2>3. Exists(Home(d))  BY <2>2 DEF Exists, NoWorkspace
  <2> QED  BY <2>1, <2>2, <2>3, Knows DEF Footprint
<1>4. CASE DestroyLocals(r)
  <2>1. Home(d) = r.ws /\ r.ws \in WsNames /\ Exists(r.ws)  BY <1>4 DEF DestroyLocals, Home
  <2>2. \A id \in r.snap : id \in AgentIds /\ agents[id].registered
    BY <1>4, Knows DEF DestroyLocals, Membership, MembersRegistered, Call
  <2> QED  BY <1>4, <2>1, <2>2, Knows DEF DestroyLocals, Footprint
<1> QED  BY <1>1, <1>2, <1>3, <1>4

\* A request is handled in workspace w, where no other handler works.
Enters(c, w) ==
    /\ WorksIn(w) /\ Local(c)' /\ (InFlight(c)' => Home(c)' = w)
    /\ \A d \in Calls : d # c => calls'[d] = calls[d] /\ (InFlight(d) => Home(d) # w)

\* A request that leaves the registered agents alone, for a workspace that is in
\* the handler's footprint, meets no other handler there.
LEMMA EntersAlone ==
    ASSUME Apart, OnePerWorkspace', NEW c \in Calls, NEW w \in Footprint(c)',
           \A d \in Calls : d # c => calls'[d] = calls[d],
           \A id \in AgentIds : agents[id].registered => agents'[id] = agents[id]
    PROVE  \A d \in Calls : d # c /\ InFlight(d) => Home(d) # w
<1> SUFFICES ASSUME NEW d \in Calls, d # c, InFlight(d) PROVE Home(d) # w  OBVIOUS
<1>1. Home(d) \in Footprint(d) /\ calls'[d] = calls[d]  BY HomeExists
<1>2. calls[d].agent # None => agents'[calls[d].agent] = agents[calls[d].agent]  BY HomeExists
<1>3. Footprint(d)' = Footprint(d)
  <2>1. \A id \in {calls[d].agent} \ {None} : agents'[id] = agents[id]  BY <1>2
  <2>2. {agents'[id].ws : id \in {calls[d].agent} \ {None}}
          = {agents[id].ws : id \in {calls[d].agent} \ {None}}
    BY <2>1
  <2> QED  BY <1>1, <2>2 DEF Footprint, InFlight
<1>4. Footprint(c)' \cap Footprint(d)' = {}  BY DEF OnePerWorkspace
<1> QED  BY <1>1, <1>3, <1>4

\* SpawnAgent's first lock section is in the workspace of the request.
LEMMA SpawnEnters ==
    ASSUME Apart, NEW c \in Calls, SpawnAgent(c), OnePerWorkspace'
    PROVE  \E w \in WsNames : Enters(c, w)
<1>1. PICK w \in WsNames : ReserveAgent(c, w, [NoCall EXCEPT !.op = "spawn", !.ws = w])
  BY DEF SpawnAgent
<1> DEFINE rec == [NoCall EXCEPT !.op = "spawn", !.ws = w]
<1>2. /\ rec \in Call /\ rec.op = "spawn" /\ rec.ws = w /\ rec.todo = {} /\ rec.snap = {}
      /\ rec.proc = None
  BY NullCall, EntryConstants DEF Call, NoCall
<1> HIDE DEF rec
<1>3. ReserveAgent(c, w, rec)  BY <1>1 DEF rec
<1>4. WorksIn(w) /\ Local(c)' /\ InFlight(c)' /\ Home(c)' = w  BY <1>2, <1>3, ReserveWorks
<1>5. PICK id \in AgentIds, port \in Ports :
          /\ NextId(id) /\ agents' = [agents EXCEPT ![id] = StartingEntry(w, port)]
          /\ calls' = [calls EXCEPT ![c] =
                [rec EXCEPT !.pc = "start", !.agent = id, !.port = port]]
  BY <1>3 DEF ReserveAgent
<1>6. \A d \in Calls : d # c => calls'[d] = calls[d]  BY <1>5, Knows
<1>7. \A i \in AgentIds : agents[i].registered => agents'[i] = agents[i]
  <2>1. ~agents[id].registered  BY <1>5, Knows DEF NextId, Membership, RegisteredIsBorn
  <2> QED  BY <1>5, <2>1, Knows
<1>8. calls'[c].ws = w  BY <1>2, <1>5, Knows DEF Call
<1>9. w \in Footprint(c)'  BY <1>4, <1>8, Knows DEF Footprint
<1> QED  BY <1>4, <1>6, <1>7, <1>9, EntersAlone DEF Enters

\* CreateWorkspace enters the workspace it makes.
LEMMA CreateEnters ==
    ASSUME Apart, NEW c \in Calls, CreateWorkspace(c)
    PROVE  \E w \in WsNames : Enters(c, w)
<1>1. PICK w \in WsNames, p \in projects, n \in 0..MaxAutoAgents :
        /\ ~Exists(w)
        /\ workspaces' = [workspaces EXCEPT ![w] = [project |-> p, agents |-> {}]]
        /\ calls' = [calls EXCEPT ![c] = IF n = 0 THEN NoCall ELSE
              [NoCall EXCEPT !.op = "create", !.pc = "reserve", !.ws = w, !.autos = n]]
  BY DEF CreateWorkspace
<1>2. UNCHANGED <<agents, procs, server>>  BY DEF CreateWorkspace
<1>3. WorksIn(w)  BY <1>1, <1>2, Knows, ProcessesSame DEF WorksIn
<1>4. \A d \in Calls : d # c => calls'[d] = calls[d]  BY <1>1, Knows
<1>5. \A d \in Calls : InFlight(d) => Home(d) # w  BY <1>1, HomeExists
<1>6. Exists(w)'
  <2>1. p # None  BY Knows, ConstantsAssumption DEF Typed, TypeOK
  <2>2. workspaces'[w].project = p  BY <1>1, Knows
  <2> QED  BY <2>1, <2>2 DEF Exists, NoWorkspace
<1>7. CASE n = 0
  <2>1. calls'[c] = NoCall  BY <1>1, <1>7, Knows
  <2>2. ~InFlight(c)'  BY <2>1 DEF InFlight, NoCall
  <2> QED  BY <1>3, <1>4, <1>5, <2>2 DEF Enters, Local
<1>8. CASE n # 0
  <2>1. calls'[c] = [NoCall EXCEPT !.op = "create", !.pc = "reserve", !.ws = w, !.autos = n]
    BY <1>1, <1>8, Knows
  <2>2. LET m == calls'[c] IN
        /\ m.op = "create" /\ m.pc = "reserve" /\ m.ws = w /\ m.agent = None
        /\ m.proc = None /\ m.todo = {} /\ m.snap = {}
    BY <2>1 DEF NoCall
  <2>3. SpawnLocals(calls[c])' /\ ProcessLocals(calls[c])'
    BY <1>6, <2>2 DEF SpawnLocals, ProcessLocals, Spawning, Exists
  <2>4. Home(c)' = w  BY <2>2 DEF Home
  <2> QED  BY <1>3, <1>4, <1>5, <2>3, <2>4 DEF Enters, Local
<1> QED  BY <1>7, <1>8

\* StopAgent and RestartAgent enter the workspace of their agent.
LEMMA StopEnters ==
    ASSUME Apart, NEW c \in Calls, StopAgent(c) \/ RestartAgent(c), OnePerWorkspace'
    PROVE  \E w \in WsNames : Enters(c, w)
<1>1. PICK id \in AgentIds, op \in {"stop", "restart"} :
        /\ agents[id].registered
        /\ calls' = [calls EXCEPT ![c] =
              [NoCall EXCEPT !.op = op, !.pc = "stop", !.agent = id, !.todo = {id}]]
  BY DEF StopAgent, RestartAgent
<1>2. UNCHANGED <<agents, workspaces, procs, server>>  BY DEF StopAgent, RestartAgent
<1> DEFINE w == agents[id].ws
<1>3. w \in WsNames  BY <1>1 DEF Apart, AgentsPlaced
<1>4. WorksIn(w)  BY <1>2, NothingWorks, ProcessesSame
<1>5. \A d \in Calls : d # c => calls'[d] = calls[d]  BY <1>1, Knows
<1>6. calls'[c] = [NoCall EXCEPT !.op = op, !.pc = "stop", !.agent = id, !.todo = {id}]
  BY <1>1, Knows
<1>7. LET m == calls'[c] IN
      /\ m.op = op /\ m.pc = "stop" /\ m.agent = id /\ m.ws = None
      /\ m.proc = None /\ m.todo = {id} /\ m.snap = {}
  BY <1>6 DEF NoCall
<1>8. StopLocals(calls[c])' /\ ProcessLocals(calls[c])'
  BY <1>1, <1>2, <1>7 DEF StopLocals, ProcessLocals, Spawning
<1>9. Home(c)' = w /\ InFlight(c)'  BY <1>2, <1>7 DEF Home, InFlight
<1>10. w \in Footprint(c)'  BY <1>1, <1>2, <1>3, <1>7, <1>9, Knows DEF Footprint
<1> HIDE DEF w
<1> QED  BY <1>2, <1>3, <1>4, <1>5, <1>8, <1>9, <1>10, EntersAlone DEF Enters, Local

\* DestroyWorkspace enters the workspace it destroys.
LEMMA DestroyEnters ==
    ASSUME Apart, NEW c \in Calls, DestroyWorkspace(c), OnePerWorkspace'
    PROVE  \E w \in WsNames : Enters(c, w)
<1>1. PICK w \in WsNames :
        LET ids == workspaces[w].agents IN
        /\ Exists(w)
        /\ calls' = [calls EXCEPT ![c] =
              [NoCall EXCEPT !.op = "destroy", !.ws = w, !.todo = ids, !.snap = ids,
                             !.pc = IF ids = {} THEN "remove" ELSE "stop"]]
  BY DEF DestroyWorkspace
<1> DEFINE ids == workspaces[w].agents
<1>2. UNCHANGED <<agents, workspaces, procs, server>>  BY DEF DestroyWorkspace
<1>3. WorksIn(w)  BY <1>2, NothingWorks, ProcessesSame
<1>4. \A d \in Calls : d # c => calls'[d] = calls[d]  BY <1>1, Knows
<1>5. calls'[c] = [NoCall EXCEPT !.op = "destroy", !.ws = w, !.todo = ids, !.snap = ids,
                                 !.pc = IF ids = {} THEN "remove" ELSE "stop"]
  BY <1>1, Knows
<1>6. LET m == calls'[c] IN
      /\ m.op = "destroy" /\ m.ws = w /\ m.todo = ids /\ m.snap = ids /\ m.agent = None
      /\ m.proc = None /\ m.pc = IF ids = {} THEN "remove" ELSE "stop"
  BY <1>5 DEF NoCall
<1>7. DestroyLocals(calls[c])' /\ ProcessLocals(calls[c])'
  BY <1>1, <1>2, <1>6 DEF DestroyLocals, ProcessLocals, Spawning, Exists
<1>8. Home(c)' = w /\ InFlight(c)'  BY <1>6 DEF Home, InFlight
<1>9. w \in Footprint(c)'  BY <1>6, <1>8, Knows DEF Footprint
<1> QED  BY <1>2, <1>3, <1>4, <1>7, <1>8, <1>9, EntersAlone DEF Enters, Local

----------------------------------------------------------------------------
(* Every step                                                              *)

\* Steps that no handler takes.
Others ==
    \/ \E p \in Projects : RegisterProject(p) \/ UnregisterProject(p)
    \/ \E q \in Pids : ProcessExits(q)
    \/ Shutdown
    \/ UNCHANGED vars

\* They work in no workspace.
LEMMA OthersWork ==
    ASSUME Apart, Others
    PROVE  WorksIn(None) /\ UNCHANGED <<agents, workspaces, calls>>
<1>1. UNCHANGED <<agents, workspaces, calls>>
  BY DEF Others, RegisterProject, UnregisterProject, ProcessExits, Shutdown, ServerStop,
     StopDoomed, GracefulStop, ServerExits, CloseStream, vars
<1>2. ProcessesAge
  <2>1. UNCHANGED procs \/ \E q : Terminate(q)
    BY DEF Others, RegisterProject, UnregisterProject, ProcessExits, Shutdown, ServerStop,
       StopDoomed, GracefulStop, ServerExits, CloseStream, vars
  <2>2. CASE UNCHANGED procs  BY <2>2, ProcessesSame
  <2>3. CASE \E q : Terminate(q)  BY <2>3, Knows, ProcessDies DEF Apart, Typed, TypeOK
  <2> QED  BY <2>1, <2>2, <2>3
<1>3. server'.backend = server.backend
  BY DEF Others, RegisterProject, UnregisterProject, ProcessExits, Shutdown, ServerStop,
     StopDoomed, GracefulStop, ServerExits, CloseStream, vars, Apart, Typed, TypeOK, Server
<1> QED  BY <1>1, <1>2, <1>3 DEF WorksIn

\* Disciplined clients are clients.
LEMMA Disciplined == DisciplinedNext => Next
BY DEF DisciplinedNext, Next

\* One of three things happens.
LEMMA StepKinds ==
    ASSUME Apart, [DisciplinedNext]_vars
    PROVE  \/ \E c \in Calls : Step(c)
           \/ \E c \in Calls, w \in WsNames : Request(c) /\ Enters(c, w)
           \/ Others
<1>1. ASSUME NEW c \in Calls, Request(c), OnePerWorkspace'
      PROVE  \E w \in WsNames : Enters(c, w)
  BY <1>1, SpawnEnters, CreateEnters, StopEnters, DestroyEnters DEF Request
<1> QED  BY <1>1 DEF DisciplinedNext, Others

\* Handlers go on knowing what they know, and stay apart.
LEMMA LocalsNext == Apart /\ [DisciplinedNext]_vars => Locals' /\ HomesApart'
<1> SUFFICES ASSUME Apart, [DisciplinedNext]_vars PROVE Locals' /\ HomesApart'  OBVIOUS
<1>1. CASE \E c \in Calls : Step(c)
  <2>1. PICK c \in Calls : Step(c)  BY <1>1
  <2>2. /\ WorksIn(Home(c)) /\ Local(c)' /\ InFlight(c) /\ (InFlight(c)' => Home(c)' = Home(c))
        /\ \A d \in Calls : d # c => calls'[d] = calls[d]
    BY <2>1, StepWorks DEF Works
  <2>3. ASSUME NEW d \in Calls, d # c
        PROVE  Local(d)' /\ (InFlight(d)' => InFlight(d) /\ Home(d)' = Home(d))
    <3>1. InFlight(d) => Home(d) # Home(c)  BY <2>2, <2>3 DEF Apart, HomesApart
    <3>2. InFlight(d)' => InFlight(d)  BY <2>2, <2>3 DEF InFlight
    <3> QED  BY <2>2, <2>3, <3>1, <3>2, LocalKept
  <2> QED  BY <2>2, <2>3 DEF Locals, HomesApart, Apart
<1>2. CASE \E c \in Calls, w \in WsNames : Request(c) /\ Enters(c, w)
  <2>1. PICK c \in Calls, w \in WsNames : Enters(c, w)  BY <1>2
  <2>2. ASSUME NEW d \in Calls, d # c
        PROVE  Local(d)' /\ (InFlight(d)' => InFlight(d) /\ Home(d)' = Home(d) /\ Home(d) # w)
    <3>1. InFlight(d)' => InFlight(d)  BY <2>1, <2>2 DEF InFlight, Enters
    <3> QED  BY <2>1, <2>2, <3>1, LocalKept DEF Enters
  <2> QED  BY <2>1, <2>2 DEF Enters, Locals, HomesApart, Apart
<1>3. CASE Others
  <2>1. WorksIn(None) /\ UNCHANGED calls  BY <1>3, OthersWork
  <2>2. ASSUME NEW d \in Calls
        PROVE  Local(d)' /\ (InFlight(d)' => InFlight(d) /\ Home(d)' = Home(d))
    <3>1. InFlight(d) => Home(d) # None  BY HomeExists, Knows
    <3>2. InFlight(d)' => InFlight(d)  BY <2>1 DEF InFlight
    <3> QED  BY <2>1, <3>1, <3>2, LocalKept
  <2> QED  BY <2>2 DEF Locals, HomesApart, Apart
<1> QED  BY <1>1, <1>2, <1>3, StepKinds

\* Agents are placed in a workspace that lists them.
Placed == AgentsHaveWorkspace /\ AgentsPlaced

\* A spawn lists the agent it registers.
LEMMA PlacedReserve ==
    ASSUME Apart, NEW c \in Calls, NEW w \in WsNames, NEW rec, ReserveAgent(c, w, rec)
    PROVE  Placed'
<1>1. PICK id \in AgentIds, port \in Ports :
          /\ agents' = [agents EXCEPT ![id] = StartingEntry(w, port)]
          /\ workspaces' = [workspaces EXCEPT ![w].agents = @ \cup {id}]
  BY DEF ReserveAgent
<1>2. agents'[id].ws = w /\ id \in workspaces'[w].agents
  BY <1>1, Knows DEF StartingEntry, Workspace
<1>3. \A i \in AgentIds : i # id => agents'[i] = agents[i]  BY <1>1, Knows
<1>4. \A v \in WsNames : workspaces[v].agents \subseteq workspaces'[v].agents
  BY <1>1, Knows DEF Workspace
<1> QED  BY <1>2, <1>3, <1>4 DEF Apart, Placed, AgentsHaveWorkspace, AgentsPlaced, Registered

\* A new workspace takes the place of none.
LEMMA PlacedCreate ==
    ASSUME Apart, NEW c \in Calls, CreateWorkspace(c)
    PROVE  Placed'
<1>1. PICK w \in WsNames, p \in projects :
        ~Exists(w) /\ workspaces' = [workspaces EXCEPT ![w] = [project |-> p, agents |-> {}]]
  BY DEF CreateWorkspace
<1>2. UNCHANGED agents  BY DEF CreateWorkspace
<1>3. workspaces[w].agents = {}  BY <1>1 DEF Exists, NoWorkspace
<1>4. \A v \in WsNames : workspaces[v].agents = workspaces'[v].agents  BY <1>1, <1>3, Knows
<1> QED  BY <1>2, <1>4 DEF Apart, Placed, AgentsHaveWorkspace, AgentsPlaced, Registered

\* A destroy takes away the agents with the list they are on.
LEMMA PlacedRemove ==
    ASSUME Apart, NEW c \in Calls, RemoveWorkspace(c)
    PROVE  Placed'
<1> DEFINE r == calls[c]
<1>1. /\ r.pc = "remove" /\ agents' = Unregistered(r.snap)
      /\ workspaces' = [workspaces EXCEPT ![r.ws] = NoWorkspace]
  BY DEF RemoveWorkspace
<1>2. DestroyLocals(r)  BY <1>1, StoppingKnows DEF StopLocals, Spawning
<1>3. \A v \in WsNames : v # r.ws => workspaces'[v] = workspaces[v]  BY <1>1, Knows
<1>4. \A i \in AgentIds :
          /\ agents'[i].ws = agents[i].ws
          /\ agents'[i].registered => agents[i].registered /\ i \notin r.snap
  BY <1>1, Knows DEF Unregistered, Agent
<1>5. \A i \in AgentIds : agents'[i].registered => agents[i].ws # r.ws
  BY <1>2, <1>4 DEF Apart, AgentsHaveWorkspace, Registered, DestroyLocals
<1> QED  BY <1>3, <1>4, <1>5 DEF Apart, Placed, AgentsHaveWorkspace, AgentsPlaced, Registered

\* No other step writes a workspace or places an agent.
LEMMA PlacedNext == Apart /\ [DisciplinedNext]_vars => Placed'
<1> SUFFICES ASSUME Apart, [DisciplinedNext]_vars PROVE Placed'  OBVIOUS
<1>1. CASE ~ \E c \in Calls : Moving(c)
  <2>1. /\ workspaces' = workspaces /\ \A i \in AgentIds : KeepsEntry(i)
    BY <1>1, Disciplined, QuietSteps DEF Apart
  <2> QED  BY <2>1 DEF Apart, Placed, AgentsHaveWorkspace, AgentsPlaced, Registered, KeepsEntry
<1>2. ASSUME NEW c \in Calls, Moving(c) PROVE Placed'
  <2>1. CASE SpawnAgent(c)  BY <2>1, PlacedReserve DEF SpawnAgent
  <2>2. CASE AutoSpawn(c)
    BY <2>2, Knows, PlacedReserve DEF AutoSpawn, LocalsSet
  <2>3. CASE CreateWorkspace(c)  BY <2>3, PlacedCreate
  <2>4. CASE RemoveWorkspace(c)  BY <2>4, PlacedRemove
  <2>5. CASE DestroyWorkspace(c)
    BY <2>5 DEF DestroyWorkspace, Apart, Placed, AgentsHaveWorkspace, AgentsPlaced, Registered
  <2> QED  BY <1>2, <2>1, <2>2, <2>3, <2>4, <2>5 DEF Moving
<1> QED  BY <1>1, <1>2

\* Processes age in every step.
LEMMA Ageing ==
    ASSUME Apart, [DisciplinedNext]_vars
    PROVE  ProcessesAge /\ server'.backend = server.backend
BY StepKinds, StepWorks, OthersWork DEF Works, Enters, WorksIn

\* The handle of an entry is that of a process that was started.
LEMMA HandlesBornNext == Apart /\ [DisciplinedNext]_vars => HandlesBorn'
<1> SUFFICES ASSUME Apart, [DisciplinedNext]_vars, NEW i \in AgentIds, agents'[i].handle # None
             PROVE  procs'[agents'[i].handle].state # "unborn"
  BY DEF HandlesBorn
<1>0. /\ Typed /\ agents \in [AgentIds -> Agent] /\ HandlesBorn /\ ProcessesAge /\ None \notin Pids
  BY Ageing, ConstantsAssumption DEF Apart, Typed, TypeOK
<1> DEFINE a == agents[i]  b == agents'[i]
<1>1. a \in Agent /\ EntryStep(a, b)  BY <1>0, Disciplined, EntrySteps
<1>2. ASSUME b.handle = a.handle PROVE procs'[b.handle].state # "unborn"
  <2>1. a.handle \in Pids /\ procs[a.handle].state # "unborn"
    BY <1>0, <1>1, <1>2 DEF HandlesBorn, Agent
  <2> QED  BY <1>0, <1>2, <2>1 DEF ProcessesAge
<1>3. CASE \E c \in Calls : calls[c].pc = "attach" /\ b = ReadyEntry(a, calls[c].proc)
  <2>1. PICK c \in Calls : calls[c].pc = "attach" /\ b = ReadyEntry(a, calls[c].proc)  BY <1>3
  <2>2. b.handle = calls[c].proc  BY <1>1, <2>1 DEF ReadyEntry, Agent
  <2>3. calls[c].proc \in Pids /\ procs[calls[c].proc].state # "unborn"
    BY <2>1, Knows, SpawningKnows, ConstantsAssumption DEF ProcessLocals, Spawning
  <2> QED  BY <1>0, <2>2, <2>3 DEF ProcessesAge
<1>4. CASE \E w \in WsNames, port \in Ports : b = StartingEntry(w, port)
  BY <1>4 DEF StartingEntry
<1>5. CASE b = StoppedEntry(a)
  BY <1>1, <1>5 DEF StoppedEntry, Agent
<1>6. CASE \/ b = a \/ \E s \in {"ERROR", "STOPPING"} : b = [a EXCEPT !.status = s]
           \/ b = [a EXCEPT !.registered = FALSE]
  <2>1. b.handle = a.handle  BY <1>1, <1>6 DEF Agent
  <2> QED  BY <1>2, <2>1
<1> QED  BY <1>1, <1>3, <1>4, <1>5, <1>6 DEF EntryStep

\* No handler is in flight when the server starts.
LEMMA ApartInit == Init => Apart
<1> SUFFICES ASSUME Init PROVE Apart  OBVIOUS
<1>1. Typed  BY TypedInit
<1>2. \A c \in Calls : calls[c].pc = "idle"  BY DEF Init, NoCall
<1>3. Membership /\ HandleMatchesStatus /\ AgentsHaveWorkspace /\ AgentsPlaced /\ HandlesBorn
  BY DEF Init, Membership, RegisteredIsBorn, SnapOfWorkspace, MembersRegistered, Registered,
     HandleMatchesStatus, AgentsHaveWorkspace, AgentsPlaced, HandlesBorn,
     NoAgent, NoWorkspace, NoCall
<1> QED  BY <1>1, <1>2, <1>3 DEF Apart, Locals, Local, HomesApart, InFlight

\* The invariant is inductive.
LEMMA ApartNext == Apart /\ [DisciplinedNext]_vars => Apart'
<1> SUFFICES ASSUME Apart, [DisciplinedNext]_vars PROVE Apart'  OBVIOUS
<1>1. [Next]_vars  BY Disciplined
<1>2. Typed' /\ Membership' /\ HandleMatchesStatus'
  BY <1>1, TypedNext, MembershipNext, HandleNext DEF Apart
<1> QED  BY <1>2, LocalsNext, PlacedNext, HandlesBornNext DEF Apart, Placed

\* The invariant of disciplined clients.
LEMMA StaysApart == DisciplinedSpec => []Apart
BY ApartInit, ApartNext, PTL DEF DisciplinedSpec

----------------------------------------------------------------------------
(* What disciplined clients may rely on                                    *)

\* DestroyWorkspace leaves no agent behind: however many handlers are at work
\* in other workspaces, every registered agent is listed by its own.
THEOREM AgentsKeepWorkspace == DisciplinedSpec => []AgentsHaveWorkspace
<1>1. Apart => AgentsHaveWorkspace  BY DEF Apart
<1> QED  BY <1>1, StaysApart, PTL

\* StopAgent answers STOPPED: between the second lock section of the stop and the
\* copy of the entry for the answer nothing starts the agent again.
THEOREM StopsReturnStopped == DisciplinedSpec => StopReturnsStopped
<1>1. ASSUME Apart, NEW c \in Calls, calls[c].pc = "reply"
      PROVE  agents[calls[c].agent].status = "STOPPED"
  BY <1>1, StoppingKnows DEF StopLocals, DestroyLocals
<1>2. Apart /\ [DisciplinedNext]_vars =>
        [\A c \in Calls : calls[c].pc = "reply" /\ calls'[c].pc = "idle"
            => agents[calls[c].agent].status = "STOPPED"]_vars
  BY <1>1
<1> QED  BY <1>2, StaysApart, PTL DEF DisciplinedSpec, StopReturnsStopped

----------------------------------------------------------------------------
(* The documented life cycle                                               *)

\* The refinement mapping: the stage of every entry ever made.
Stages == [id \in AgentIds |-> Stage(id)]

\* The agent a handler works on is not being restarted by another handler.
LEMMA OneRespawns ==
    ASSUME Apart, NEW c \in Calls, InFlight(c), NEW id \in AgentIds, agents[id].ws = Home(c),
           NEW d \in Calls, d # c
    PROVE  ~Respawns(d, id)
<1> SUFFICES ASSUME Respawns(d, id) PROVE FALSE  OBVIOUS
<1>1. InFlight(d) /\ Home(d) = agents[id].ws  BY DEF Respawns, InFlight, Home
<1> QED  BY <1>1 DEF Apart, HomesApart

\* An agent that was never registered is not being restarted.
LEMMA NobodyRespawns ==
    ASSUME Apart, NEW id \in AgentIds, agents[id].status = "UNSPECIFIED", NEW d \in Calls
    PROVE  ~Respawns(d, id)
<1> SUFFICES ASSUME Respawns(d, id) PROVE FALSE  OBVIOUS
<1>1. agents[calls[d].agent].registered
  BY SpawningKnows DEF Respawns, Spawning
<1> QED  BY <1>1, Knows DEF Respawns, Membership, RegisteredIsBorn

\* A step of one handler about one agent is a move of that agent's stage.
LEMMA StageMoves ==
    ASSUME NEW c \in Calls, NEW id \in AgentIds,
           \A d \in Calls : d # c => calls'[d] = calls[d] /\ ~Respawns(d, id),
           \A i \in AgentIds : i # id =>
              agents'[i].status = agents[i].status /\ ~Respawns(c, i) /\ ~Respawns(c, i)'
    PROVE  /\ Stages[id] = IF Respawns(c, id) THEN "STARTING" ELSE agents[id].status
           /\ Stages' = [Stages EXCEPT
                 ![id] = IF Respawns(c, id)' THEN "STARTING" ELSE agents'[id].status]
<1>1. Stages[id] = IF Respawns(c, id) THEN "STARTING" ELSE agents[id].status
  BY DEF Stages, Stage
<1>2. \A d \in Calls : d # c => \A i \in AgentIds : Respawns(d, i)' <=> Respawns(d, i)
  BY DEF Respawns
<1>3. Stage(id)' = IF Respawns(c, id)' THEN "STARTING" ELSE agents'[id].status
  BY <1>2 DEF Stage
<1>4. ASSUME NEW i \in AgentIds, i # id PROVE Stage(i)' = Stage(i)
  <2>1. (\E d \in Calls : Respawns(d, i)') <=> (\E d \in Calls : Respawns(d, i))
    BY <1>2, <1>4
  <2> QED  BY <1>4, <2>1 DEF Stage
<1> QED  BY <1>1, <1>3, <1>4 DEF Stages

\* A step that writes no status and neither begins nor ends a restart moves no stage.
LEMMA StagesStay ==
    ASSUME NEW c \in Calls,
           \A d \in Calls : d # c => calls'[d] = calls[d],
           \A i \in AgentIds : /\ agents'[i].status = agents[i].status
                               /\ Respawns(c, i)' <=> Respawns(c, i)
    PROVE  Stages' = Stages
<1>1. ASSUME NEW i \in AgentIds PROVE Stage(i)' = Stage(i)
  <2>1. \A d \in Calls : Respawns(d, i)' <=> Respawns(d, i)  BY DEF Respawns
  <2> QED  BY <2>1 DEF Stage
<1> QED  BY <1>1 DEF Stages

\* Requests and steps of a handler that write no status and start no process again.
Resting(c) ==
    \/ CreateWorkspace(c) \/ StopAgent(c) \/ RestartAgent(c) \/ DestroyWorkspace(c)
    \/ AutoSpawnRejected(c) \/ ExecStart(c) \/ MockStart(c) \/ StartFails(c)
    \/ HealthCheckPasses(c) \/ HealthCheckFails(c) \/ StopSkips(c) \/ HandleStops(c)
    \/ StopReturns(c) \/ ReallocFails(c) \/ RemoveWorkspace(c)

\* They leave the stages as they are.
LEMMA RestingSteps ==
    ASSUME Apart, NEW c \in Calls, Resting(c)
    PROVE  Stages' = Stages
<1> DEFINE r == calls[c]
<1>0. agents \in [AgentIds -> Agent] /\ calls \in [Calls -> Call]  BY Knows
<1>1. \A d \in Calls : d # c => calls'[d] = calls[d]
  <2>1. CASE CreateWorkspace(c) \/ StopAgent(c) \/ RestartAgent(c) \/ DestroyWorkspace(c)
    BY <1>0, <2>1 DEF CreateWorkspace, StopAgent, RestartAgent, DestroyWorkspace
  <2>2. CASE AutoSpawnRejected(c) \/ StopReturns(c) \/ ReallocFails(c) \/ RemoveWorkspace(c)
    BY <1>0, <2>2 DEF AutoSpawnRejected, StopReturns, ReallocFails, RemoveWorkspace, Return
  <2>3. CASE StopSkips(c) \/ HandleStops(c)
    BY <1>0, <2>3 DEF StopSkips, HandleStops, Goto
  <2>4. CASE ExecStart(c) \/ MockStart(c)
    BY <1>0, <2>4 DEF ExecStart, MockStart
  <2>5. CASE StartFails(c) \/ HealthCheckPasses(c) \/ HealthCheckFails(c)
    BY <1>0, <2>5 DEF StartFails, HealthCheckPasses, HealthCheckFails, Goto
  <2> QED  BY <2>1, <2>2, <2>3, <2>4, <2>5 DEF Resting
<1>2. \A i \in AgentIds : agents'[i].status = agents[i].status
  <2>1. CASE RemoveWorkspace(c)
    BY <1>0, <2>1 DEF RemoveWorkspace, Unregistered, Agent
  <2>2. CASE UNCHANGED agents  BY <2>2
  <2> QED  BY <2>1, <2>2
    DEF Resting, CreateWorkspace, StopAgent, RestartAgent, DestroyWorkspace, AutoSpawnRejected,
        ExecStart, MockStart, StartFails, HealthCheckPasses, HealthCheckFails, StopSkips,
        HandleStops, StopReturns, ReallocFails
<1>3. \A i \in AgentIds : Respawns(c, i)' <=> Respawns(c, i)
  <2>1. CASE CreateWorkspace(c) \/ StopAgent(c) \/ RestartAgent(c) \/ DestroyWorkspace(c)
    <3>1. r.pc = "idle" /\ calls'[c].pc \in {"idle", "reserve", "stop", "remove"}
      <4>1. CASE CreateWorkspace(c)  BY <1>0, <4>1 DEF CreateWorkspace, Accepting, NoCall
      <4>2. CASE StopAgent(c)  BY <1>0, <4>2 DEF StopAgent, Accepting, NoCall
      <4>3. CASE RestartAgent(c)  BY <1>0, <4>3 DEF RestartAgent, Accepting, NoCall
      <4>4. CASE DestroyWorkspace(c)  BY <1>0, <4>4 DEF DestroyWorkspace, Accepting, NoCall
      <4> QED  BY <2>1, <4>1, <4>2, <4>3, <4>4
    <3> QED  BY <3>1 DEF Respawns
  <2>2. CASE AutoSpawnRejected(c) \/ StopReturns(c) \/ ReallocFails(c) \/ RemoveWorkspace(c)
    <3>1. r.pc \in {"reserve", "reply", "realloc", "remove"} /\ calls'[c].pc = "idle"
      BY <1>0, <2>2 DEF AutoSpawnRejected, StopReturns, ReallocFails, RemoveWorkspace, Return, NoCall
    <3> QED  BY <3>1 DEF Respawns
  <2>3. CASE StopSkips(c) \/ HandleStops(c)
    <3>1. /\ r.pc \in {"stop", "term"}
          /\ calls'[c].pc \in {"stop", "stopped", "reply", "realloc", "remove"}
      <4>1. CASE StopSkips(c)  BY <1>0, <4>1 DEF StopSkips, AfterStop, Call
      <4>2. CASE HandleStops(c)  BY <1>0, <4>2 DEF HandleStops, Goto, Call
      <4> QED  BY <2>3, <4>1, <4>2
    <3> QED  BY <3>1 DEF Respawns
  <2>4. CASE ExecStart(c) \/ MockStart(c)
    <3>1. /\ r.pc = "start" /\ calls'[c].pc \in {"poll", "attach"}
          /\ calls'[c].op = r.op /\ calls'[c].agent = r.agent
      <4>1. r.pc = "start"  BY <2>4 DEF ExecStart, MockStart
      <4>2. PICK q \in Pids, pc \in {"poll", "attach"} :
                calls' = [calls EXCEPT ![c].pc = pc, ![c].proc = q]
        BY <2>4 DEF ExecStart, MockStart
      <4>3. calls'[c] = [r EXCEPT !.pc = pc, !.proc = q]  BY <1>0, <4>2
      <4>4. r \in Call  BY <1>0
      <4> QED  BY <4>1, <4>3, <4>4 DEF Call
    <3> QED  BY <3>1 DEF Respawns
  <2>5. CASE StartFails(c) \/ HealthCheckPasses(c) \/ HealthCheckFails(c)
    <3>1. /\ r.pc \in {"start", "poll"} /\ calls'[c].pc \in {"fail", "attach"}
          /\ calls'[c].op = r.op /\ calls'[c].agent = r.agent
      BY <1>0, <2>5 DEF StartFails, HealthCheckPasses, HealthCheckFails, Goto, Call
    <3> QED  BY <3>1 DEF Respawns
  <2> QED  BY <2>1, <2>2, <2>3, <2>4, <2>5 DEF Resting
<1> QED  BY <1>1, <1>2, <1>3, StagesStay

\* A new entry's process is about to start.
LEMMA ReserveMoves ==
    ASSUME Apart, NEW c \in Calls, NEW w \in WsNames, NEW rec, rec.op # "restart",
           rec \in Call, ReserveAgent(c, w, rec), ~\E i \in AgentIds : Respawns(c, i)
    PROVE  Life!Next
<1>0. agents \in [AgentIds -> Agent] /\ calls \in [Calls -> Call]  BY Knows
<1>1. PICK i \in AgentIds, port \in Ports :
          /\ NextId(i) /\ agents' = [agents EXCEPT ![i] = StartingEntry(w, port)]
          /\ calls' = [calls EXCEPT ![c] = [rec EXCEPT !.pc = "start", !.agent = i, !.port = port]]
  BY DEF ReserveAgent
<1>2. /\ \A d \in Calls : d # c => calls'[d] = calls[d]
      /\ calls'[c].op # "restart" /\ agents'[i].status = "STARTING"
      /\ \A j \in AgentIds : j # i => agents'[j] = agents[j]
  BY <1>0, <1>1 DEF StartingEntry, Call
<1>3. agents[i].status = "UNSPECIFIED"  BY <1>1 DEF NextId
<1>4. \A j \in AgentIds : ~Respawns(c, j) /\ ~Respawns(c, j)'
  BY <1>2 DEF Respawns
<1>5. Stages[i] = "UNSPECIFIED" /\ Stages' = [Stages EXCEPT ![i] = "STARTING"]
  BY <1>2, <1>3, <1>4, NobodyRespawns, StageMoves
<1>6. Life!Spawn(i)  BY <1>5 DEF Life!Spawn, Life!Move, Stages
<1> QED  BY <1>6 DEF Life!Next

\* A restart is about to start the process of the agent it has stopped.
LEMMA ReallocMoves ==
    ASSUME Apart, NEW c \in Calls, ReallocPort(c)
    PROVE  Life!Next
<1> DEFINE r == calls[c]
<1>0. agents \in [AgentIds -> Agent] /\ calls \in [Calls -> Call]  BY Knows
<1>1. PICK id : id = r.agent  OBVIOUS
<1>2. /\ r.pc = "realloc" /\ agents' = agents
      /\ calls'[c].pc = "start" /\ calls'[c].op = r.op /\ calls'[c].agent = id
      /\ \A d \in Calls : d # c => calls'[d] = calls[d]
  BY <1>0, <1>1 DEF ReallocPort, Call
<1>3. InFlight(c) /\ StopLocals(r)  BY <1>2, StoppingKnows DEF DestroyLocals
<1>4. /\ id \in AgentIds /\ agents[id].ws = Home(c) /\ agents[id].status = "STOPPED"
      /\ r.op = "restart"
  BY <1>1, <1>2, <1>3 DEF StopLocals, Home
<1>5. \A j \in AgentIds : ~Respawns(c, j) /\ (Respawns(c, j)' <=> j = id)
  BY <1>2, <1>4 DEF Respawns
<1>6. Stages[id] = "STOPPED" /\ Stages' = [Stages EXCEPT ![id] = "STARTING"]
  BY <1>2, <1>3, <1>4, <1>5, OneRespawns, StageMoves
<1>7. Life!Spawn(id)  BY <1>4, <1>6 DEF Life!Spawn, Life!Move, Stages
<1> QED  BY <1>4, <1>7 DEF Life!Next

\* A spawn or a restart ends: the process that was starting is up, or it is not.
LEMMA EndMoves ==
    ASSUME Apart, NEW c \in Calls,
           AttachSpawned(c) \/ AttachRestarted(c) \/ SpawnFailed(c) \/ RestartFailed(c)
    PROVE  Life!Next
<1> DEFINE r == calls[c]
<1>0. agents \in [AgentIds -> Agent] /\ calls \in [Calls -> Call]  BY Knows
<1>1. PICK id : id = r.agent  OBVIOUS
<1>2. r.pc \in {"attach", "fail"}
  BY DEF AttachSpawned, AttachRestarted, SpawnFailed, RestartFailed
<1>3. /\ InFlight(c) /\ id \in AgentIds /\ agents[id].registered /\ agents[id].ws = Home(c)
      /\ agents[id].status = IF r.op = "restart" THEN "STOPPED" ELSE "STARTING"
  BY <1>1, <1>2, SpawningKnows DEF Spawning
<1>4. /\ \A d \in Calls : d # c => calls'[d] = calls[d]
      /\ calls'[c].pc \in {"idle", "reserve"}
  <2>1. CASE AttachSpawned(c)
    BY <1>0, <2>1 DEF AttachSpawned, NextAuto, NoCall, Call
  <2>2. CASE AttachRestarted(c) \/ SpawnFailed(c) \/ RestartFailed(c)
    BY <1>0, <2>2 DEF AttachRestarted, SpawnFailed, RestartFailed, Return, NoCall
  <2> QED  BY <2>1, <2>2
<1>5. /\ \A j \in AgentIds : j # id => agents'[j] = agents[j]
      /\ agents'[id].status = IF r.pc = "attach" THEN "READY" ELSE "ERROR"
  <2>1. CASE AttachSpawned(c) \/ AttachRestarted(c)
    <3>1. r.pc = "attach" /\ agents' = [agents EXCEPT ![id] = ReadyEntry(@, r.proc)]
      BY <1>1, <2>1 DEF AttachSpawned, AttachRestarted
    <3>2. agents'[id] = ReadyEntry(agents[id], r.proc)  BY <1>0, <1>3, <3>1
    <3>3. ReadyEntry(agents[id], r.proc).status = "READY"
      BY <1>0, <1>3 DEF ReadyEntry, Agent
    <3> QED  BY <1>0, <3>1, <3>2, <3>3
  <2>2. CASE SpawnFailed(c) \/ RestartFailed(c)
    <3>1. r.pc = "fail" /\ agents' = [agents EXCEPT ![id].status = "ERROR"]
      BY <1>1, <1>3, <2>2 DEF SpawnFailed, RestartFailed
    <3> QED  BY <1>0, <1>3, <3>1 DEF Agent
  <2> QED  BY <2>1, <2>2
<1>6. \A j \in AgentIds : ~Respawns(c, j)' /\ (Respawns(c, j) => j = id)
  BY <1>1, <1>4 DEF Respawns
<1>7. Respawns(c, id) <=> r.op = "restart"  BY <1>1, <1>2 DEF Respawns
<1>8. /\ Stages[id] = "STARTING"
      /\ Stages' = [Stages EXCEPT ![id] = IF r.pc = "attach" THEN "READY" ELSE "ERROR"]
  BY <1>3, <1>4, <1>5, <1>6, <1>7, OneRespawns, StageMoves
<1>9. Life!Healthy(id) \/ Life!Unhealthy(id)
  BY <1>2, <1>3, <1>8 DEF Life!Healthy, Life!Unhealthy, Life!Move, Stages
<1> QED  BY <1>3, <1>9 DEF Life!Next

\* The two halves of a stop.
LEMMA StopMoves ==
    ASSUME Apart, NEW c \in Calls, StopBegins(c) \/ StopEnds(c)
    PROVE  Life!Next \/ Stages' = Stages
<1> DEFINE r == calls[c]
<1>0. agents \in [AgentIds -> Agent] /\ calls \in [Calls -> Call]  BY Knows
<1>1. CASE StopBegins(c)
  <2>0. PICK i \in r.todo :
            /\ agents' = [agents EXCEPT ![i].status = "STOPPING"]
            /\ calls' = [calls EXCEPT ![c] =
                  [@ EXCEPT !.pc = "term", !.agent = i, !.proc = agents[i].handle,
                            !.todo = r.todo \ {i}]]
    BY <1>1 DEF StopBegins
  <2>1. /\ \A d \in Calls : d # c => calls'[d] = calls[d]
        /\ r.pc = "stop" /\ calls'[c].pc = "term"
    <3>1. r.pc = "stop"  BY <1>1 DEF StopBegins
    <3>2. calls'[c] = [r EXCEPT !.pc = "term", !.agent = i, !.proc = agents[i].handle,
                                !.todo = r.todo \ {i}]
      BY <1>0, <2>0
    <3>3. r \in Call  BY <1>0
    <3>4. calls'[c].pc = "term"  BY <3>2, <3>3 DEF Call
    <3> QED  BY <1>0, <2>0, <3>1, <3>4
  <2>2. InFlight(c) /\ i \in AgentIds /\ agents[i].registered /\ agents[i].ws = Home(c)
    BY <2>1, StoppingKnows
  <2>3. agents[i].status \in Status \ {"UNSPECIFIED"}
    BY <1>0, <2>2, Knows DEF Membership, RegisteredIsBorn, Agent
  <2>4. agents'[i].status = "STOPPING" /\ \A j \in AgentIds : j # i => agents'[j] = agents[j]
    BY <1>0, <2>0, <2>2 DEF Agent
  <2>5. \A j \in AgentIds : ~Respawns(c, j) /\ ~Respawns(c, j)'  BY <2>1 DEF Respawns
  <2>6. Stages[i] = agents[i].status /\ Stages' = [Stages EXCEPT ![i] = "STOPPING"]
    BY <2>1, <2>2, <2>4, <2>5, OneRespawns, StageMoves
  <2>7. CASE agents[i].status = "STOPPING"
    BY <2>2, <2>6, <2>7 DEF Stages
  <2>8. CASE agents[i].status # "STOPPING"
    <3>1. Life!Terminate(i)
      BY <2>2, <2>3, <2>6, <2>8 DEF Life!Terminate, Life!Move, Stages, Status
    <3> QED  BY <2>2, <3>1 DEF Life!Next
  <2> QED  BY <2>7, <2>8
<1>2. CASE StopEnds(c)
  <2>0. PICK id : id = r.agent  OBVIOUS
  <2>1. r.pc = "stopped" /\ agents' = [agents EXCEPT ![id] = StoppedEntry(agents[id])]
    BY <1>2, <2>0 DEF StopEnds
  <2>2. id \in AgentIds /\ InFlight(c) /\ agents[id].ws = Home(c) /\ agents[id].status = "STOPPING"
    <3>1. CASE StopLocals(r)
      <4>1. id \in AgentIds /\ id # None  BY <2>0, <3>1, Knows DEF StopLocals
      <4> QED  BY <2>0, <2>1, <4>1, StoppingKnows DEF ProcessLocals
    <3>2. CASE DestroyLocals(r)
      <4>1. id \in r.snap  BY <2>0, <2>1, <3>2 DEF DestroyLocals
      <4> QED  BY <2>0, <2>1, <4>1, StoppingKnows DEF ProcessLocals
    <3> QED  BY <2>1, <3>1, <3>2, StoppingKnows
  <2>3. /\ \A d \in Calls : d # c => calls'[d] = calls[d]
        /\ calls'[c].pc \in {"stop", "reply", "realloc", "remove"}
    BY <1>0, <1>2 DEF StopEnds, AfterStop, Call
  <2>4. agents'[id].status = "STOPPED" /\ \A j \in AgentIds : j # id => agents'[j] = agents[j]
    BY <1>0, <2>1, <2>2 DEF StoppedEntry, Agent
  <2>5. \A j \in AgentIds : ~Respawns(c, j) /\ ~Respawns(c, j)'
    BY <2>1, <2>3 DEF Respawns
  <2>6. Stages[id] = "STOPPING" /\ Stages' = [Stages EXCEPT ![id] = "STOPPED"]
    BY <2>2, <2>3, <2>4, <2>5, OneRespawns, StageMoves
  <2>7. Life!Exited(id)  BY <2>2, <2>6 DEF Life!Exited, Life!Move, Stages
  <2> QED  BY <2>2, <2>7 DEF Life!Next
<1> QED  BY <1>1, <1>2

\* Every step of a handler is an arrow of the machine, or none.
LEMMA StageSteps ==
    ASSUME Apart, NEW c \in Calls, Request(c) \/ Step(c)
    PROVE  Life!Next \/ Stages' = Stages
<1>1. CASE SpawnAgent(c)
  <2>1. PICK w \in WsNames : ReserveAgent(c, w, [NoCall EXCEPT !.op = "spawn", !.ws = w])
    BY <1>1 DEF SpawnAgent
  <2>2. PICK rec : rec = [NoCall EXCEPT !.op = "spawn", !.ws = w]  OBVIOUS
  <2>3. rec.op # "restart"  BY <2>2 DEF NoCall
  <2>4. ~\E i \in AgentIds : Respawns(c, i)  BY <1>1 DEF SpawnAgent, Accepting, Respawns
  <2>5. rec \in Call  BY <2>2, NullRecords, ConstantsAssumption DEF Call, AllOps, NoCall
  <2> QED  BY <2>1, <2>2, <2>3, <2>4, <2>5, ReserveMoves
<1>2. CASE AutoSpawn(c)
  <2>1. calls[c].pc = "reserve" /\ ReserveAgent(c, calls[c].ws, calls[c])  BY <1>2 DEF AutoSpawn
  <2>2. SpawnLocals(calls[c])
    BY <2>1, Knows DEF Local, InFlight, StopLocals, DestroyLocals, Spawning
  <2>3. calls[c].op # "restart" /\ calls[c].ws \in WsNames  BY <2>2 DEF SpawnLocals
  <2>4. ~\E i \in AgentIds : Respawns(c, i)  BY <2>1 DEF Respawns
  <2> QED  BY <2>1, <2>3, <2>4, Knows, ReserveMoves
<1>3. CASE ReallocPort(c)  BY <1>3, ReallocMoves
<1>4. CASE AttachSpawned(c) \/ AttachRestarted(c) \/ SpawnFailed(c) \/ RestartFailed(c)
  BY <1>4, EndMoves
<1>5. CASE StopBegins(c) \/ StopEnds(c)  BY <1>5, StopMoves
<1>6. CASE Resting(c)  BY <1>6, RestingSteps
<1> QED  BY <1>1, <1>2, <1>3, <1>4, <1>5, <1>6 DEF Request, Step, Resting

\* The server implements the documented life of an agent's process: every step
\* takes one agent along an arrow of the machine or leaves all where they are.
\* What a restart never shows as a status, STARTING, counts as a stage (agent.go:318-352).
THEOREM ImplementsLifecycle == DisciplinedSpec => ProcessLifecycle
<1>1. Init => Life!Init
  BY DEF Init, Life!Init, NoAgent, NoCall, Stage, Respawns
<1>2. Apart /\ [DisciplinedNext]_vars => [Life!Next]_(Stages)
  <2> SUFFICES ASSUME Apart, [DisciplinedNext]_vars
               PROVE  Life!Next \/ Stages' = Stages
    OBVIOUS
  <2>1. CASE Others
    <3>1. UNCHANGED <<agents, calls>>  BY <2>1, OthersWork
    <3> QED  BY <3>1 DEF Stages, Stage, Respawns
  <2> QED  BY <2>1, StepKinds, StageSteps
<1> QED  BY <1>1, <1>2, StaysApart, PTL DEF DisciplinedSpec, ProcessLifecycle, Life!Spec, Stages

----------------------------------------------------------------------------
(* No process is lost                                                      *)

\* An entry or a handler that can reach the process.
Held(q) ==
    \/ \E id \in AgentIds : Registered(id) /\ agents[id].handle = q
    \/ \E c \in Calls : InFlight(c) /\ calls[c].proc = q

\* The steps that write no entry.
EntriesLeft(c) ==
    \/ CreateWorkspace(c) \/ StopAgent(c) \/ RestartAgent(c) \/ DestroyWorkspace(c)
    \/ AutoSpawnRejected(c) \/ ExecStart(c) \/ MockStart(c) \/ StartFails(c)
    \/ HealthCheckPasses(c) \/ HealthCheckFails(c) \/ StopSkips(c) \/ HandleStops(c)
    \/ StopReturns(c) \/ ReallocPort(c) \/ ReallocFails(c)

\* They write none.
LEMMA EntriesSame == ASSUME NEW c, EntriesLeft(c) PROVE UNCHANGED agents
BY DEF EntriesLeft, CreateWorkspace, StopAgent, RestartAgent, DestroyWorkspace,
   AutoSpawnRejected, ExecStart, MockStart, StartFails, HealthCheckPasses,
   HealthCheckFails, StopSkips, HandleStops, StopReturns, ReallocPort, ReallocFails

\* What the second lock section of a stop knows of the entry it writes.
LEMMA StopEndsKnows ==
    ASSUME Apart, NEW c \in Calls, calls[c].pc \in {"term", "stopped"}
    PROVE  LET r == calls[c] IN
           /\ r.agent \in AgentIds /\ agents[r.agent].registered
           /\ agents[r.agent].status = "STOPPING" /\ agents[r.agent].handle = r.proc
           /\ r.pc = "stopped" /\ r.proc # None => ~Running(r.proc)
<1> DEFINE r == calls[c]
<1>1. /\ InFlight(c) /\ ProcessLocals(r) /\ (StopLocals(r) \/ DestroyLocals(r))
      /\ \A id \in r.snap : id \in AgentIds /\ agents[id].registered
  BY StoppingKnows
<1>2. r.agent \in AgentIds /\ agents[r.agent].registered
  <2>1. CASE StopLocals(r)  BY <2>1 DEF StopLocals
  <2>2. CASE DestroyLocals(r)  BY <1>1, <2>2 DEF DestroyLocals
  <2> QED  BY <1>1, <2>1, <2>2
<1> QED  BY <1>1, <1>2 DEF ProcessLocals

\* The last lock section of a destroy takes stopped agents off the registry only.
LEMMA RemovedAreStopped ==
    ASSUME Apart, NEW c \in Calls, RemoveWorkspace(c), NEW id \in calls[c].snap
    PROVE  id \in AgentIds /\ agents[id].status = "STOPPED"
<1>1. calls[c].pc = "remove"  BY DEF RemoveWorkspace
<1>2. DestroyLocals(calls[c])  BY <1>1, StoppingKnows DEF StopLocals, Spawning
<1> QED  BY <1>1, <1>2, StoppingKnows DEF DestroyLocals

\* A registered entry loses its handle to a process that has died, and is not
\* given another's over it.
LEMMA EntriesKeepProcesses ==
    ASSUME Apart, NEW c \in Calls, Request(c) \/ Step(c), NEW id \in AgentIds,
           NEW q \in Pids, agents[id].registered, agents[id].handle = q, Running(q)'
    PROVE  agents'[id].registered /\ agents'[id].handle = q
<1> DEFINE r == calls[c]
<1>0. agents \in [AgentIds -> Agent] /\ RegisteredIsBorn /\ HandleMatchesStatus /\ q # None
  BY Knows DEF Membership, Apart
<1>1. ASSUME NEW w \in WsNames, NEW rec, ReserveAgent(c, w, rec)
      PROVE  agents'[id] = agents[id]
  <2>1. PICK i \in AgentIds, port \in Ports :
            NextId(i) /\ agents' = [agents EXCEPT ![i] = StartingEntry(w, port)]
    BY <1>1 DEF ReserveAgent
  <2>2. i # id  BY <1>0, <2>1 DEF NextId, RegisteredIsBorn
  <2> QED  BY <1>0, <2>1, <2>2
<1>2. CASE SpawnAgent(c) \/ AutoSpawn(c)
  BY <1>1, <1>2, Knows DEF SpawnAgent, AutoSpawn, LocalsSet
<1>3. CASE AttachSpawned(c) \/ AttachRestarted(c)
  <2>1. r.pc \in Spawning  BY <1>3 DEF AttachSpawned, AttachRestarted, Spawning
  <2>2. r.agent # id  BY <1>0, <2>1, SpawningKnows
  <2> QED  BY <1>0, <1>3, <2>2 DEF AttachSpawned, AttachRestarted
<1>4. CASE SpawnFailed(c) \/ RestartFailed(c)
  <2>1. agents' = agents \/ agents' = [agents EXCEPT ![r.agent].status = "ERROR"]
    BY <1>4 DEF SpawnFailed, RestartFailed
  <2> QED  BY <1>0, <2>1 DEF Agent
<1>5. CASE StopBegins(c)
  <2>1. \E i \in r.todo : agents' = [agents EXCEPT ![i].status = "STOPPING"]
    BY <1>5 DEF StopBegins
  <2> QED  BY <1>0, <2>1 DEF Agent
<1>6. CASE StopEnds(c)
  <2>1. /\ r.pc = "stopped" /\ agents' = [agents EXCEPT ![r.agent] = StoppedEntry(@)]
        /\ UNCHANGED procs
    BY <1>6 DEF StopEnds
  <2>2. agents[r.agent].handle = r.proc /\ (r.proc # None => ~Running(r.proc))
    BY <2>1, StopEndsKnows
  <2>3. ~Running(r.proc) \/ r.proc = None  BY <2>2
  <2>4. Running(q)  BY <2>1 DEF Running
  <2>5. r.agent # id  BY <1>0, <2>2, <2>3, <2>4
  <2> QED  BY <1>0, <2>1, <2>5
<1>7. CASE RemoveWorkspace(c)
  <2>1. id \notin r.snap  BY <1>0, <1>7, RemovedAreStopped DEF HandleMatchesStatus
  <2> QED  BY <1>0, <1>7, <2>1 DEF RemoveWorkspace, Unregistered
<1>8. CASE EntriesLeft(c)  BY <1>8, EntriesSame
<1> QED  BY <1>2, <1>3, <1>4, <1>5, <1>6, <1>7, <1>8 DEF Request, Step, EntriesLeft

\* A handler lets go of a process when it has died or has become an entry's.
LEMMA HandlersKeepProcesses ==
    ASSUME Apart, NEW c \in Calls, Step(c), NEW q \in Pids, calls[c].proc = q, Running(q)'
    PROVE  Held(q)'
<1> DEFINE r == calls[c]
<1>0. r.proc = q /\ q # None  BY Knows
<1>1. InFlight(c) /\ ProcessLocals(r)
  <2>1. InFlight(c)  BY StepWorks
  <2> QED  BY <2>1, Knows DEF Local
<1>2. r.pc \in {"poll", "attach", "fail", "term", "stopped"}  BY <1>0, <1>1 DEF ProcessLocals
<1>3. CASE HealthCheckPasses(c) \/ HealthCheckFails(c) \/ HandleStops(c)
  <2>1. \E pc \in {"attach", "fail", "stopped"} : Goto(c, pc)
    BY <1>3 DEF HealthCheckPasses, HealthCheckFails, HandleStops
  <2>2. calls'[c].proc = q /\ calls'[c].pc # "idle"  BY <1>0, <2>1, Knows, Moved
  <2> QED  BY <1>0, <2>2 DEF Held, InFlight
<1>4. CASE AttachSpawned(c) \/ AttachRestarted(c)
  <2>0. PICK id : id = r.agent  OBVIOUS
  <2>1. r.pc \in Spawning  BY <1>4 DEF AttachSpawned, AttachRestarted, Spawning
  <2>2. id \in AgentIds /\ agents[id].registered  BY <2>0, <2>1, SpawningKnows
  <2>3. agents' = [agents EXCEPT ![id] = ReadyEntry(@, q)]
    BY <1>0, <1>4, <2>0 DEF AttachSpawned, AttachRestarted
  <2>4. agents'[id].registered /\ agents'[id].handle = q
    BY <2>2, <2>3, Knows DEF ReadyEntry, Agent
  <2> QED  BY <1>0, <2>2, <2>4 DEF Held, Registered
<1>5. CASE SpawnFailed(c) \/ RestartFailed(c) \/ StopEnds(c)
  <2>1. r.pc \in {"fail", "stopped"} /\ UNCHANGED procs
    BY <1>5 DEF SpawnFailed, RestartFailed, StopEnds
  <2>2. ~Running(q)  BY <1>0, <1>1, <2>1 DEF ProcessLocals
  <2> QED  BY <1>0, <2>1, <2>2 DEF Running
<1> QED
  BY <1>2, <1>3, <1>4, <1>5
  DEF Step, AutoSpawn, AutoSpawnRejected, ExecStart, MockStart, StartFails,
      StopBegins, StopSkips, StopReturns, ReallocPort, ReallocFails, RemoveWorkspace

\* Terminating a process starts none.
LEMMA NoneRevives ==
    ASSUME procs \in [Pids -> Process], NEW q \in Pids, UNCHANGED procs \/ \E p : Terminate(p)
    PROVE  Running(q)' => Running(q)
<1>1. ASSUME NEW p, Terminate(p) PROVE procs'[q].state \in {procs[q].state, "dead"}
  <2>1. CASE p = q  BY <1>1, <2>1 DEF Terminate, Process
  <2>2. CASE p # q  BY <1>1, <2>2 DEF Terminate
  <2> QED  BY <2>1, <2>2
<1> QED  BY <1>1 DEF Running

\* The process a handler starts is the handler's.
LEMMA NewProcessHeld ==
    ASSUME Apart, NEW c \in Calls, Request(c) \/ Step(c), NEW q \in Pids,
           ~Running(q), Running(q)'
    PROVE  Held(q)'
<1>1. CASE ExecStart(c) \/ MockStart(c)
  <2>1. PICK p \in Pids, pc \in {"poll", "attach"} :
            /\ \A other \in Pids \ {p} : procs'[other] = procs[other]
            /\ calls' = [calls EXCEPT ![c].pc = pc, ![c].proc = p]
    <3>1. CASE ExecStart(c)
      <4>1. PICK p \in Pids : /\ Spawned(c, p, calls[c].port, ~Bound(calls[c].port))
                              /\ calls' = [calls EXCEPT ![c].pc = "poll", ![c].proc = p]
        BY <3>1 DEF ExecStart
      <4> QED  BY <4>1, Knows DEF Spawned
    <3>2. CASE MockStart(c)
      <4>1. PICK p \in Pids, port \in Ports :
                /\ Spawned(c, p, port, TRUE)
                /\ calls' = [calls EXCEPT ![c].pc = "attach", ![c].proc = p]
        BY <3>2 DEF MockStart
      <4> QED  BY <4>1, Knows DEF Spawned
    <3> QED  BY <1>1, <3>1, <3>2
  <2>2. p = q  BY <2>1 DEF Running
  <2>3. calls'[c].pc # "idle" /\ calls'[c].proc = q  BY <2>1, <2>2, Knows DEF Call
  <2> QED  BY <2>3 DEF Held, InFlight
<1>2. CASE ~(ExecStart(c) \/ MockStart(c))
  <2>1. UNCHANGED procs \/ \E p : Terminate(p)
    BY <1>2 DEF Request, Step, SpawnAgent, ReserveAgent, CreateWorkspace, StopAgent,
       RestartAgent, DestroyWorkspace, AutoSpawn, AutoSpawnRejected, AttachSpawned,
       SpawnFailed, StartFails, HealthCheckPasses, HealthCheckFails, StopBegins, StopSkips,
       HandleStops, StopEnds, StopReturns, ReallocPort, ReallocFails, AttachRestarted,
       RestartFailed, RemoveWorkspace
  <2> QED  BY <2>1, Knows, NoneRevives
<1> QED  BY <1>1, <1>2

\* Whoever holds a process goes on holding it, or hands it over, while it runs.
LEMMA HeldNext == Apart /\ NoLostProcess /\ [DisciplinedNext]_vars => NoLostProcess'
<1> SUFFICES ASSUME Apart, NoLostProcess, [DisciplinedNext]_vars, NEW q \in Pids, Running(q)'
             PROVE  Held(q)'
  BY DEF NoLostProcess, Held
<1>0. Running(q) => Held(q)  BY DEF NoLostProcess, Held
<1>1. ASSUME NEW c \in Calls, Request(c) \/ Step(c),
             \A d \in Calls : d # c => calls'[d] = calls[d],
             Request(c) => ~InFlight(c)
      PROVE  Held(q)'
  <2>1. CASE ~Running(q)  BY <1>1, <2>1, NewProcessHeld
  <2>2. ASSUME NEW id \in AgentIds, Registered(id), agents[id].handle = q
        PROVE  Held(q)'
    <3>2. agents'[id].registered /\ agents'[id].handle = q
      BY <1>1, <2>2, EntriesKeepProcesses DEF Registered
    <3> QED  BY <3>2 DEF Held, Registered
  <2>3. ASSUME NEW d \in Calls, InFlight(d), calls[d].proc = q
        PROVE  Held(q)'
    <3>1. CASE d # c  BY <1>1, <2>3, <3>1 DEF Held, InFlight
    <3>2. CASE d = c
      <4>1. Step(c) /\ calls[c].proc = q /\ q # None  BY <1>1, <2>3, <3>2, Knows
      <4> QED  BY <4>1, HandlersKeepProcesses
    <3> QED  BY <3>1, <3>2
  <2> QED  BY <1>0, <2>1, <2>2, <2>3 DEF Held
<1>2. CASE \E c \in Calls : Step(c)
  <2>1. PICK c \in Calls : Step(c)  BY <1>2
  <2>2. InFlight(c) /\ \A d \in Calls : d # c => calls'[d] = calls[d]  BY <2>1, StepWorks
  <2>3. ~Request(c)
    BY <2>2 DEF Request, SpawnAgent, CreateWorkspace, StopAgent, RestartAgent,
       DestroyWorkspace, Accepting, InFlight
  <2> QED  BY <1>1, <2>1, <2>2, <2>3
<1>3. CASE \E c \in Calls, w \in WsNames : Request(c) /\ Enters(c, w)
  <2>1. PICK c \in Calls, w \in WsNames : Request(c) /\ Enters(c, w)  BY <1>3
  <2>2. /\ \A d \in Calls : d # c => calls'[d] = calls[d]
        /\ ~InFlight(c)
    BY <2>1 DEF Enters, Request, SpawnAgent, CreateWorkspace, StopAgent, RestartAgent,
       DestroyWorkspace, Accepting, InFlight
  <2> QED  BY <1>1, <2>1, <2>2
<1>4. CASE Others
  <2>1. UNCHANGED <<agents, calls>> /\ Running(q)
    <3>1. UNCHANGED <<agents, calls>>  BY <1>4, OthersWork
    <3>2. UNCHANGED procs \/ \E p : Terminate(p)
      BY <1>4 DEF Others, RegisterProject, UnregisterProject, ProcessExits, Shutdown, ServerStop,
         StopDoomed, GracefulStop, ServerExits, CloseStream, vars
    <3>3. Running(q)  BY <3>2, Knows DEF Terminate, Running, Process, Apart, Typed, TypeOK
    <3> QED  BY <3>1, <3>3
  <2> QED  BY <1>0, <2>1 DEF Held, Registered, InFlight
<1> QED  BY <1>2, <1>3, <1>4, StepKinds

\* No running process is lost: a registered entry's handle reaches it, or a handler
\* in flight is responsible for it, from the fork to the end of the stop.
THEOREM ProcessesAreKept == DisciplinedSpec => []NoLostProcess
<1>1. Init => NoLostProcess  BY DEF Init, NoLostProcess, Running, NoProcess
<1> QED  BY <1>1, HeldNext, StaysApart, PTL DEF DisciplinedSpec

----------------------------------------------------------------------------
(* No port is leaked                                                       *)

\* What a handler of SpawnAgent starts from.
LEMMA SpawnCall == \A w \in WsNames : [NoCall EXCEPT !.op = "spawn", !.ws = w] \in Call
BY NullCall, EntryConstants DEF Call

\* A handler has a port from the reservation to the end of its spawn only.
PortLocals == \A c \in Calls : calls[c].pc \notin Spawning => calls[c].port = None

\* It gives the port up when it returns, or goes on to its next agent.
LEMMA PortLocalsNext == Apart /\ PortLocals /\ [DisciplinedNext]_vars => PortLocals'
<1> SUFFICES ASSUME Apart, PortLocals, [DisciplinedNext]_vars PROVE PortLocals'  OBVIOUS
<1>0. calls \in [Calls -> Call]  BY Knows DEF Apart, Typed, TypeOK
<1>1. ASSUME NEW c \in Calls, Request(c) \/ Step(c)
      PROVE  calls'[c].pc \notin Spawning => calls'[c].port = None
  <2>1. ASSUME NEW w, NEW rec \in Call, ReserveAgent(c, w, rec) PROVE calls'[c].pc \in Spawning
    BY <1>0, <2>1 DEF ReserveAgent, Call, Spawning
  <2>2. CASE SpawnAgent(c) \/ AutoSpawn(c)
    BY <1>0, <2>1, <2>2, SpawnCall DEF SpawnAgent, AutoSpawn
  <2>3. CASE CreateWorkspace(c)  BY <1>0, <2>3 DEF CreateWorkspace, NoCall
  <2>9. CASE StopAgent(c) \/ RestartAgent(c)
    BY <1>0, <2>9 DEF StopAgent, RestartAgent, NoCall
  <2>10. CASE DestroyWorkspace(c)  BY <1>0, <2>10 DEF DestroyWorkspace, NoCall
  <2>4. CASE Return(c)  BY <1>0, <2>4 DEF Return, NoCall
  <2>5. CASE AttachSpawned(c)  BY <1>0, <2>5 DEF AttachSpawned, NoCall, NextAuto, Call
  <2>6. CASE ExecStart(c) \/ MockStart(c) \/ ReallocPort(c)
    <3>1. CASE ExecStart(c)  BY <1>0, <3>1 DEF ExecStart, Call, Spawning
    <3>2. CASE MockStart(c)  BY <1>0, <3>2 DEF MockStart, Call, Spawning
    <3>3. CASE ReallocPort(c)  BY <1>0, <3>3 DEF ReallocPort, Call, Spawning
    <3> QED  BY <2>6, <3>1, <3>2, <3>3
  <2>7. CASE StartFails(c) \/ HealthCheckPasses(c) \/ HealthCheckFails(c)
    BY <1>0, <2>7 DEF StartFails, HealthCheckPasses, HealthCheckFails, Goto, Call, Spawning
  <2>8. CASE StopBegins(c) \/ StopSkips(c) \/ HandleStops(c) \/ StopEnds(c)
    <3>1. calls[c].port = None
      BY <2>8 DEF StopBegins, StopSkips, HandleStops, StopEnds, PortLocals, Spawning
    <3>2. calls'[c].port = calls[c].port
      <4>1. CASE StopBegins(c)  BY <1>0, <4>1 DEF StopBegins, Goto, Call
      <4>2. CASE StopSkips(c)  BY <1>0, <4>2 DEF StopSkips, Goto, Call
      <4>3. CASE HandleStops(c)  BY <1>0, <4>3 DEF HandleStops, Goto, Call
      <4>4. CASE StopEnds(c)  BY <1>0, <4>4 DEF StopEnds, Call
      <4> QED  BY <2>8, <4>1, <4>2, <4>3, <4>4
    <3> QED  BY <3>1, <3>2
  <2> QED
    BY <1>1, <2>2, <2>3, <2>4, <2>5, <2>6, <2>7, <2>8, <2>9, <2>10
    DEF Request, Step, AutoSpawnRejected, SpawnFailed, StopReturns, ReallocFails,
        AttachRestarted, RestartFailed, RemoveWorkspace
<1>2. CASE \E c \in Calls : Step(c)
  <2>1. PICK c \in Calls : Step(c)  BY <1>2
  <2>2. \A d \in Calls : d # c => calls'[d] = calls[d]  BY <2>1, StepWorks
  <2> QED  BY <1>1, <2>1, <2>2 DEF PortLocals
<1>3. CASE \E c \in Calls, w \in WsNames : Request(c) /\ Enters(c, w)
  <2>1. PICK c \in Calls, w \in WsNames : Request(c) /\ Enters(c, w)  BY <1>3
  <2>2. \A d \in Calls : d # c => calls'[d] = calls[d]  BY <2>1 DEF Enters
  <2> QED  BY <1>1, <2>1, <2>2 DEF PortLocals
<1>4. CASE Others
  <2>1. UNCHANGED calls  BY <1>4, OthersWork
  <2> QED  BY <2>1 DEF PortLocals
<1> QED  BY <1>2, <1>3, <1>4, StepKinds

\* An agent or a handler that the port is reserved for.
Owned(port) ==
    \/ \E id \in AgentIds : Registered(id) /\ IsActive(id) /\ agents[id].port = port
    \/ \E c \in Calls : InFlight(c) /\ calls[c].port = port

\* What the last step of a spawn or restart knows of the entry it writes: a spawn
\* has the entry's port, and a restart an entry that is not active.
LEMMA OwnEntry ==
    ASSUME Apart, NEW c \in Calls, calls[c].pc \in Spawning
    PROVE  LET r == calls[c] IN
           /\ r.agent \in AgentIds /\ agents[r.agent].registered
           /\ IsActive(r.agent) => agents[r.agent].port = r.port
BY SpawningKnows DEF IsActive

\* The entry made READY has the handler's port, under ExecBackend.
LEMMA AttachOwns ==
    ASSUME Apart, server.backend = "exec", NEW c \in Calls, NEW port, calls[c].port = port,
           AttachSpawned(c) \/ AttachRestarted(c)
    PROVE  /\ Owned(port)'
           /\ \A id \in AgentIds : id # calls[c].agent => agents'[id] = agents[id]
<1>0. PICK id : id = calls[c].agent  OBVIOUS
<1>1. calls[c].pc \in Spawning /\ calls[c].pc = "attach"
  BY DEF AttachSpawned, AttachRestarted, Spawning
<1>2. id \in AgentIds /\ agents[id].registered /\ procs[calls[c].proc].port = port
  BY <1>0, <1>1, SpawningKnows DEF ProcessLocals
<1>3. agents' = [agents EXCEPT ![id] = ReadyEntry(@, calls[c].proc)]
  BY <1>0 DEF AttachSpawned, AttachRestarted
<1>4. agents'[id].registered /\ agents'[id].status = "READY" /\ agents'[id].port = port
  BY <1>2, <1>3, Knows DEF ReadyEntry, Agent
<1> QED  BY <1>0, <1>2, <1>3, <1>4, Knows DEF Owned, Registered, IsActive

\* A failure gives the handler's port back.
LEMMA FailFrees ==
    ASSUME Apart, NEW c \in Calls, SpawnFailed(c) \/ RestartFailed(c)
    PROVE  /\ calls[c].pc \in Spawning /\ calls[c].port \notin usedPorts'
           /\ \A id \in AgentIds : id # calls[c].agent => agents'[id] = agents[id]
BY Knows DEF SpawnFailed, RestartFailed, Spawning, FreePort

\* An active agent keeps its port until it is given back.
LEMMA EntriesKeepPorts ==
    ASSUME Apart, server.backend = "exec", NEW c \in Calls, Request(c) \/ Step(c),
           NEW id \in AgentIds, NEW port \in usedPorts', agents[id].port = port,
           Registered(id), IsActive(id)
    PROVE  Owned(port)'
<1> DEFINE r == calls[c]
<1>0. agents \in [AgentIds -> Agent] /\ RegisteredIsBorn  BY Knows DEF Membership
<1>1. ASSUME agents'[id] = agents[id] PROVE Owned(port)'
  BY <1>1 DEF Owned, Registered, IsActive
<1>2. ASSUME NEW w \in WsNames, NEW rec, ReserveAgent(c, w, rec)
      PROVE  agents'[id] = agents[id]
  <2>1. PICK i \in AgentIds, p \in Ports :
            NextId(i) /\ agents' = [agents EXCEPT ![i] = StartingEntry(w, p)]
    BY <1>2 DEF ReserveAgent
  <2>2. i # id  BY <1>0, <2>1 DEF NextId, RegisteredIsBorn, Registered
  <2> QED  BY <1>0, <2>1, <2>2
<1>3. CASE SpawnAgent(c) \/ AutoSpawn(c)
  BY <1>1, <1>2, <1>3, Knows DEF SpawnAgent, AutoSpawn, LocalsSet
<1>4. CASE AttachSpawned(c) \/ AttachRestarted(c)
  <2>1. r.pc \in Spawning  BY <1>4 DEF AttachSpawned, AttachRestarted, Spawning
  <2>2. CASE id = r.agent
    <3>1. r.port = port  BY <2>1, <2>2, OwnEntry
    <3> QED  BY <1>4, <3>1, AttachOwns
  <2>3. CASE id # r.agent  BY <1>1, <1>4, <2>3, AttachOwns
  <2> QED  BY <2>2, <2>3
<1>5. CASE SpawnFailed(c) \/ RestartFailed(c)
  <2>1. id # r.agent  BY <1>5, OwnEntry, FailFrees
  <2> QED  BY <1>1, <1>5, <2>1, FailFrees
<1>6. CASE StopBegins(c)
  <2>1. PICK i \in r.todo : agents' = [agents EXCEPT ![i].status = "STOPPING"]
    BY <1>6 DEF StopBegins
  <2>2. /\ agents'[id].registered /\ agents'[id].port = port
        /\ agents'[id].status \in {agents[id].status, "STOPPING"}
    BY <1>0, <2>1 DEF Agent, Registered
  <2> QED  BY <2>2 DEF Owned, Registered, IsActive
<1>7. CASE StopEnds(c)
  <2>1. /\ usedPorts' = FreePort(agents[r.agent].port)
        /\ agents' = [agents EXCEPT ![r.agent] = StoppedEntry(@)]
    BY <1>7 DEF StopEnds
  <2>2. id # r.agent  BY <2>1 DEF FreePort
  <2> QED  BY <1>0, <1>1, <2>1, <2>2
<1>8. CASE RemoveWorkspace(c)
  <2>1. id \notin r.snap  BY <1>8, RemovedAreStopped DEF IsActive
  <2> QED  BY <1>0, <1>1, <1>8, <2>1 DEF RemoveWorkspace, Unregistered
<1>9. CASE EntriesLeft(c)  BY <1>1, <1>9, EntriesSame
<1> QED  BY <1>3, <1>4, <1>5, <1>6, <1>7, <1>8, <1>9 DEF Request, Step, EntriesLeft

\* A handler keeps its port until it gives it back or an agent has it.
LEMMA HandlersKeepPorts ==
    ASSUME Apart, PortLocals, server.backend = "exec", NEW c \in Calls, Step(c),
           NEW port \in usedPorts', calls[c].port = port, port # None
    PROVE  Owned(port)'
<1>1. calls[c].pc \in Spawning  BY DEF PortLocals
<1>2. CASE ExecStart(c) \/ MockStart(c)
  <2>1. \E p \in Pids, pc \in {"poll", "attach"} :
            calls' = [calls EXCEPT ![c].pc = pc, ![c].proc = p]
    BY <1>2 DEF ExecStart, MockStart
  <2>2. calls'[c].port = port /\ calls'[c].pc # "idle"  BY <2>1, Knows DEF Call
  <2> QED  BY <2>2 DEF Owned, InFlight
<1>3. CASE StartFails(c) \/ HealthCheckPasses(c) \/ HealthCheckFails(c)
  <2>1. \E pc \in {"attach", "fail"} : Goto(c, pc)
    BY <1>3 DEF StartFails, HealthCheckPasses, HealthCheckFails
  <2>2. calls'[c].port = port /\ calls'[c].pc # "idle"  BY <2>1, Knows, Moved
  <2> QED  BY <2>2 DEF Owned, InFlight
<1>4. CASE AttachSpawned(c) \/ AttachRestarted(c)  BY <1>4, AttachOwns
<1>5. CASE SpawnFailed(c) \/ RestartFailed(c)  BY <1>5, FailFrees
<1> QED
  BY <1>1, <1>2, <1>3, <1>4, <1>5
  DEF Spawning, Step, AutoSpawn, AutoSpawnRejected, StopBegins, StopSkips, HandleStops,
      StopEnds, StopReturns, ReallocPort, ReallocFails, RemoveWorkspace

\* The port a handler reserves is the handler's.
LEMMA NewPortOwned ==
    ASSUME Apart, NEW c \in Calls, Request(c) \/ Step(c),
           NEW port \in usedPorts', port \notin usedPorts
    PROVE  Owned(port)'
<1>1. ASSUME NEW w, NEW rec \in Call, ReserveAgent(c, w, rec)
      PROVE  calls'[c].port = port /\ calls'[c].pc = "start"
  <2>1. PICK id \in AgentIds, p \in Ports :
            /\ usedPorts' = usedPorts \cup {p}
            /\ calls' = [calls EXCEPT ![c] =
                  [rec EXCEPT !.pc = "start", !.agent = id, !.port = p]]
    BY <1>1 DEF ReserveAgent
  <2> QED  BY <2>1, Knows DEF Call
<1>2. CASE SpawnAgent(c) \/ AutoSpawn(c)
  <2>1. calls'[c].port = port /\ calls'[c].pc = "start"
    BY <1>1, <1>2, SpawnCall, Knows DEF SpawnAgent, AutoSpawn
  <2> QED  BY <2>1 DEF Owned, InFlight
<1>3. CASE ReallocPort(c)
  <2>1. \E p \in Ports : /\ usedPorts' = usedPorts \cup {p}
                         /\ calls' = [calls EXCEPT ![c].pc = "start", ![c].port = p]
    BY <1>3 DEF ReallocPort
  <2>2. calls'[c].port = port /\ calls'[c].pc # "idle"  BY <2>1, Knows DEF Call
  <2> QED  BY <2>2 DEF Owned, InFlight
<1> QED
  BY <1>2, <1>3
  DEF Request, Step, CreateWorkspace, StopAgent, RestartAgent, DestroyWorkspace,
      AutoSpawnRejected, AttachSpawned, SpawnFailed, ExecStart, MockStart, StartFails,
      HealthCheckPasses, HealthCheckFails, StopBegins, StopSkips, HandleStops, StopEnds,
      StopReturns, ReallocFails, AttachRestarted, RestartFailed, RemoveWorkspace, FreePort

\* Under ExecBackend a process keeps the port it was given.
ExecLeaksNoPort == server.backend = "exec" => NoLeakedPort

\* Whoever a port is reserved for keeps it, hands it over, or gives it back.
LEMMA OwnedNext ==
    Apart /\ PortLocals /\ ExecLeaksNoPort /\ [DisciplinedNext]_vars => ExecLeaksNoPort'
<1> SUFFICES ASSUME Apart, PortLocals, ExecLeaksNoPort, [DisciplinedNext]_vars,
                    server'.backend = "exec", NEW port \in usedPorts'
             PROVE  Owned(port)'
  BY DEF ExecLeaksNoPort, NoLeakedPort, Owned
<1>0. server.backend = "exec" /\ (port \in usedPorts => Owned(port) /\ port # None)
  <2>1. usedPorts \subseteq Ports  BY DEF Apart, Typed, TypeOK
  <2> QED
    BY <2>1, Ageing, ConstantsAssumption DEF ExecLeaksNoPort, NoLeakedPort, Owned
<1>1. ASSUME NEW c \in Calls, Request(c) \/ Step(c),
             \A d \in Calls : d # c => calls'[d] = calls[d],
             Request(c) => ~InFlight(c)
      PROVE  Owned(port)'
  <2>1. CASE port \notin usedPorts  BY <1>1, <2>1, NewPortOwned
  <2>2. ASSUME NEW id \in AgentIds, Registered(id), IsActive(id), agents[id].port = port
        PROVE  Owned(port)'
    BY <1>0, <1>1, <2>2, EntriesKeepPorts
  <2>3. ASSUME NEW d \in Calls, InFlight(d), calls[d].port = port, port # None
        PROVE  Owned(port)'
    <3>1. CASE d # c  BY <1>1, <2>3, <3>1 DEF Owned, InFlight
    <3>2. CASE d = c
      <4>1. Step(c) /\ calls[c].port = port  BY <1>1, <2>3, <3>2
      <4> QED  BY <1>0, <2>3, <4>1, HandlersKeepPorts
    <3> QED  BY <3>1, <3>2
  <2> QED  BY <1>0, <2>1, <2>2, <2>3 DEF Owned
<1>2. CASE \E c \in Calls : Step(c)
  <2>1. PICK c \in Calls : Step(c)  BY <1>2
  <2>2. InFlight(c) /\ \A d \in Calls : d # c => calls'[d] = calls[d]  BY <2>1, StepWorks
  <2>3. ~Request(c)
    BY <2>2 DEF Request, SpawnAgent, CreateWorkspace, StopAgent, RestartAgent,
       DestroyWorkspace, Accepting, InFlight
  <2> QED  BY <1>1, <2>1, <2>2, <2>3
<1>3. CASE \E c \in Calls, w \in WsNames : Request(c) /\ Enters(c, w)
  <2>1. PICK c \in Calls, w \in WsNames : Request(c) /\ Enters(c, w)  BY <1>3
  <2>2. /\ \A d \in Calls : d # c => calls'[d] = calls[d]
        /\ ~InFlight(c)
    BY <2>1 DEF Enters, Request, SpawnAgent, CreateWorkspace, StopAgent, RestartAgent,
       DestroyWorkspace, Accepting, InFlight
  <2> QED  BY <1>1, <2>1, <2>2
<1>4. CASE Others
  <2>1. UNCHANGED <<agents, calls, usedPorts>>
    BY <1>4, OthersWork
    DEF Others, RegisterProject, UnregisterProject, ProcessExits, Shutdown, ServerStop,
        StopDoomed, GracefulStop, ServerExits, CloseStream, vars
  <2> QED  BY <1>0, <2>1 DEF Owned, Registered, IsActive, InFlight
<1> QED  BY <1>2, <1>3, <1>4, StepKinds

\* Stop, failure and destroy give back every port that spawn and restart reserved.
\* MockBackend may listen on another port than the one reserved, which is then
\* never given back: the theorem is about ExecBackend.
THEOREM PortsAreGivenBack == DisciplinedSpec => [](server.backend = "exec" => NoLeakedPort)
<1>1. Init => PortLocals /\ ExecLeaksNoPort
  BY DEF Init, PortLocals, ExecLeaksNoPort, NoLeakedPort, NoCall
<1>2. ExecLeaksNoPort => (server.backend = "exec" => NoLeakedPort)  BY DEF ExecLeaksNoPort
<1> QED  BY <1>1, <1>2, OwnedNext, PortLocalsNext, StaysApart, PTL DEF DisciplinedSpec
=============================================================================
