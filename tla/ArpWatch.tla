------------------------------ MODULE ArpWatch ------------------------------
(***************************************************************************)
(* The event streams of the ARP server: WatchAgent and WatchWorkspace, and *)
(* the handlers that publish to them.                                      *)
(*                                                                         *)
(* A handler changes an entry under the lock and publishes the change after*)
(* releasing it, in up to three more steps: it copies the entry (without   *)
(* the lock), sends the copy to the agent's subscribers, and sends it to   *)
(* the workspace's.  A handler is the list of steps it still has to take;  *)
(* what ArpLifecycle says of ports and processes is left out here.         *)
(***************************************************************************)
EXTENDS Integers, SequencesExt

CONSTANTS
    Agents,    \* agents of the one workspace watched
    Handlers,  \* RPCs that change agents
    Streams,   \* Watch RPCs
    BufSize,   \* capacity of a subscription's channel (32 in the code)
    None

ASSUME BufSizeAssumption == BufSize \in Nat \ {0}

VARIABLES
    registered,  \* Server.agents: the ids registered
    members,     \* agents of the workspace's entry
    status,      \* pb.Status of every entry ever made
    exists,      \* the workspace has an entry
    everWatched, \* Server.wsSubs has a map for the workspace's name
    handlers,
    streams

vars == <<registered, members, status, exists, everWatched, handlers, streams>>

Status == {"UNSPECIFIED", "STARTING", "READY", "ERROR", "STOPPING", "STOPPED"}
EventTypes == {"changed", "card", "stopped", "spawned", "destroyed"}
Event == [type : EventTypes, agent : Agents \cup {None}, status : Status \cup {None}]

ASSUME NoneAssumption == None \notin Agents \cup Status

Seen == [Agents -> Status \cup {None}]
Nothing == [a \in Agents |-> None]

\* seen: the status the client was last sent of each agent.  lost (no variable of
\* the code): something was published that this stream will not deliver.
Stream == [kind : {"agent", "workspace", None}, agent : Agents \cup {None},
           pc : {"idle", "subscribe", "initial", "loop", "unsubscribe"},
           snapshot : Seen, seen : Seen, queue : Seq(Event), lost : BOOLEAN]
NoStream == [kind |-> None, agent |-> None, pc |-> "idle", snapshot |-> Nothing,
             seen |-> Nothing, queue |-> <<>>, lost |-> FALSE]

Op == {"spawn", "stop", "restart", "destroy", None}

\* One step of a handler: what it does, to which agent, and the status it sets or
\* the event it publishes.
Do(what, a, arg) == [what |-> what, agent |-> a, arg |-> arg]

\* The last lock section of DestroyWorkspace: the ids it read in its first.
Deletion(ids) == [what |-> "remove", agent |-> None, arg |-> ids]

\* A handler: copy is publishAgentEvent's agentPB; toWs, whether it found the
\* workspace and a map of subscribers when it took the lock.
NoHandler == [op |-> None, todo |-> <<>>, copy |-> None, toWs |-> FALSE]

TypeOK ==
    /\ registered \subseteq Agents /\ members \subseteq Agents
    /\ status \in [Agents -> Status]
    /\ exists \in BOOLEAN /\ everWatched \in BOOLEAN
    /\ \A h \in Handlers :
          /\ DOMAIN handlers[h] = DOMAIN NoHandler
          /\ handlers[h].op \in Op /\ handlers[h].copy \in Status \cup {None}
    /\ \A s \in Streams : streams[s] \in Stream /\ Len(streams[s].queue) <= BufSize

Init ==
    /\ registered = {}
    /\ members = {}
    /\ status = [a \in Agents |-> "UNSPECIFIED"]
    /\ exists = TRUE
    /\ everWatched = FALSE
    /\ handlers = [h \in Handlers |-> NoHandler]
    /\ streams = [s \in Streams |-> NoStream]

----------------------------------------------------------------------------
(* The handlers' steps                                                     *)

PublishAgent(a, type) == <<Do("copy", a, type), Do("toAgent", a, type), Do("toWorkspace", a, type)>>

StopSteps(a) ==
    <<Do("set", a, "STOPPING")>> \o PublishAgent(a, "changed")
      \o <<Do("set", a, "STOPPED")>> \o PublishAgent(a, "stopped")

\* Mutant of SpawnSteps: READY is announced before it is set.
SpawnStepsEarly(a) ==
    <<Do("spawned", a, "spawned")>> \o PublishAgent(a, "changed") \o <<Do("set", a, "READY")>>

\* spawnAgentInternal after its first lock section.
SpawnSteps(a) ==
    <<Do("set", a, "READY"), Do("spawned", a, "spawned")>> \o PublishAgent(a, "changed")

RestartSteps(a) ==
    StopSteps(a) \o <<Do("set", a, "READY")>> \o PublishAgent(a, "card")
      \o PublishAgent(a, "changed")

Busy(h) == handlers[h].todo # <<>>
Next1(h) == Head(handlers[h].todo)
At(h, what) == Busy(h) /\ Next1(h).what = what

\* Handler h becomes rec with its next n steps taken.
Skip(h, n, rec) ==
    handlers' = [handlers EXCEPT ![h] =
        IF Len(rec.todo) = n THEN NoHandler
        ELSE [rec EXCEPT !.todo = SubSeq(rec.todo, n + 1, Len(rec.todo))]]

Starts(h, op, todo) ==
    /\ ~Busy(h)
    /\ handlers' = [handlers EXCEPT ![h] = [NoHandler EXCEPT !.op = op, !.todo = todo]]

\* CreateWorkspace; its auto agents are spawned as by SpawnAgent.
CreateWorkspace(h) ==
    /\ ~Busy(h) /\ ~exists
    /\ exists' = TRUE
    /\ members' = {}
    /\ UNCHANGED <<registered, status, everWatched, handlers, streams>>

SpawnAgent(h) ==
    \E a \in Agents :
        /\ exists /\ status[a] = "UNSPECIFIED"
        /\ Starts(h, "spawn", SpawnSteps(a))
        /\ registered' = registered \cup {a}
        /\ members' = members \cup {a}
        /\ status' = [status EXCEPT ![a] = "STARTING"]
        /\ UNCHANGED <<exists, everWatched, streams>>

StopAgent(h) ==
    \E a \in registered :
        /\ Starts(h, "stop", StopSteps(a))
        /\ UNCHANGED <<registered, members, status, exists, everWatched, streams>>

RestartAgent(h) ==
    \E a \in registered :
        /\ Starts(h, "restart", RestartSteps(a))
        /\ UNCHANGED <<registered, members, status, exists, everWatched, streams>>

\* The members are stopped in the order of a map range: any.
DestroyWorkspace(h) ==
    /\ exists
    /\ \E order \in SetToSeqs(members) :
          Starts(h, "destroy",
                 FlattenSeq([i \in DOMAIN order |-> StopSteps(order[i])])
                   \o <<Deletion(members), Do("destroyed", None, "destroyed")>>)
    /\ UNCHANGED <<registered, members, status, exists, everWatched, streams>>

\* A lock section that sets a status.  stopAgentInternal does nothing more when the
\* agent is registered no longer.
SetStatus(h) ==
    /\ At(h, "set")
    /\ LET a == Next1(h).agent
           gone == Next1(h).arg = "STOPPING" /\ a \notin registered
       IN  /\ status' = IF gone THEN status ELSE [status EXCEPT ![a] = Next1(h).arg]
           /\ Skip(h, IF gone THEN Len(StopSteps(a)) ELSE 1, handlers[h])
    /\ UNCHANGED <<registered, members, exists, everWatched, streams>>

\* The backend does not start the process (or, for a restart, there is no port):
\* the handler returns an error and publishes nothing.
StartFails(h) ==
    /\ At(h, "set") /\ Next1(h).arg = "READY"
    /\ handlers' = [handlers EXCEPT ![h] = NoHandler]
    /\ LET a == Next1(h).agent
           failed == [status EXCEPT ![a] = "ERROR"]
       IN  IF handlers[h].op = "restart" THEN status' \in {status, failed}
           ELSE status' = IF a \in registered THEN failed ELSE status
    /\ UNCHANGED <<registered, members, exists, everWatched, streams>>

RemoveWorkspace(h) ==
    /\ At(h, "remove")
    /\ registered' = registered \ Next1(h).arg
    /\ exists' = FALSE
    /\ Skip(h, 1, handlers[h])
    /\ UNCHANGED <<members, status, everWatched, streams>>

----------------------------------------------------------------------------
(* Publication                                                             *)

Subscribed(s) == streams[s].pc \in {"initial", "loop", "unsubscribe"}

Missed(s) == [streams[s] EXCEPT !.lost = TRUE]

\* Mutant of TrySend: the channel has no capacity to respect.
TrySendUnbounded(s, ev) == [streams[s] EXCEPT !.queue = Append(@, ev)]

\* trySend: an event that finds the channel full is dropped.
TrySend(s, ev) ==
    IF Len(streams[s].queue) < BufSize
    THEN [streams[s] EXCEPT !.queue = Append(@, ev)]
    ELSE Missed(s)

\* What the streams in watching become when ev is sent to those that subscribed.
Sent(watching, ev) ==
    [s \in Streams |->
        IF s \notin watching THEN streams[s]
        ELSE IF Subscribed(s) THEN TrySend(s, ev)
        ELSE Missed(s)]

AgentStreams(a) ==
    {s \in Streams : streams[s].kind = "agent" /\ streams[s].agent = a /\ streams[s].pc # "idle"}
WorkspaceStreams == {s \in Streams : streams[s].kind = "workspace" /\ streams[s].pc # "idle"}

\* publishAgentEvent, before it takes the lock: an unsynchronized read.
CopyAgent(h) ==
    /\ At(h, "copy")
    /\ Skip(h, 1, [handlers[h] EXCEPT !.copy = status[Next1(h).agent]])
    /\ UNCHANGED <<registered, members, status, exists, everWatched, streams>>

\* Mutant of PublishToAgent: a plain send, which waits for room in the channel.
PublishToAgentBlocking(h) ==
    /\ At(h, "toAgent")
    /\ \A s \in AgentStreams(Next1(h).agent) : Len(streams[s].queue) < BufSize
    /\ LET ev == [type |-> Next1(h).arg, agent |-> Next1(h).agent, status |-> handlers[h].copy]
       IN  streams' = Sent(AgentStreams(Next1(h).agent), ev)
    /\ Skip(h, 1, [handlers[h] EXCEPT !.toWs = exists /\ everWatched])
    /\ UNCHANGED <<registered, members, status, exists, everWatched>>

\* Its first lock section.
PublishToAgent(h) ==
    /\ At(h, "toAgent")
    /\ LET a == Next1(h).agent
           ev == [type |-> Next1(h).arg, agent |-> a, status |-> handlers[h].copy]
       IN  streams' = Sent(AgentStreams(a), ev)
    /\ Skip(h, 1, [handlers[h] EXCEPT !.toWs = exists /\ everWatched])
    /\ UNCHANGED <<registered, members, status, exists, everWatched>>

\* Its second.  A card update is a status change to the workspace's watchers.
PublishToWorkspace(h) ==
    /\ At(h, "toWorkspace")
    /\ LET type == IF Next1(h).arg = "stopped" THEN "stopped" ELSE "changed"
           ev == [type |-> type, agent |-> Next1(h).agent, status |-> handlers[h].copy]
       IN  streams' = IF handlers[h].toWs THEN Sent(WorkspaceStreams, ev)
                      ELSE [s \in Streams |-> IF s \in WorkspaceStreams THEN Missed(s)
                                              ELSE streams[s]]
    /\ Skip(h, 1, [handlers[h] EXCEPT !.copy = None, !.toWs = FALSE])
    /\ UNCHANGED <<registered, members, status, exists, everWatched>>

\* publishWorkspaceSpawn and publishWorkspaceDestroyed.
PublishWorkspace(h) ==
    /\ At(h, "spawned") \/ At(h, "destroyed")
    /\ LET a == Next1(h).agent
           ev == [type |-> Next1(h).arg, agent |-> a,
                  status |-> IF a = None THEN None ELSE status[a]]
       IN  streams' = Sent(WorkspaceStreams, ev)
    /\ Skip(h, 1, handlers[h])
    /\ UNCHANGED <<registered, members, status, exists, everWatched>>

----------------------------------------------------------------------------
(* The streams                                                             *)

\* The first lock section of WatchAgent and of WatchWorkspace.
WatchAgent(s) ==
    /\ streams[s].pc = "idle"
    /\ \E a \in registered :
          streams' = [streams EXCEPT ![s] = [NoStream EXCEPT !.kind = "agent", !.agent = a,
                        !.pc = "subscribe", !.snapshot = [Nothing EXCEPT ![a] = status[a]]]]
    /\ UNCHANGED <<registered, members, status, exists, everWatched, handlers>>

WatchWorkspace(s) ==
    /\ streams[s].pc = "idle" /\ exists
    /\ streams' = [streams EXCEPT ![s] = [NoStream EXCEPT !.kind = "workspace",
            !.pc = "subscribe",
            !.snapshot = [a \in Agents |-> IF a \in registered THEN status[a] ELSE None]]]
    /\ UNCHANGED <<registered, members, status, exists, everWatched, handlers>>

\* subscribeAgent or subscribeWorkspace: a lock section of its own.
Subscribe(s) ==
    /\ streams[s].pc = "subscribe"
    /\ streams' = [streams EXCEPT ![s].pc = "initial"]
    /\ everWatched' = (everWatched \/ streams[s].kind = "workspace")
    /\ UNCHANGED <<registered, members, status, exists, handlers>>

SendInitial(s) ==
    /\ streams[s].pc = "initial"
    /\ streams' = [streams EXCEPT ![s].pc = "loop", ![s].seen = streams[s].snapshot,
                                ![s].snapshot = Nothing]
    /\ UNCHANGED <<registered, members, status, exists, everWatched, handlers>>

\* Mutant of Closing: both streams close on an agent's last event.
ClosingStopped(s) == "stopped"

\* The event after which the stream is closed.
Closing(s) == IF streams[s].kind = "agent" THEN "stopped" ELSE "destroyed"

\* The handler of the stream returns, and nobody reads what is queued; until it has
\* unsubscribed, events still come.
Leaving(s) == [NoStream EXCEPT !.kind = streams[s].kind, !.agent = streams[s].agent,
                               !.pc = "unsubscribe"]

Receive(s) ==
    /\ streams[s].pc = "loop" /\ streams[s].queue # <<>>
    /\ LET ev == Head(streams[s].queue)
           seen == IF ev.agent = None THEN streams[s].seen
                   ELSE [streams[s].seen EXCEPT ![ev.agent] = ev.status]
       IN  streams' = [streams EXCEPT ![s] = IF ev.type = Closing(s) THEN Leaving(s)
                                    ELSE [streams[s] EXCEPT !.queue = Tail(@), !.seen = seen]]
    /\ UNCHANGED <<registered, members, status, exists, everWatched, handlers>>

\* The client cancels, or sending to it fails.
Cancel(s) ==
    /\ streams[s].pc \in {"initial", "loop"}
    /\ streams' = [streams EXCEPT ![s] = Leaving(s)]
    /\ UNCHANGED <<registered, members, status, exists, everWatched, handlers>>

Unsubscribe(s) ==
    /\ streams[s].pc = "unsubscribe"
    /\ streams' = [streams EXCEPT ![s] = NoStream]
    /\ UNCHANGED <<registered, members, status, exists, everWatched, handlers>>

----------------------------------------------------------------------------
HandlerStep(h) ==
    \/ SetStatus(h) \/ StartFails(h) \/ RemoveWorkspace(h)
    \/ CopyAgent(h) \/ PublishToAgent(h) \/ PublishToWorkspace(h) \/ PublishWorkspace(h)

Request(h) ==
    \/ CreateWorkspace(h) \/ SpawnAgent(h) \/ StopAgent(h) \/ RestartAgent(h)
    \/ DestroyWorkspace(h)

StreamStep(s) == Subscribe(s) \/ SendInitial(s) \/ Receive(s) \/ Unsubscribe(s)

Next ==
    \/ \E h \in Handlers : Request(h) \/ HandlerStep(h)
    \/ \E s \in Streams : WatchAgent(s) \/ WatchWorkspace(s) \/ StreamStep(s) \/ Cancel(s)

Spec == Init /\ [][Next]_vars

\* A handler's goroutine runs on until it returns; its backend answers.
HandlersRun == \A h \in Handlers : WF_vars(HandlerStep(h))

\* So does a stream's, as long as its client takes what it is sent.
ClientsRead == \A s \in Streams : WF_vars(StreamStep(s))

FairHandlers == Spec /\ HandlersRun
FairSpec == FairHandlers /\ ClientsRead
=============================================================================
