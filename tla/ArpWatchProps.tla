--------------------------- MODULE ArpWatchProps ---------------------------
(***************************************************************************)
(* The correctness properties of ArpWatch.                                 *)
(***************************************************************************)
EXTENDS ArpWatch

Quiescent == \A h \in Handlers : ~Busy(h)

Watched(s) == {a \in Agents : streams[s].seen[a] # None}

\* No two handlers are at work on one agent.
WorksOn(h) == {handlers[h].todo[i].agent : i \in DOMAIN handlers[h].todo} \cap Agents
Apart == \A g, h \in Handlers : g # h => WorksOn(g) \cap WorksOn(h) = {}

\* A client that has missed nothing and has read all it was sent knows the status of
\* every agent it watches, once no handler is running: the initial event, taken in
\* one lock section (discovery.go:65-76), and the events published outside it
\* (server.go:402-429) leave no stale status behind.  ERROR is the exception:
\* nothing publishes it (agent.go:143-151).  Needs handlers not to overlap
\* (Apart).
WatchersConverge ==
    Quiescent => \A s \in Streams :
        streams[s].pc = "loop" /\ streams[s].queue = <<>> /\ ~streams[s].lost =>
            \A a \in Watched(s) : status[a] \in {streams[s].seen[a], "ERROR"}

\* Every handler returns although the clients that watch its agents may stop reading
\* for ever: publishing never waits for a stream (server.go:460-465).
HandlersReturn == \A h \in Handlers : Busy(h) ~> ~Busy(h)

Ended(s) == streams[s].pc \in {"unsubscribe", "idle"}

\* The workspace that stream s watches is gone, and nothing more will be published.
Orphaned(s) ==
    /\ streams[s].kind = "workspace" /\ streams[s].pc \in {"initial", "loop"}
    /\ ~exists /\ Quiescent

\* A client that reads what it is sent, and was not cut off from any event, is not left
\* with an open stream of a workspace that was destroyed (discovery.go:151-153).
ReadersAreReleased ==
    ClientsRead => \A s \in Streams : Orphaned(s) ~> (Ended(s) \/ streams[s].lost)

\* arp-spec/services-discovery.md:158: "`WORKSPACE_DESTROYED` sent when the workspace
\* is destroyed; stream closes after this event". For clients that read (FairSpec).
StreamClosesAfterDestroy ==
    \A s \in Streams : Orphaned(s) ~> Ended(s)
=============================================================================
