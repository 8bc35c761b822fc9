---------------------------- MODULE ArpReference ----------------------------
(***************************************************************************)
(* The reference ARP server as the conformance suite meets it: what it     *)
(* answers to one request and what the request leaves behind.  A request   *)
(* is one step here; what its handler's lock sections let in between is    *)
(* the subject of ArpLifecycle, ArpTokens and ArpWatch.                    *)
(*                                                                         *)
(* The state of a server is a value, so that the suite can hold two.  Its  *)
(* agents run in process (MockBackend), where a spawn finds a port always  *)
(* and an AgentCard that cannot be fetched is made from the template.      *)
(***************************************************************************)
EXTENDS Integers, Sequences, FiniteSets, TLC

None == "none"

Unspecified == 0
SessionOnly == 1
ProjectWide == 2
Admin == 3

\* A scope is the set of the projects it names; Global names all, NoScope is a nil scope.
Global == {"*"}
NoScope == {}

\* A request.  by: the subject of the token it bears, "admin" when it bears none;
\* name: what it is about; where: the repo of a project, the project of a workspace,
\* the workspace of an agent, or such a filter.
Request(op) == [op |-> op, by |-> "admin", name |-> None, where |-> None, template |-> None,
                status |-> None, scope |-> NoScope, perm |-> Unspecified]

\* demoSeed: the skill tags of the two templates of project "myapp".
Tags == [crush |-> {"crush", "coding", "code"}, echo |-> {"echo"}]

Agent(workspace, template, session) ==
    [workspace |-> workspace, template |-> template, status |-> "READY", session |-> session]

\* A session id, newID("sess"): named here by the agent it was made for.
NewSession(agent) == "sess-" \o agent

\* start: the state of a server after Seed.  Each seeded agent has a session of its own.
Seeded(gateway) ==
    [projects   |-> {"myapp"},
     workspaces |-> "arp-test" :> "myapp",
     agents     |-> "echo-agent-001" :> Agent("arp-test", "echo", NewSession("echo-agent-001"))
                    @@ "crush-agent-001" :> Agent("arp-test", "crush", NewSession("crush-agent-001")),
     tokens     |-> <<>>,
     gateway    |-> gateway]

----------------------------------------------------------------------------
(* Who asks, and what they may see                                         *)

Principal(s, c) ==
    IF c.by = "admin" THEN [scope |-> Global, perm |-> Admin, session |-> None]
                      ELSE s.tokens[c.by]

CanAccess(p, project) == p.scope = Global \/ project \in p.scope

ProjectOf(s, a) == s.workspaces[s.agents[a].workspace]

CanSeeAgent(s, p, a) ==
    /\ CanAccess(p, ProjectOf(s, a))
    /\ p.perm = SessionOnly => p.session # None /\ s.agents[a].session = p.session

InWorkspace(s, w) == {a \in DOMAIN s.agents : s.agents[a].workspace = w}

WorkspaceVisible(s, p, w) ==
    /\ CanAccess(p, s.workspaces[w])
    /\ p.perm = SessionOnly =>
          p.session # None /\ \E a \in InWorkspace(s, w) : s.agents[a].session = p.session

Active(s, a) == s.agents[a].status \notin {"STOPPED", "ERROR"}

\* issueToken's two refusals.
MayIssue(p, scope, perm) == (p.scope = Global \/ scope \subseteq p.scope) /\ perm <= p.perm

----------------------------------------------------------------------------
(* What is refused: the first refusal of a handler is its answer           *)

If(condition, code) == IF condition THEN <<code>> ELSE <<>>

ProjectRefusals(s, p, c) ==
    CASE c.op = "RegisterProject" ->
            If(None \in {c.name, c.where}, "InvalidArgument")
            \o If(p.perm # Admin \/ ~CanAccess(p, c.name), "PermissionDenied")
      [] c.op = "UnregisterProject" ->
            If(c.name = None, "InvalidArgument")
            \o If(p.perm # Admin, "PermissionDenied")
            \o If(c.name \notin s.projects, "NotFound")
            \o If(~CanAccess(p, c.name), "PermissionDenied")
            \o If(\E a \in DOMAIN s.agents : ProjectOf(s, a) = c.name /\ Active(s, a),
                  "FailedPrecondition")

WorkspaceRefusals(s, p, c) ==
    IF c.op = "CreateWorkspace"
    THEN If(None \in {c.name, c.where}, "InvalidArgument")
         \o If(c.where \notin s.projects, "NotFound")
         \o If(~CanAccess(p, c.where), "PermissionDenied")
         \o If(c.name \in DOMAIN s.workspaces, "AlreadyExists")
    ELSE If(c.name = None, "InvalidArgument")
         \o If(c.name \notin DOMAIN s.workspaces, "NotFound")
         \o If(c.name \in DOMAIN s.workspaces /\ ~WorkspaceVisible(s, p, c.name),
               "PermissionDenied")

\* The refusals of spawnAgentInternal before it resolves the session.
PlacementRefusals(s, p, c) ==
    If(None \in {c.where, c.template}, "InvalidArgument")
    \o (IF c.where \notin DOMAIN s.workspaces THEN <<"NotFound">>
        ELSE If(~CanAccess(p, s.workspaces[c.where]), "PermissionDenied")
             \o If(s.workspaces[c.where] # "myapp" \/ c.template \notin DOMAIN Tags, "NotFound"))

SpawnRefusals(s, p, c) ==
    PlacementRefusals(s, p, c) \o If(~MayIssue(p, c.scope, c.perm), "PermissionDenied")

AgentRefusals(s, p, c) ==
    If(c.name = None, "InvalidArgument")
    \o If(c.name \notin DOMAIN s.agents, "NotFound")
    \o If(c.name \in DOMAIN s.agents /\ ~CanSeeAgent(s, p, c.name), "PermissionDenied")

TokenRefusals(p, c) ==
    If(c.name = None \/ c.scope = NoScope \/ c.perm = Unspecified, "InvalidArgument")
    \o If(p.perm # Admin \/ ~MayIssue(p, c.scope, c.perm), "PermissionDenied")

Refusals(s, c) ==
    LET p == Principal(s, c) IN
    CASE c.op \in {"RegisterProject", "UnregisterProject"} -> ProjectRefusals(s, p, c)
      [] c.op \in {"CreateWorkspace", "GetWorkspace", "DestroyWorkspace", "WatchWorkspace"} ->
            WorkspaceRefusals(s, p, c)
      [] c.op = "SpawnAgent" -> SpawnRefusals(s, p, c)
      [] c.op \in {"GetAgentStatus", "StopAgent", "RestartAgent", "WatchAgent"} ->
            AgentRefusals(s, p, c)
      [] c.op = "CreateToken" -> TokenRefusals(p, c)
      [] OTHER -> <<>>

Code(s, c) == Head(Refusals(s, c) \o <<"OK">>)

----------------------------------------------------------------------------
(* What a request that is granted leaves behind                            *)

\* resolveSession: the session of the caller's token, or a new one.
SessionOf(s, c) ==
    LET p == Principal(s, c) IN IF p.session = None THEN NewSession(c.name) ELSE p.session

\* A spawn establishes the session on the caller's token before the child token is
\* issued, and so also when issueToken refuses.
Established(s, c) ==
    IF c.by = "admin" \/ PlacementRefusals(s, Principal(s, c), c) # <<>> THEN s
    ELSE [s EXCEPT !.tokens[c.by].session = SessionOf(s, c)]

Granted(s, c) ==
    CASE c.op = "RegisterProject"   -> [s EXCEPT !.projects = @ \cup {c.name}]
      [] c.op = "UnregisterProject" -> [s EXCEPT !.projects = @ \ {c.name}]
      [] c.op = "CreateWorkspace"   -> [s EXCEPT !.workspaces = (c.name :> c.where) @@ @]
      [] c.op = "DestroyWorkspace"  ->
            [s EXCEPT !.workspaces = [w \in DOMAIN @ \ {c.name} |-> @[w]],
                      !.agents = [a \in DOMAIN @ \ InWorkspace(s, c.name) |-> @[a]]]
      [] c.op = "StopAgent"         -> [s EXCEPT !.agents[c.name].status = "STOPPED"]
      [] c.op = "RestartAgent"      -> [s EXCEPT !.agents[c.name].status = "READY"]
      [] c.op = "CreateToken"       ->
            [s EXCEPT !.tokens =
                (c.name :> [scope |-> c.scope, perm |-> c.perm, session |-> None]) @@ @]
      [] OTHER                      -> s

Spawned(s, c) ==
    [s EXCEPT !.agents = (c.name :> Agent(c.where, c.template, SessionOf(s, c))) @@ @]

\* The state of the server after request c.
After(s, c) ==
    IF c.op = "SpawnAgent"
    THEN Established(IF Code(s, c) = "OK" THEN Spawned(s, c) ELSE s, c)
    ELSE IF Code(s, c) = "OK" THEN Granted(s, c) ELSE s

----------------------------------------------------------------------------
(* What an answer shows                                                    *)

\* proxyURL and enrichedCard: the interfaces of the card, in their order.
Urls(s) ==
    {"direct_url", "interfaces[0] = direct_url"} \cup
    (IF s.gateway THEN {"proxy_url", "interfaces[1] = proxy_url"} ELSE {})

\* An AgentInstance with its AgentCard.
AgentShown(s, a) ==
    Urls(s) \cup {a, ProjectOf(s, a)}
            \cup {s.agents[a][field] : field \in DOMAIN s.agents[a]}

AgentsShown(s, p, c) ==
    {a \in DOMAIN s.agents :
        /\ CanSeeAgent(s, p, a)
        /\ c.where # None => s.agents[a].workspace = c.where
        /\ c.status # None => s.agents[a].status = c.status
        /\ c.template # None => s.agents[a].template = c.template}

CardsShown(s, p, c) ==
    {a \in DOMAIN s.agents :
        /\ CanSeeAgent(s, p, a)
        /\ s.agents[a].status \in {"READY", "BUSY"}
        /\ c.template # None => c.template \in Tags[s.agents[a].template]}

WorkspacesShown(s, p, c) ==
    {w \in DOMAIN s.workspaces :
        WorkspaceVisible(s, p, w) /\ (c.where # None => s.workspaces[w] = c.where)}

\* What the granted answer to c shows, in the state after it.
Shown(s, c) ==
    LET p == Principal(s, c) IN
    CASE c.op = "ListProjects"    -> {x \in s.projects : CanAccess(p, x)}
      [] c.op = "RegisterProject" -> {c.name, "main"}
      [] c.op = "CreateWorkspace" -> {"ACTIVE"}
      [] c.op = "ListWorkspaces"  -> WorkspacesShown(s, p, c)
      [] c.op = "GetWorkspace"    -> {s.workspaces[c.name]} \cup InWorkspace(s, c.name)
      [] c.op \in {"SpawnAgent", "GetAgentStatus", "StopAgent", "RestartAgent"} ->
            AgentShown(s, c.name)
      [] c.op = "ListAgents"      -> AgentsShown(s, p, c)
      [] c.op = "DiscoverAgents"  -> CardsShown(s, p, c)
      [] c.op = "WatchAgent"      -> {"STATUS_CHANGED"}
      [] c.op = "WatchWorkspace"  -> {"AGENT_SPAWNED"}
      [] c.op = "CreateToken"     -> {"arp_"}
      [] OTHER                    -> {}
=============================================================================
