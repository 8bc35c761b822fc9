----------------------------- MODULE ArpChecks -----------------------------
(***************************************************************************)
(* The checks of the ARP conformance suite, in the order they run.  Groups *)
(* run one after another, each under a deadline of its own; a check sends  *)
(* its requests in turn and fails at the first answer that is not the one  *)
(* it expects.                                                             *)
(***************************************************************************)
EXTENDS ArpReference

\* One step of a check: a request and what its answer must be.  nested: it runs under
\* a deadline of the check's own, within the group's.
Expect(c) == [call |-> c, code |-> "OK", shows |-> {}, hides |-> {}, least |-> 0, nested |-> FALSE]
Refused(c, code) == [Expect(c) EXCEPT !.code = code]
Showing(c, shown) == [Expect(c) EXCEPT !.shows = shown]
Sorting(c, shown, hidden) == [Showing(c, shown) EXCEPT !.hides = hidden]
AtLeast(n, st) == [st EXCEPT !.least = n]
Nested(st) == [st EXCEPT !.nested = TRUE]

Check(id, severity, steps) == [id |-> id, severity |-> severity, steps |-> steps]
Must(id, steps) == Check(id, "required", steps)
Should(id, steps) == Check(id, "recommended", steps)

\* Requests before the first check of a group whose answers nobody looks at.
Setup(c) == Check(None, "setup", <<Expect(c)>>)

About(op, name) == [Request(op) EXCEPT !.name = name]
Register(name, repo) == [About("RegisterProject", name) EXCEPT !.where = repo]
Create(name, project) == [About("CreateWorkspace", name) EXCEPT !.where = project]
SpawnIn(workspace, template, name) ==
    [About("SpawnAgent", name) EXCEPT !.where = workspace, !.template = template]
Spawn(name) == SpawnIn("arp-test", "crush", name)
Discover(tag) == [Request("DiscoverAgents") EXCEPT !.template = tag]
Mint(subject, scope, perm) ==
    [About("CreateToken", subject) EXCEPT !.scope = scope, !.perm = perm]
By(subject, c) == [c EXCEPT !.by = subject]

\* tokenClient: a client that bears a new token of scope myapp.
TokenClient(subject, perm) == Expect(Mint(subject, {"myapp"}, perm))

Echo == "echo-agent-001"
Crush == "crush-agent-001"

ProjectChecks == <<
    Must("project-list-ok", <<Expect(Request("ListProjects"))>>),
    Must("project-list-contains-seed", <<Showing(Request("ListProjects"), {"myapp"})>>),
    Must("project-register-requires-name", <<Refused(Register(None, "/tmp/x"), "InvalidArgument")>>),
    Must("project-register-requires-repo", <<Refused(Register("needs-repo", None), "InvalidArgument")>>),
    Must("project-register-creates",
         <<Showing(Register("proj-reg", "/tmp/proj-reg"), {"proj-reg", "main"})>>),
    Must("project-register-appears-in-list", <<Showing(Request("ListProjects"), {"proj-reg"})>>),
    Must("project-unregister-removes",
         <<Expect(Register("proj-del", "/tmp/proj-del")),
           Expect(About("UnregisterProject", "proj-del")),
           Sorting(Request("ListProjects"), {}, {"proj-del"})>>),
    Must("project-unregister-nonexistent",
         <<Refused(About("UnregisterProject", "nonexistent-00000"), "NotFound")>>),
    Must("project-unregister-active-agents",
         <<Refused(About("UnregisterProject", "myapp"), "FailedPrecondition")>>),
    Must("project-register-non-admin-denied",
         <<TokenClient("proj-tok", ProjectWide),
           Refused(By("proj-tok", Register("nope", "/tmp/nope")), "PermissionDenied")>>) >>

WorkspaceChecks == <<
    Must("workspace-create-requires-name", <<Refused(Create(None, "myapp"), "InvalidArgument")>>),
    Must("workspace-create-requires-project", <<Refused(Create("ws-noproj", None), "InvalidArgument")>>),
    Must("workspace-create-unknown-project",
         <<Refused(Create("ws-unknownproj", "nonexistent-00000"), "NotFound")>>),
    Must("workspace-create-ok-active", <<Showing(Create("ws-a", "myapp"), {"ACTIVE"})>>),
    Must("workspace-create-duplicate", <<Refused(Create("ws-a", "myapp"), "AlreadyExists")>>),
    Must("workspace-list-ok", <<Expect(Request("ListWorkspaces"))>>),
    Must("workspace-list-filter-project",
         <<Showing([Request("ListWorkspaces") EXCEPT !.where = "myapp"], {"arp-test"})>>),
    Must("workspace-get-ok",   \* the project and two agents
         <<AtLeast(3, Showing(About("GetWorkspace", "arp-test"), {"myapp"}))>>),
    Must("workspace-get-nonexistent",
         <<Refused(About("GetWorkspace", "nonexistent-ws-00000"), "NotFound")>>),
    Must("workspace-destroy-nonexistent",
         <<Refused(About("DestroyWorkspace", "nonexistent-ws-00000"), "NotFound")>>),
    Must("workspace-destroy-ok",
         <<Expect(Create("ws-del", "myapp")),
           Expect(About("DestroyWorkspace", "ws-del")),
           Refused(About("GetWorkspace", "ws-del"), "NotFound")>>) >>

\* The agent that agent-stop-ok and agent-restart-ok exercise.
Throwaway == "stopper"

AgentChecks == <<
    Must("agent-spawn-missing-workspace", <<Refused(SpawnIn(None, "crush", None), "InvalidArgument")>>),
    Must("agent-spawn-missing-template", <<Refused(SpawnIn("arp-test", None, None), "InvalidArgument")>>),
    Must("agent-spawn-unknown-workspace",
         <<Refused(SpawnIn("nonexistent-ws-00000", "crush", "x"), "NotFound")>>),
    Must("agent-spawn-ok-ready",
         <<Showing(Spawn("coder"), {"READY", "direct_url", NewSession("coder")})>>),
    Must("agent-spawn-direct-url-format", <<Showing(Spawn("coder2"), {"direct_url"})>>),
    Must("agent-spawn-no-proxy-without-gateway", <<Sorting(Spawn("coder3"), {}, {"proxy_url"})>>),
    Must("agent-list-ok", <<Expect(Request("ListAgents"))>>),
    Must("agent-list-contains-seeded", <<Showing(Request("ListAgents"), {Echo, Crush})>>),
    Must("agent-list-filter-workspace",
         <<Showing([Request("ListAgents") EXCEPT !.where = "arp-test"], {Echo})>>),
    Must("agent-list-filter-status-ready",
         <<Showing([Request("ListAgents") EXCEPT !.status = "READY"], {Crush})>>),
    Must("agent-list-filter-template",
         <<Sorting([Request("ListAgents") EXCEPT !.template = "echo"], {Echo}, {Crush})>>),
    Must("agent-get-ok",
         <<Showing(About("GetAgentStatus", Crush), {"crush", "arp-test", "direct_url", "READY"})>>),
    Must("agent-get-nonexistent", <<Refused(About("GetAgentStatus", "nonexistent-00000"), "NotFound")>>),
    Must("agent-stop-nonexistent", <<Refused(About("StopAgent", "nonexistent-00000"), "NotFound")>>),
    Must("agent-stop-ok",
         <<Expect(Spawn(Throwaway)), Showing(About("StopAgent", Throwaway), {"STOPPED"})>>),
    Must("agent-restart-nonexistent",
         <<Refused(About("RestartAgent", "nonexistent-00000"), "NotFound")>>),
    Must("agent-restart-ok",
         <<Expect(About("lifecycleID", Throwaway)),
           Showing(About("RestartAgent", Throwaway), {"READY"})>>) >>

\* The agents that may be there when nobody is to be found.
Everybody == {Echo, Crush, "coder", "coder2", "coder3", Throwaway}

DiscoveryChecks == <<
    Must("discover-ok", <<AtLeast(2, Expect(Discover(None)))>>),
    Must("discover-local-scope", <<Expect(Discover(None))>>),
    Must("discover-finds-crush", <<Showing(Discover(None), {Crush})>>),
    Must("discover-capability-crush", <<Sorting(Discover("crush"), {Crush}, {Echo})>>),
    Must("discover-capability-echo", <<Showing(Discover("echo"), {Echo})>>),
    Must("discover-capability-nomatch",
         <<Sorting(Discover("nonexistent-00000"), {}, Everybody)>>),
    Must("watch-agent-nonexistent",
         <<Nested(Refused(About("WatchAgent", "nonexistent-00000"), "NotFound"))>>),
    Must("watch-agent-initial-and-stop",
         <<Expect(Spawn("watched")),
           Nested(Showing(About("WatchAgent", "watched"), {"STATUS_CHANGED"})),
           Expect(About("go StopAgent", "watched")),
           Nested(Expect(About("STOPPED", "watched")))>>),
    Should("watch-workspace-initial-spawns",
         <<Nested(Showing(About("WatchWorkspace", "arp-test"), {"AGENT_SPAWNED"}))>>) >>

TokenChecks == <<
    Must("token-create-ok", <<Expect(Mint("svc", Global, Admin))>>),
    Must("token-create-has-bearer", <<Showing(Mint("svc", Global, Admin), {"arp_"})>>),
    Must("token-create-missing-subject", <<Refused(Mint(None, Global, Admin), "InvalidArgument")>>),
    Must("token-create-missing-scope", <<Refused(Mint("s", NoScope, Admin), "InvalidArgument")>>),
    Must("token-create-missing-permission",
         <<Refused(Mint("s", Global, Unspecified), "InvalidArgument")>>),
    Must("token-create-non-admin-denied",
         <<TokenClient("proj", ProjectWide),
           Refused(By("proj", Mint("child", Global, SessionOnly)), "PermissionDenied")>>),
    Must("token-create-scope-widen-denied",
         <<TokenClient("scoped-admin", Admin),
           Refused(By("scoped-admin", Mint("child", Global, Admin)), "PermissionDenied")>>) >>

IdentityChecks == <<
    Setup(Register("other", "/tmp/other")),
    Setup(Create("ws-other", "other")),
    Must("scope-list-projects-filtered",
         <<TokenClient("scoped", ProjectWide),
           Sorting(By("scoped", Request("ListProjects")), {"myapp"}, {"other"})>>),
    Must("scope-workspace-out-of-scope-denied",
         <<TokenClient("scoped", ProjectWide),
           Refused(By("scoped", About("GetWorkspace", "ws-other")), "PermissionDenied")>>),
    Must("spawn-scope-widen-denied",
         <<TokenClient("scoped", ProjectWide),
           Refused([By("scoped", Spawn("widen")) EXCEPT !.scope = Global], "PermissionDenied")>>),
    Must("spawn-perm-elevate-denied",
         <<TokenClient("scoped", ProjectWide),
           Refused([By("scoped", Spawn("elevate")) EXCEPT !.perm = Admin], "PermissionDenied")>>),
    Must("spawn-scope-narrow-ok",
         <<TokenClient("scoped", ProjectWide),
           Showing([By("scoped", Spawn("narrowed")) EXCEPT !.scope = {"myapp"}], {"READY"})>>),
    Must("session-isolation",
         <<TokenClient("sessA", SessionOnly), TokenClient("sessB", SessionOnly),
           Expect(By("sessA", Spawn("a1"))),
           Showing(By("sessA", Request("ListAgents")), {"a1"}),
           Sorting(By("sessB", Request("ListAgents")), {}, {"a1"}),
           Refused(By("sessB", About("StopAgent", "a1")), "PermissionDenied"),
           Expect(By("sessA", About("GetAgentStatus", "a1")))>>),
    Must("session-propagation",
         <<TokenClient("sessP", SessionOnly),
           Showing(By("sessP", Spawn("p1")), {NewSession("p1")}),
           Showing(By("sessP", Spawn("p2")), {NewSession("p1")})>>),
    Should("project-perm-sees-all-in-project",
         <<TokenClient("lead", ProjectWide),
           Showing(By("lead", Request("ListAgents")), {Crush})>>) >>

EnrichmentChecks == <<
    Must("enrich-no-proxy-without-gateway",
         <<Sorting(About("GetAgentStatus", Crush), {}, {"proxy_url"})>>),
    Must("enrich-direct-url", <<Showing(About("GetAgentStatus", Crush), {"direct_url"})>>),
    Must("enrich-card-arp-metadata",
         <<Showing(About("GetAgentStatus", Crush),
                   {Crush, "direct_url", "READY", "arp-test", "myapp"})>>),
    Must("enrich-card-supported-interface-direct",
         <<Showing(About("GetAgentStatus", Crush), {"interfaces[0] = direct_url"})>>) >>

GatewayChecks == <<
    Should("gateway-proxy-url-populated", <<Showing(About("GetAgentStatus", Crush), {"proxy_url"})>>),
    Should("gateway-card-direct-still-primary",
         <<Showing(About("GetAgentStatus", Crush),
                   {"interfaces[0] = direct_url", "interfaces[1] = proxy_url"})>>),
    Should("gateway-card-metadata-proxy-url",
         <<Showing(About("GetAgentStatus", Crush), {"proxy_url"})>>) >>

\* Run: the groups in their order; the last one starts a server of its own.
Group(checks) == [checks |-> checks, gateway |-> FALSE]
ArpSuite ==
    <<Group(ProjectChecks), Group(WorkspaceChecks), Group(AgentChecks), Group(DiscoveryChecks),
      Group(TokenChecks), Group(IdentityChecks), Group(EnrichmentChecks),
      [checks |-> GatewayChecks, gateway |-> TRUE]>>
=============================================================================
