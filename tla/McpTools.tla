------------------------------ MODULE McpTools ------------------------------
(***************************************************************************)
(* The translation of an MCP tool call to an HTTP request (internal/       *)
(* runner/mcp_translator.go), and the routes of the daemon that answers    *)
(* (internal/mockserver).  Arguments are a function from their names to    *)
(* their texts; a path is the sequence of what stands between its slashes. *)
(* Texts with a "%" or a control character, of which the URL would have a  *)
(* reading of its own, are left out.  Of a query only the names are kept.  *)
(***************************************************************************)
EXTENDS Naturals, Sequences, FiniteSets, SequencesExt

CONSTANT
    Special   \* the texts with a "/", a "?" or a "#" in them: as a function to the segments
              \* they are up to the first "?" or "#" and whether there is one

NoParam == ""
Route(method, path, param, query, bodyFromArgs) ==
    [method |-> method, path |-> path, param |-> param, query |-> query,
     bodyFromArgs |-> bodyFromArgs]

Tools ==
    {"project/register", "project/list", "project/get", "project/unregister",
     "workspace/create", "workspace/list", "workspace/get", "workspace/destroy",
     "agent/spawn", "agent/list", "agent/status", "agent/stop", "agent/restart",
     "agent/send_message"}

mcpToolRoutes ==
    [tool \in Tools |->
        CASE tool = "project/register" -> Route("POST", <<"api", "projects">>, NoParam, {}, TRUE)
          [] tool = "project/list" -> Route("GET", <<"api", "projects">>, NoParam, {}, FALSE)
          [] tool = "project/get" -> Route("GET", <<"api", "projects">>, "name", {}, FALSE)
          [] tool = "project/unregister" -> Route("DELETE", <<"api", "projects">>, "name", {}, FALSE)
          [] tool = "workspace/create" -> Route("POST", <<"api", "workspaces">>, NoParam, {}, TRUE)
          [] tool = "workspace/list" ->
                Route("GET", <<"api", "workspaces">>, NoParam, {"project", "status"}, FALSE)
          [] tool = "workspace/get" -> Route("GET", <<"api", "workspaces">>, "name", {}, FALSE)
          [] tool = "workspace/destroy" ->
                Route("DELETE", <<"api", "workspaces">>, "name", {}, FALSE)
          [] tool = "agent/spawn" -> Route("POST", <<"api", "agents">>, NoParam, {}, TRUE)
          [] tool = "agent/list" ->
                Route("GET", <<"api", "agents">>, NoParam, {"workspace", "status", "template"}, FALSE)
          [] tool = "agent/status" -> Route("GET", <<"api", "agents">>, "agent_id", {}, FALSE)
          [] tool \in {"agent/stop", "agent/restart"} ->
                Route("POST", <<"api", "agents">>, "agent_id", {}, FALSE)
          [] tool = "agent/send_message" ->
                Route("POST", <<"a2a", "agents">>, "agent_id", {}, TRUE)]

SubAction(tool) ==
    CASE tool = "agent/stop" -> <<"stop">>
      [] tool = "agent/restart" -> <<"restart">>
      [] tool = "agent/send_message" -> <<"message:send">>
      [] OTHER -> <<>>

Segments(text) == IF text \in DOMAIN Special THEN Special[text].path ELSE <<text>>
EndsPath(text) == text \in DOMAIN Special /\ Special[text].ends

RouteOf(tool) ==
    IF tool \in Tools THEN mcpToolRoutes[tool]
    ELSE Route("POST", <<"api">> \o Segments(tool), NoParam, {}, TRUE)

\* The arguments that travel in the body: the one in the path is left out of
\* it, unless it is the only argument.
BodyOf(route, args) ==
    IF route.method = "POST" /\ route.param # NoParam /\ Cardinality(DOMAIN args) > 1
    THEN DOMAIN args \ {route.param}
    ELSE IF route.bodyFromArgs THEN DOMAIN args ELSE {}

\* A text that is one segment of a path wherever it stands in one.
Plain(text) == text \notin DOMAIN Special \union {"", ".", ".."}

\* The argument is put into the path as it is.  After a "?" or "#" in it comes no path.
Given(route, args) == route.param # NoParam /\ route.param \in DOMAIN args

\* A mutant: the sub-action stands before the agent.
PathOfActionFirst(tool, route, args) ==
    route.path \o SubAction(tool) \o
        (IF Given(route, args) THEN Segments(args[route.param]) ELSE <<>>)
PathOf(tool, route, args) ==
    IF ~Given(route, args) THEN route.path \o SubAction(tool)
    ELSE IF EndsPath(args[route.param]) THEN route.path \o Segments(args[route.param])
    ELSE route.path \o Segments(args[route.param]) \o SubAction(tool)

translateMCPToolCall(tool, args) ==
    LET route == RouteOf(tool) IN
    [method |-> route.method, path |-> PathOf(tool, route, args),
     query |-> route.query \intersect DOMAIN args, body |-> BodyOf(route, args)]

-----------------------------------------------------------------------------
\* What the daemon's handlers do, by path and method: registerARPLifecycle-
\* Handlers and the handlers it names, and handleCatchAll for the rest.
Collections ==
    [projects |-> [GET |-> "project/list", POST |-> "project/register"],
     workspaces |-> [GET |-> "workspace/list", POST |-> "workspace/create"],
     agents |-> [GET |-> "agent/list", POST |-> "agent/spawn"]]

Members ==
    [projects |-> [GET |-> "project/get", DELETE |-> "project/unregister"],
     workspaces |-> [GET |-> "workspace/get", DELETE |-> "workspace/destroy"]]

Dispatch(handlers, key) ==
    IF key \in DOMAIN handlers THEN handlers[key] ELSE "method not allowed"

AgentOperation(method, action) ==
    CASE method = "GET" /\ action \in {<<>>, <<"">>} -> "agent/status"
      [] method = "POST" /\ action = <<"stop">> -> "agent/stop"
      [] method = "POST" /\ action = <<"restart">> -> "agent/restart"
      [] OTHER -> "method not allowed"

\* An operation, and the project, workspace or agent it is about, if any.
Does(tool, on) == [tool |-> tool, on |-> on]

Operation(path, method) ==
    LET resource == path[2]
        depth == Len(path)
        name == SubSeq(path, 3, depth)
    IN  CASE depth > 2 /\ path[1] = "a2a" /\ resource = "agents" ->
               Does(IF depth > 3 /\ path[depth] = "message:send" THEN "agent/send_message"
                    ELSE "ok", <<path[3]>>)
          [] depth = 2 /\ path[1] = "api" /\ resource \in DOMAIN Collections ->
               Does(Dispatch(Collections[resource], method), <<>>)
          [] depth > 2 /\ path[1] = "api" /\ resource \in DOMAIN Members ->
               Does(IF name = <<"">> THEN "name required" ELSE Dispatch(Members[resource], method),
                    name)
          [] depth > 2 /\ path[1] = "api" /\ resource = "agents" ->
               Does(AgentOperation(method, SubSeq(path, 4, depth)), <<path[3]>>)
          [] OTHER -> Does("JSON-RPC", <<>>)

\* http.ServeMux redirects from a path that it would write otherwise.
Clean(path) ==
    \A i \in DOMAIN path : path[i] \notin {".", ".."} /\ (path[i] = "" => i = Len(path))

CleanPath(path) ==
    LET Walk(done, segment) ==
            CASE segment \in {"", "."} -> done
              [] segment = ".." -> IF done = <<>> THEN done ELSE Front(done)
              [] OTHER -> Append(done, segment)
        walked == FoldLeft(Walk, <<>>, path)
    IN  IF walked = <<>> \/ Last(path) = "" THEN Append(walked, "") ELSE walked

\* What comes of a request.  The client follows a redirect with GET (status 301) or
\* with the method it has used (307), depending on the version of the library.
Outcomes(req) ==
    IF Clean(req.path) THEN {Operation(req.path, req.method)}
    ELSE {Operation(CleanPath(req.path), method) : method \in {req.method, "GET"}}
=============================================================================
