--------------------------- MODULE MCClientRunner ---------------------------
(* Small sets of requests and filters for ClientRunner.                     *)
EXTENDS ClientRunnerProps

B(path, http, method, flaws) == [path |-> path, http |-> http, method |-> method, flaws |-> flaws]
Rpc(method, flaws) == B("rpc", "POST", method, flaws)
Get(path, flaws) == B(path, "GET", "", flaws)

MCClients == [test : 1..20, op : 1..2]
First == {"contextId"}
Bad == {"contextId", "id", "ctype", "messageId", "role", "parts", "content", "accept"}

Arp(end, flaws) == B("/a2a/agents/", "POST", end, flaws)
Card == Get("/.well-known/agent-card.json", {})

MCBodies ==
    [Discovery |-> {Card, B("/.well-known/agent-card.json", "POST", "", {}), Get("/a2a/agents", {}),
                    Get("/a2a/discover", {}), Get("/_inspect/requests", {}), Get("/_inspect/reset", {})},
     SendMessage |-> {Rpc("SendMessage", First), Rpc("SendMessage", {}), Rpc("SendMessage", Bad),
                      Rpc("message/send", First), Rpc("SendMessage", {"version"})},
     GetTask |-> {Rpc("GetTask", {}), Rpc("GetTask", {"id", "otherTask"}), Rpc("GetTask", {"taskId"}),
                  Rpc("tasks/get", {})},
     GetUnknownTask |-> {Rpc("GetTask", {"otherTask"}), Rpc("CancelTask", {"taskId"})}
        \cup {Arp(end, {}) : end \in {"agent-card.json", "message:send", "message:stream", "status"}},
     SendStreamingMessage |-> {Rpc("SendStreamingMessage", {}), Rpc("SendStreamingMessage", Bad),
                               B("/a2a/route/", "POST", "", {}), B("rpc", "GET", "SendStreamingMessage", {})}]

MCFilters == {{}, {"streaming", "protocol"}}
=============================================================================
