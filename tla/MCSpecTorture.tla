--------------------------- MODULE MCSpecTorture ---------------------------
(* Small runtimes, specs and command lines for SpecTorture.                 *)
EXTENDS SpecTortureProps, TLC

V(k, t, kids) == [kind |-> k, text |-> t, kids |-> kids]
Str(t) == V("string", t, NoKids)
Num(t) == V("number", t, NoKids)
Map(kids) == V("map", "map[...]", kids)

done == Str("completed")
pending == Str("pending")
a1 == Str("a1")
n1 == Num("1")
parts == V("array", "[...]", ("0" :> a1) @@ ("1" :> done))
swapped == V("array", "[...]", ("0" :> done) @@ ("1" :> a1))
agent == Map([id |-> a1])
doneBody == Map([status |-> done, id |-> n1])
pendingBody == Map([status |-> pending])
rpcAnswer == Map([jsonrpc |-> Str("2.0"), result |-> agent])
working == Map([parts |-> swapped])
complete == Map([parts |-> parts])
text == V("text", "oops", NoKids)

\* Patterns.
wild == Str("*")
one == Str("1")
wantDone == Map([http_status |-> Num("200"), body |-> Map([status |-> done])])
wantOne == Map([body |-> Map([status |-> wild, id |-> one]), headers |-> Map([type |-> Str("json")])])
wantRpc == Map([jsonrpc |-> wild, result |-> agent])
wantStatusRpc == Map([http_status |-> Num("200"), jsonrpc |-> wild])
wantEvent == Map([sse_event |-> complete])
wantResult == Map([result |-> agent])
wantBody == Map([body |-> wild])
condition == Map([condition |-> Str("status in [completed]")])

Roots == {doneBody, pendingBody, rpcAnswer, working, complete, text, wantDone, wantOne, wantRpc,
          wantStatusRpc, wantEvent, wantResult, wantBody, condition, parts, Nil}
Kids(S) == UNION {{v.kids[k] : k \in DOMAIN v.kids} : v \in S}
MCJson == Roots \union Kids(Roots) \union Kids(Kids(Roots)) \union Kids(Kids(Kids(Roots)))
MCDepth == [v \in MCJson |-> IF v \in Kids(Kids(Kids(Roots))) THEN 0 ELSE
                             IF v \in Kids(Kids(Roots)) THEN 1 ELSE
                             IF v \in Kids(Roots) THEN 2 ELSE 3]
MCConditions == "status in [completed]" :> [path |-> <<"status">>, values |-> {"completed"}]

W(status, type, content) ==
    [status |-> status, headers |-> [type |-> {type}], type |-> type, content |-> content]
MCWires == {W("200", "json", doneBody), W("200", "json", pendingBody), W("500", "json", rpcAnswer),
            W("200", "json", parts), W("200", "text/event-stream", text)}
MCEvents == {working, complete, text}

S(action) ==
    [action |-> action, keys |-> {"http_method"}, streaming |-> FALSE, poll |-> NoPoll,
     args |-> NoKids, refs |-> NoKids, tool |-> "", expect |-> Nil]
Rpc == [S("send") EXCEPT !.keys = {"jsonrpc"}]
Polls(n) == [S("send") EXCEPT !.poll = n]
Expects(e) == [S("expect") EXCEPT !.expect = e]
Asserts(e) == [S("assert") EXCEPT !.expect = e]
Calls(t, args, refs) == [S("mcp_tool_call") EXCEPT !.tool = t, !.args = args, !.refs = refs]

C(id, tags, ss) == [id |-> id, tags |-> tags, steps |-> ss]
Sp(id, version, transport, cases) ==
    [id |-> id, version |-> version, transport |-> transport, cases |-> cases]

\* A call of a tool that names x.
About(x, t) ==
    LET p == RouteOf(t).param
    IN  <<Calls(t, [a \in ({p, "other"} \ {NoParam}) |-> x], NoKids)>>

\* Names that are not one segment of a path.
MCSpecial == ("a/b" :> [path |-> <<"a", "b">>, ends |-> FALSE])
          @@ ("a?b" :> [path |-> <<"a">>, ends |-> TRUE])

MCSpecs ==
    {Sp("arp", 1, "http-rest",
        <<C("poll", {"slow"}, <<Polls(2), Expects(wantDone), S("send"), Expects(wantOne)>>),
          C("zero", {}, <<Polls(0), Expects(wantDone)>>)>>),
     Sp("arp", 2, "mcp-and-http",
        <<C("tool", {}, <<S("send"), Calls("agent/stop", [agent_id |-> "$prev.id"], [agent_id |-> <<"id">>]),
                          Expects(wantResult), Asserts(condition)>>),
          C("bad-poll", {}, <<Polls(BadPoll)>>)>>),
     Sp("a2a", 1, "jsonrpc-http",
        <<C("rpc", {}, <<Rpc, Expects(wantRpc), [Rpc EXCEPT !.keys = {"raw_body"}], Expects(wantStatusRpc)>>),
          C("stream", {}, <<[Rpc EXCEPT !.streaming = TRUE], Expects(wantEvent)>>),
          C("none", {}, <<[Rpc EXCEPT !.keys = {}]>>)>>),
     Sp("grpc", 1, "grpc", <<C("only", {}, <<S("send")>>)>>),
     Sp("dup", 1, "http-rest", <<C("same", {}, <<S("wait")>>), C("same", {}, <<S("wait")>>)>>),
     Sp("misc", 1, "http-rest",
        <<C("wait", {}, <<S("wait"), S("exec")>>), C("unknown", {}, <<S("reboot")>>),
          C("empty", {}, <<>>), C("body", {}, <<S("send"), Expects(wantBody)>>)>>)}
    \union {Sp("tools", 1, "mcp-and-http", <<C(t, {}, About("x", t))>>) : t \in Tools}
    \union {Sp("names", 1, "mcp-and-http", <<C("stop", {}, About(x, "agent/stop"))>>) :
              x \in {"", "..", "a/b", "a?b"}}

MCConfigs == {[url |-> TRUE, tags |-> {}], [url |-> FALSE, tags |-> {}], [url |-> TRUE, tags |-> {"slow"}]}
=============================================================================
