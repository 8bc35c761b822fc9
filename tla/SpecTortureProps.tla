-------------------------- MODULE SpecTortureProps --------------------------
(* What is claimed of a run of a spec and of what is stored of it.          *)
EXTENDS SpecTorture

\* The variables have their types; a poll makes no more attempts than allowed,
\* and no result is recorded for a case that is not in the spec.
TypeOK ==
    /\ spec \in Specs /\ cfg \in Configs
    /\ pc \in {"idle", "saveSpec", "clearCases", "saveCases", "case", "step", "sent", "between",
               "reading", "created", "saveRun", "saveResults"}
    /\ Len(results) <= Len(spec.cases)
    /\ steps # <<>> => Len(results) < Len(spec.cases) /\ Len(steps) <= Len(Case.steps)
    /\ \A i \in DOMAIN results : results[i].status \in Statuses
    /\ \A i \in DOMAIN steps : steps[i].status \in Statuses
    /\ pc \in {"sent", "between"} => attempt \in 1..(IF Polling THEN Poll(Step) ELSE 1)
    /\ expired \in BOOLEAN /\ runId \in 0..MaxRuns
    /\ \A r \in db.results \union tx.results : r.status \in Statuses

\* A case passes when all its steps were taken and passed; otherwise its status
\* is that of the one step that did not, and nothing was done after it
\* (runner.go:138-151).  Cases are in the order of the spec.
VerdictsFollowSteps ==
    \A i \in DOMAIN results :
        LET r == results[i]
            n == Len(r.steps)
        IN  /\ r.case = spec.cases[i].id
            /\ \A j \in 1..(n - 1) : r.steps[j].status = "pass"
            /\ n > 0 => r.status = r.steps[n].status
            /\ r.status = "pass" => n = Len(spec.cases[i].steps)
            /\ n = 0 => \/ r.status = "pass" /\ spec.cases[i].steps = <<>>
                        \/ r.status = "skip" /\ r.started = 0
                        \/ r.status = "error" /\ (~cfg.url \/ Transport = "none")

\* resp is one of the answers heard, or a beginning of a stream of events.
From(resp, answer) ==
    /\ [resp EXCEPT !.events = <<>>] = [answer EXCEPT !.events = <<>>]
    /\ resp.events = SubSeq(answer.events, 1, Len(resp.events))

Before(i) == {k \in DOMAIN heard : heard[k].step < i}

\* A step judges the latest answer of its own case, and a send passes with an
\* answer to its own request, unless it is a poll that makes no attempt
\* (http_runner.go:153, transport.lastResp).
AnswersAreTheirOwn ==
    \A i \in DOMAIN steps : steps[i].actual # NoResponse =>
        IF steps[i].action \in {"expect", "assert"}
        THEN /\ Before(i) # {}
             /\ From(steps[i].actual,
                     heard[CHOOSE k \in Before(i) : \A j \in Before(i) : j <= k].resp)
        ELSE \E k \in DOMAIN heard : heard[k].step = i /\ From(steps[i].actual, heard[k].resp)

-----------------------------------------------------------------------------
\* Another account of the partial match: by the paths of the pattern.
Paths[v \in Json] ==
    {<<>>} \union UNION {{<<k>> \o p : p \in Paths[v.kids[k]]} : k \in DOMAIN v.kids}

Reaches(v, p) ==
    \A n \in 1..Len(p) : Has(resolveJSONPath(v, SubSeq(p, 1, n - 1)), p[n])

Describes(e, a) ==
    \A p \in Paths[e] :
        LET want == resolveJSONPath(e, p)
            got == resolveJSONPath(a, p)
        IN  /\ Reaches(a, p)
            /\ want.kind # "string" => got.kind = want.kind
            /\ want.kind = "string" => want.text \in {"*", got.text}
            /\ want.kind \notin {"map", "array", "string"} => got.text = want.text

Anything(want) == want.kind = "string" /\ want.text = "*"

\* What the keys of an expectation mean, response by response.
Holds(k, want, resp) ==
    CASE k = "http_status" -> want.kind = "number" /\ want.text = resp.status
      [] k = "body" -> \/ Anything(want) /\ resp.raw
                       \/ want.kind = "map" /\ resp.body # Nil /\ Describes(want, resp.body)
      [] k = "headers" -> /\ want.kind = "map"
                          /\ \A h \in DOMAIN want.kids :
                                /\ h \in DOMAIN resp.headers
                                /\ want.kids[h].text \in resp.headers[h] \union {"*"}
      [] k = "sse_event" -> \E i \in DOMAIN resp.events :
                               \/ Anything(want)
                               \/ want.kind = "map" /\ Describes(want, resp.events[i])
      [] OTHER -> Has(resp.rpc, k) /\ Describes(want, resp.rpc.kids[k])

Judged(e) == (DOMAIN e.kids \intersect {"http_status", "headers", "body", "sse_event"})
             \union (IF Has(e, "jsonrpc") THEN {"jsonrpc", "id", "result", "error"} \intersect DOMAIN e.kids
                     ELSE {})

\* The pattern of the i-th step of the current case.
Pattern(i) == Case.steps[i].expect

\* An expect step passes only when the response satisfies the keys it judges,
\* and fails only when there is one it does not satisfy (transport.go,
\* evaluator.go).  A JSON-RPC expectation is satisfied by the response as a whole.
PassMeansMatch ==
    \A i \in DOMAIN steps : steps[i].action = "expect" =>
        /\ steps[i].status = "pass" =>
              \A k \in Judged(Pattern(i)) : Holds(k, Pattern(i).kids[k], steps[i].actual)
        /\ steps[i].status = "fail" =>
              \/ \E k \in Judged(Pattern(i)) : ~Holds(k, Pattern(i).kids[k], steps[i].actual)
              \/ Has(Pattern(i), "jsonrpc") /\ Judged(Pattern(i)) # DOMAIN Pattern(i).kids
              \/ Has(Pattern(i), "jsonrpc") /\ \E k \in {"http_status", "headers", "body", "sse_event"} :
                    Has(Pattern(i), k)

\* README.md:123, "Match the response against an expected pattern": a passing
\* expectation holds of the response, all its keys (transport.go:121-210).
PatternsHold ==
    \A i \in DOMAIN steps : steps[i].action = "expect" /\ steps[i].status = "pass" =>
        \A k \in DOMAIN Pattern(i).kids : Holds(k, Pattern(i).kids[k], steps[i].actual)

\* A tool call is a request for the operation of the same name of the daemon, about the
\* project, workspace or agent that the tool call names, provided that this name, after
\* references into the last response have been replaced, is one segment of a path: it
\* is put into the path as it is (mcp_translator.go:132-151, arp_lifecycle.go).
ToolsReachTheirOperation ==
    pc = "sent" /\ Step.action = "mcp_tool_call" /\ Step.tool \in Tools =>
        LET param == RouteOf(Step.tool).param
            args == Arguments(Step)
        IN  /\ param = NoParam => Outcomes(request) = {Does(Step.tool, <<>>)}
            /\ param \in DOMAIN args /\ param # NoParam /\ Plain(args[param]) =>
                  Outcomes(request) = {Does(Step.tool, <<args[param]>>)}

-----------------------------------------------------------------------------
Rows(run) == {r \in db.results : r.run = run.id}

\* A stored run has one result for each case of a version of its spec, in the
\* order of the cases but for those that were skipped, and its summary counts
\* them; there are no results without a run (store.go:161-196, 199-259).
StoredRunsAreWhole ==
    /\ \A r \in db.results : \E run \in db.runs : run.id = r.run
    /\ \A run \in db.runs :
          /\ \E s \in Specs :
                /\ s.id = run.spec /\ Cardinality(Rows(run)) = Len(s.cases)
                /\ \A r \in Rows(run) : r.case = s.cases[r.id].id
          /\ run.summary.total = Cardinality(Rows(run))
          /\ \A status \in Statuses :
                run.summary.counts[status] = Cardinality({r \in Rows(run) : r.status = status})
          /\ \A p \in GetTestRun(run.id).before : p[2].started # 0 /\ (p[1].started = 0 \/ p[1].id < p[2].id)

\* The cases stored for a spec are those of the version its row is of, all of
\* them, although two processes may save it (store.go:101-139).
StoredSpecsAreWhole ==
    /\ \A c \in db.cases : \E x \in db.specs : x.id = c.spec
    /\ \A x \in db.specs : \E s \in Specs :
          /\ s.id = x.id /\ s.version = x.version
          /\ {c \in db.cases : c.spec = x.id} =
                {[spec |-> x.id, version |-> x.version, id |-> s.cases[i].id] : i \in DOMAIN s.cases}

\* Outside its case no container is left, but those docker refused to remove, those
\* of a process that died, and those that were still starting when the deadline of
\* their case passed, which the code leaves: it removes them with the context that has
\* just expired (runner.go:203, docker.go:80-82).
NoContainerLeft ==
    pc \notin {"created", "step", "sent", "between", "reading"} =>
        containers \subseteq unremoved.refused \union unremoved.died \union unremoved.late

\* Validate accepts only what can be saved: no case of a valid spec is refused
\* by the store, although "run" does not validate (spec.go:28, store.go:127).
ValidSpecsAreSaved ==
    pc = "saveCases" /\ NextCase <= Len(spec.cases) /\ Validate(spec) =>
        ~Taken(spec.cases[NextCase].id)

\* A run that is begun comes to an end, whatever the runtime does or does not
\* do: no poll, stream or request keeps it (http_runner.go, jsonrpc_runner.go).
RunsEnd == pc # "idle" ~> pc = "idle"
=============================================================================
