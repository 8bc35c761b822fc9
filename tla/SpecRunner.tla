----------------------------- MODULE SpecRunner -----------------------------
(***************************************************************************)
(* Runner.Run of internal/runner: the cases of a spec, one after the       *)
(* other, against a runtime that answers what and when it likes.           *)
(*                                                                         *)
(* A case has a transport of its own and a deadline; it ends with the      *)
(* first step that does not pass.  A send is an exchange: the request      *)
(* leaves (Send), the runtime answers (Answered), fails or keeps silent    *)
(* until the deadline; polls and event streams take several answers.       *)
(***************************************************************************)
EXTENDS Evaluator, McpTools

CONSTANTS
    Wires,       \* answers: [status, headers, type, content]
    Events,      \* what an event of a stream may be
    MaxEvents    \* bound: events of one stream that parse

\* A runtime answers with a status, and an object or an array is not the empty text.
ASSUME AnswersAssumption ==
    /\ Events \subseteq Json
    /\ \A wire \in Wires :
        /\ wire.status # "0" /\ wire.content \in Json
        /\ wire.content.kind \in {"map", "array"} => wire.content.text # ""

VARIABLES
    spec,        \* the spec being run: [id, version, transport, cases]
    cfg,         \* [url, tags]; without a URL the cases run in containers
    pc,          \* where the runner is
    results,     \* run.Results
    steps,       \* the step results of the current case
    last,        \* transport.lastResp
    attempt,     \* of a poll
    events,      \* what the reader of an event stream has appended so far
    expired,     \* testCtx is done
    containers,  \* the containers there are, by run and case
    request,     \* the request of the latest tool call
    heard        \* what the runtime answered in this case: step and response

rvars == <<spec, cfg, pc, results, steps, last, attempt, events, expired, request, heard>>

Statuses == {"pass", "fail", "error", "skip", "timeout"}
Transports == {"jsonrpc-stdio", "jsonrpc-http", "http-rest", "grpc", "mcp-and-http"}
Actions == {"send", "expect", "wait", "assert", "exec", "mcp_tool_call"}
NoPoll == 99
BadPoll == 98
NoRequest == [method |-> "none"]

-----------------------------------------------------------------------------
Case == spec.cases[Len(results) + 1]
Step == Case.steps[Len(steps) + 1]
Passing == \A i \in DOMAIN steps : steps[i].status = "pass"
MoreSteps == Passing /\ Len(steps) < Len(Case.steps)

\* createTransport
Transport ==
    CASE spec.transport = "jsonrpc-http" -> "jsonrpc"
      [] spec.transport \in {"http-rest", "mcp-and-http"} -> "http"
      [] OTHER -> "none"

matchesTags == cfg.tags = {} \/ Case.tags \intersect cfg.tags # {}

\* interpolateVars: an argument may be a reference into the last response;
\* one that leads nowhere becomes the text "<nil>".
Arguments(step) ==
    [a \in DOMAIN step.args |->
        IF a \in DOMAIN step.refs /\ last # NoResponse
        THEN resolveJSONPath(mergeResponseData(last), step.refs[a]).text
        ELSE step.args[a]]

\* The transport tells requests apart by the keys of the payload.
Kind(step) ==
    IF step.action = "mcp_tool_call" \/ Transport = "http" \/ "http_method" \in step.keys THEN "http"
    ELSE IF "raw_body" \in step.keys THEN "raw"
    ELSE IF "jsonrpc" \notin step.keys THEN "none"
    ELSE IF step.streaming THEN "stream" ELSE "rpc"

Poll(step) == IF Transport = "http" /\ step.action = "send" THEN step.poll ELSE NoPoll

\* How an answer is read.
StatusLine(wire) == [NoResponse EXCEPT !.status = wire.status, !.headers = wire.headers]

\* sendHTTP: the body is an object, an array, or text.
ReadPlain(wire) ==
    LET base == [StatusLine(wire) EXCEPT !.raw = wire.content.text # ""]
    IN  CASE wire.content.kind = "map"   -> [base EXCEPT !.body = wire.content]
          [] wire.content.kind = "array" -> [base EXCEPT !.array = wire.content]
          [] OTHER -> base

\* sendJSONRPC: an object that says "jsonrpc" is a JSON-RPC response.
ReadRPC(wire) ==
    IF wire.content.kind = "map" /\ Has(wire.content, "jsonrpc")
    THEN [ReadPlain(wire) EXCEPT !.rpc = wire.content, !.body = NoResponse.body]
    ELSE ReadPlain(wire)

\* sendRaw reads as sendJSONRPC does.
Received(kind, wire) == IF kind = "http" THEN ReadPlain(wire) ELSE ReadRPC(wire)

\* sendJSONRPCStreaming: the events of a stream are yet to come.
Streamed(wire) == StatusLine(wire)

\* A poll ends early at these values of the body's field "status".
Terminal(resp) ==
    /\ Has(resp.body, "status")
    /\ resp.body.kids["status"].text
          \in {"completed", "failed", "cancelled", "ready", "stopped", "error"}

-----------------------------------------------------------------------------
RunnerInit ==
    /\ results = <<>> /\ steps = <<>> /\ last = NoResponse /\ attempt = 0
    /\ events = <<>> /\ expired = FALSE /\ containers = {}
    /\ request = NoRequest /\ heard = <<>>

\* The next step result; the loop of the case goes on with it.
StepDone(status, actual) ==
    /\ steps' = Append(steps, [action |-> Step.action, status |-> status, actual |-> actual])
    /\ pc' = "step"

\* The next case result.
Conclude(status, started) ==
    /\ results' = Append(results, [case |-> Case.id, status |-> status,
                                   steps |-> steps, started |-> started])
    /\ steps' = <<>>
    /\ pc' = "case"

\* time.Now: later than what has been recorded so far.
Now == Len(results) + 1

\* A case none of whose tags is asked for.
Skip ==
    /\ pc = "case" /\ Len(results) < Len(spec.cases)
    /\ ~matchesTags
    /\ Conclude("skip", 0)
    /\ UNCHANGED <<spec, cfg, last, attempt, events, expired, containers, request, heard>>

Starting == pc = "case" /\ Len(results) < Len(spec.cases) /\ matchesTags

\* A mutant: the transport, and with it the last response, is kept.
StartCaseHTTPKeeping ==
    /\ Starting /\ cfg.url
    /\ IF Transport = "none" THEN Conclude("error", Now) ELSE pc' = "step" /\ UNCHANGED <<results, steps>>
    /\ expired' = FALSE /\ heard' = <<>> /\ request' = NoRequest
    /\ UNCHANGED <<spec, cfg, last, attempt, events, containers>>

StartCaseHTTP ==
    /\ Starting /\ cfg.url
    /\ IF Transport = "none" THEN Conclude("error", Now) ELSE pc' = "step" /\ UNCHANGED <<results, steps>>
    /\ last' = NoResponse
    /\ expired' = FALSE /\ heard' = <<>> /\ request' = NoRequest
    /\ UNCHANGED <<spec, cfg, attempt, events, containers>>

\* A mutant: a request that is under way has no deadline.
DeadlineBetweenRequests ==
    /\ pc \in {"step", "between", "reading", "created"} /\ ~expired
    /\ expired' = TRUE
    /\ UNCHANGED <<spec, cfg, pc, results, steps, last, attempt, events, containers, request, heard>>

\* The deadline of the case: tc.Timeout, the runner's or 30 seconds.
Deadline ==
    /\ pc \in {"step", "sent", "between", "reading", "created"} /\ ~expired
    /\ expired' = TRUE
    /\ UNCHANGED <<spec, cfg, pc, results, steps, last, attempt, events, containers, request, heard>>

-----------------------------------------------------------------------------
AtStep(actions) == pc = "step" /\ cfg.url /\ MoreSteps /\ Step.action \in actions

\* Send: it may fail, or end, before anything is sent.  A poll of no attempts
\* returns no response and no error.
Send ==
    /\ AtStep({"send", "mcp_tool_call"})
    /\ request' = IF Step.action = "mcp_tool_call"
                  THEN translateMCPToolCall(Step.tool, Arguments(Step)) ELSE request
    /\ IF Kind(Step) = "none" \/ Poll(Step) = BadPoll THEN StepDone("error", NoResponse)
       ELSE IF Poll(Step) = 0 THEN StepDone("pass", NoResponse)
       ELSE pc' = "sent" /\ UNCHANGED steps
    /\ attempt' = 1
    /\ UNCHANGED <<spec, cfg, results, last, events, expired, containers, heard>>

Polling == Poll(Step) # NoPoll

\* The transport keeps the response.
Keep(resp) ==
    /\ last' = resp
    /\ heard' = Append(heard, [step |-> Len(steps) + 1, resp |-> resp])

Answered(wire) ==
    /\ pc = "sent" /\ ~expired
    /\ IF Kind(Step) = "stream" /\ wire.type = "text/event-stream"
       THEN /\ pc' = "reading" /\ events' = <<>>
            /\ heard' = Append(heard, [step |-> Len(steps) + 1, resp |-> Streamed(wire)])
            /\ UNCHANGED <<steps, last>>
       ELSE LET resp == Received(Kind(Step), wire) IN
            /\ Keep(resp)
            /\ IF Polling /\ ~Terminal(resp) /\ attempt < Poll(Step)
               THEN pc' = "between" /\ UNCHANGED steps
               ELSE StepDone("pass", resp)
            /\ UNCHANGED events
    /\ UNCHANGED <<spec, cfg, results, attempt, expired, containers, request>>

\* A mutant: the last attempt of a poll is repeated too.
RequestFailsRepeating ==
    /\ pc = "sent"
    /\ IF Polling /\ attempt <= Poll(Step) THEN pc' = "between" /\ UNCHANGED steps
       ELSE StepDone("error", NoResponse)
    /\ UNCHANGED <<spec, cfg, results, last, attempt, events, expired, containers, request, heard>>

\* The connection fails, or the deadline ends the wait for an answer.
RequestFails ==
    /\ pc = "sent"
    /\ IF Polling /\ attempt < Poll(Step) THEN pc' = "between" /\ UNCHANGED steps
       ELSE StepDone("error", NoResponse)
    /\ UNCHANGED <<spec, cfg, results, last, attempt, events, expired, containers, request, heard>>

\* Between two attempts the poll waits for its interval or the deadline.
PollAgain ==
    /\ pc = "between"
    /\ attempt' = attempt + 1 /\ pc' = "sent"
    /\ UNCHANGED <<spec, cfg, results, steps, last, events, expired, containers, request, heard>>

PollCancelled ==
    /\ pc = "between" /\ expired
    /\ StepDone("error", NoResponse)
    /\ UNCHANGED <<spec, cfg, results, last, attempt, events, expired, containers, request, heard>>

\* parseSSEStream: the goroutine that reads appends the events that parse.
EventArrives(e) ==
    /\ pc = "reading" /\ ~expired
    /\ Len(events) < MaxEvents
    /\ events' = IF e.kind = "map" THEN Append(events, e) ELSE events
    /\ heard' = [heard EXCEPT ![Len(heard)].resp.events = events']
    /\ UNCHANGED <<spec, cfg, pc, results, steps, last, attempt, expired, containers, request>>

EndStream(received) ==
    LET resp == [heard[Len(heard)].resp EXCEPT !.events = received] IN
    /\ last' = resp
    /\ StepDone("pass", resp)
    /\ UNCHANGED <<spec, cfg, results, attempt, events, expired, containers, request, heard>>

\* The stream ends, or the deadline cuts it off: the reader is done.
StreamEnds == pc = "reading" /\ EndStream(events)

\* The ten seconds of the reader are over.  It goes on appending to the events
\* that are returned: the reader may not have been seen to write the last ones.
ReaderTimesOut == pc = "reading" /\ \E n \in 0..Len(events) : EndStream(SubSeq(events, 1, n))

\* The steps that judge the last response.
Judge(passes) ==
    /\ IF last = NoResponse THEN StepDone("error", NoResponse)
       ELSE StepDone(IF passes THEN "pass" ELSE "fail", last)
    /\ UNCHANGED <<spec, cfg, results, last, attempt, events, expired, containers, request, heard>>

ExpectStep == AtStep({"expect"}) /\ Judge(matchExpect(last, Step.expect))
AssertStep == AtStep({"assert"}) /\ Judge(evaluateAssert(Step.expect, last))

WaitStep ==
    /\ AtStep({"wait"})
    /\ IF expired THEN StepDone("timeout", NoResponse) ELSE StepDone("pass", NoResponse)
    /\ UNCHANGED <<spec, cfg, results, last, attempt, events, expired, containers, request, heard>>

\* exec is not supported, other actions are not known.
OtherStep ==
    /\ AtStep({Step.action} \ (Actions \ {"exec"}))
    /\ StepDone(IF Step.action = "exec" THEN "skip" ELSE "error", NoResponse)
    /\ UNCHANGED <<spec, cfg, results, last, attempt, events, expired, containers, request, heard>>

\* A mutant: only failures and errors count.
VerdictOfFailures ==
    IF \E i \in DOMAIN steps : steps[i].status \in {"fail", "error"}
    THEN steps[Len(steps)].status ELSE "pass"

\* The status of the first step that did not pass, or "pass".
Verdict == IF Passing THEN "pass" ELSE steps[Len(steps)].status

EndCaseHTTP ==
    /\ pc = "step" /\ cfg.url /\ ~MoreSteps
    /\ Conclude(Verdict, Now)
    /\ UNCHANGED <<spec, cfg, last, attempt, events, expired, containers, request, heard>>
=============================================================================
