----------------------------- MODULE ClientRunner -----------------------------
(***************************************************************************)
(* The client conformance tests of internal/clientrunner: the table of     *)
(* tests (a2a_tests.go), the runner that takes them one after another      *)
(* (runner.go), and the driver that runs a process of the client under     *)
(* test for each operation and kills it at the deadline (crush_driver.go). *)
(*                                                                         *)
(* The client is whatever it is: it sends any of its Bodies at any time,   *)
(* and ends well or badly.  What it has sent may reach the mock server     *)
(* after its death.  fault and late are history: has a client of this test *)
(* done what it should not, was a request of an earlier one still under    *)
(* way when the test began.                                                *)
(***************************************************************************)
EXTENDS MockRpc

CONSTANTS
    Filters,       \* the --tags options given, sets of tags
    MaxLate        \* bound: tests through which a request is under way
                   \* while new ones are sent

ASSUME MaxLateAssumption == MaxLate \in Nat

VARIABLES
    tags,          \* the filter of this run
    test,          \* index of the current test
    pc,            \* where runTest is
    op,            \* driver operations begun in this test
    sends,         \* requests sent by the process of this operation
    answers,       \* kinds of the JSON-RPC answers that reached it
    verdict,       \* of this test
    evidence,      \* the recorded request the verdict is about, if any
    expired,       \* the deadline of the test has passed
    fault, late

runner == <<tags, test, pc, op, sends, answers, verdict, evidence, expired, fault, late>>
vars == <<server, runner>>

-----------------------------------------------------------------------------
\* A test asks the client for ops and ignores their errors if lenient; it
\* overrides the answer to SendMessage, if override is not ""; it then looks at
\* the nth recorded request of method for the flaws it forbids.
T(ts, ops, method, nth, forbids) ==
    [tags |-> ts, ops |-> ops, method |-> method, nth |-> nth, forbids |-> forbids,
     override |-> "", lenient |-> FALSE]

Messaging(forbids) == T({"messaging"}, <<"SendMessage">>, "SendMessage", 1, forbids)
Lifecycle(forbids) == T({"lifecycle"}, <<"GetTask">>, "GetTask", 1, forbids)
Streaming(forbids) == T({"streaming"}, <<"SendStreamingMessage">>, "SendStreamingMessage", 1, forbids)
Handles(ops) == T({"response-handling"}, ops, "none", 0, {})

DiscoveryTests == <<T({"discovery"}, <<"Discovery">>, "card", 1, {})>>

EnvelopeTests == <<Messaging({"id"}), Messaging({}), Messaging({"ctype"})>>
MessageTests == <<Messaging({"messageId"}), Messaging({"role"})>>
PartTests == <<Messaging({"parts"}), Messaging({"parts", "content"}), Messaging({})>>

TaskTests == <<Lifecycle({"id"}), Lifecycle({}), Lifecycle({"taskId", "otherTask"})>>

ContextTests ==
    <<T({"messaging", "context"}, <<"SendMessage", "SendMessage">>, "SendMessage", 2, {"contextId"})>>

ResponseTests ==
    <<Handles(<<"SendMessage">>),
      [Handles(<<"SendMessage">>) EXCEPT !.override = "message"],
      [Handles(<<"SendMessage">>) EXCEPT !.override = "error", !.lenient = TRUE],
      [Handles(<<"GetUnknownTask">>) EXCEPT !.lenient = TRUE]>>

StreamingTests == <<Streaming({}), Streaming({"accept"})>>

VersionTests ==
    <<[T({"protocol"}, <<"SendMessage", "GetTask">>, "all", 0, {}) EXCEPT !.lenient = TRUE]>>

\* A mutant: the tests of the overridden responses come before the others.
A2AClientTestsResponsesFirst ==
    DiscoveryTests \o ResponseTests \o EnvelopeTests \o MessageTests \o PartTests \o TaskTests
        \o ContextTests \o StreamingTests \o VersionTests

A2AClientTests ==
    DiscoveryTests \o EnvelopeTests \o MessageTests \o PartTests \o TaskTests
        \o ContextTests \o ResponseTests \o StreamingTests \o VersionTests

\* What the driver asks of a client; each operation is a process of its own.
Operations == {"Discovery", "SendMessage", "GetTask", "GetUnknownTask", "SendStreamingMessage"}

ASSUME ClientsAssumption == Clients = [test : 1..Len(A2AClientTests), op : 1..2]
ASSUME OperationsAssumption == DOMAIN Bodies = Operations

Deprecated == {"message/send", "tasks/get", "tasks/cancel", "message/stream", "tasks/resubscribe"}

Test == A2AClientTests[test]
Op == Test.ops[op]
matchesTags(t) == tags = {} \/ t.tags \cap tags # {}

Me == [test |-> test, op |-> op]

-----------------------------------------------------------------------------
Init ==
    /\ ServerInit
    /\ tags \in Filters /\ test = 1 /\ pc = "next"
    /\ op = 0 /\ sends = 0 /\ answers = {} /\ verdict = "none" /\ evidence = {}
    /\ expired = FALSE /\ fault = FALSE /\ late = FALSE

\* Run: the results of tests that do not match are "skip".
SkipTest ==
    /\ pc = "next" /\ test <= Len(A2AClientTests) /\ ~matchesTags(Test)
    /\ test' = test + 1 /\ verdict' = "none" /\ evidence' = {}
    /\ UNCHANGED <<server, tags, pc, op, sends, answers, expired, fault, late>>

\* runTest: the log of the mock server is reset.
StartTest ==
    /\ pc = "next" /\ test <= Len(A2AClientTests) /\ matchesTags(Test)
    /\ Reset
    /\ pc' = IF Test.override = "" THEN "ask" ELSE "override"
    /\ op' = 0 /\ verdict' = "none" /\ evidence' = {}
    /\ expired' = FALSE /\ fault' = FALSE /\ late' = (arriving # {})
    /\ UNCHANGED <<tags, test, sends, answers>>

OverrideHandler ==
    /\ pc = "override"
    /\ SetHandler("SendMessage", Test.override)
    /\ pc' = "ask"
    /\ UNCHANGED <<tags, test, op, sends, answers, verdict, evidence, expired, fault, late>>

\* The call of the driver is over: the next one, or the verdict.
DriverReturns(failed, n) ==
    IF failed /\ ~Test.lenient
    THEN pc' = "next" /\ verdict' = "fail" /\ test' = test + 1
    ELSE /\ pc' = IF n < Len(Test.ops) THEN "ask" ELSE "judge"
         /\ UNCHANGED <<verdict, test>>

\* The process of the client is no more.
ClientEnds == HangUp(Me) /\ sends' = 0 /\ answers' = {} /\ UNCHANGED <<tags, op, evidence, late>>

\* runCrush starts a process of the client.
StartClient ==
    /\ pc = "ask" /\ ~expired
    /\ op' = op + 1 /\ pc' = "running"
    /\ UNCHANGED <<server, tags, test, sends, answers, verdict, evidence, expired, fault, late>>

\* It cannot be started, or the deadline has passed.
StartFails ==
    /\ pc = "ask"
    /\ op' = op + 1 /\ fault' = TRUE
    /\ DriverReturns(TRUE, op + 1)
    /\ UNCHANGED <<server, tags, sends, answers, evidence, expired, late>>

\* What a client should send: what it is asked for, once and without a flaw, but
\* for the context it cannot know yet; and the agent card as often as it likes.
IsCard(b) == b.path = "/.well-known/agent-card.json" /\ b.http = "GET"
Asked(b) ==
    /\ b.path = "rpc" /\ ~Refused(b)
    /\ b.method = (IF Op = "GetUnknownTask" THEN "GetTask" ELSE Op)
    /\ b.flaws = CASE Op = "GetUnknownTask" -> {"otherTask"}
                   [] Op = "SendMessage" /\ op = 1 -> {"contextId"}
                   [] OTHER -> {}
AskedBefore == \E r \in arriving \cup Range(log) : r.client = Me /\ r.body.path = "rpc"
Proper(b) == IsCard(b) \/ (Asked(b) /\ ~AskedBefore)

SendRequest(b) ==
    /\ sends < MaxSends
    /\ \A r \in arriving \cup serving : r.client.test + MaxLate >= test
    /\ sends' = sends + 1
    /\ Arrive([client |-> Me, n |-> sends + 1, body |-> b])
    /\ fault' = (fault \/ ~Proper(b))
    /\ UNCHANGED <<log, handlers, serving, tags, test, pc, op, answers, verdict, evidence, expired, late>>

\* The server answers the client, which runs.
GetAnswer(r) ==
    /\ Serve(r)
    /\ answers' = IF r.body.path = "rpc"
                  THEN answers \cup {Answer(r.body)} ELSE answers
    /\ UNCHANGED <<tags, test, pc, op, sends, verdict, evidence, expired, fault, late>>

\* What a client should do: end when it has its answer, and badly only for an
\* error.
EndsProperly(failed) ==
    IF Op = "Discovery" THEN ~failed /\ \E r \in Range(log) : r.client = Me /\ IsCard(r.body)
    ELSE answers # {} /\ (failed => answers = {"error"})

ClientExits(failed) ==
    /\ pc = "running"
    /\ fault' = (fault \/ ~EndsProperly(failed))
    /\ DriverReturns(failed, op) /\ ClientEnds
    /\ UNCHANGED expired

\* A mutant: only a client that waits for no answer is killed.
KillIdleClient ==
    /\ pc = "running" /\ arriving \cup serving = {}
    /\ expired' = TRUE /\ fault' = TRUE
    /\ DriverReturns(TRUE, op) /\ ClientEnds

\* The deadline of the test, never after that of the driver, kills the process.
KillClient ==
    /\ pc = "running"
    /\ expired' = TRUE /\ fault' = TRUE
    /\ DriverReturns(TRUE, op) /\ ClientEnds

\* Where in the log the requests are that a test looks at, and the nth of them.
Looked ==
    CASE Test.method = "none" -> {}
      [] Test.method = "card" -> {i \in DOMAIN log : IsCard(log[i].body)}
      [] Test.method = "all" -> {i \in DOMAIN log : MethodOf(log[i]) \in Deprecated}
      [] OTHER -> RequestsByMethod(Test.method)

Nth == {log[i] : i \in {k \in Looked : Cardinality({j \in Looked : j <= k}) = Test.nth}}

Passes ==
    CASE Test.method = "none" -> TRUE
      [] Test.method = "all" -> Looked = {}
      [] OTHER -> \E r \in Nth : r.body.flaws \cap Test.forbids = {}

Judge ==
    /\ pc = "judge"
    /\ verdict' = IF Passes THEN "pass" ELSE "fail"
    /\ evidence' = Nth
    /\ test' = test + 1 /\ pc' = "next"
    /\ UNCHANGED <<server, tags, op, sends, answers, expired, fault, late>>

-----------------------------------------------------------------------------
RunnerStep ==
    SkipTest \/ StartTest \/ OverrideHandler \/ StartClient \/ StartFails \/ KillClient \/ Judge

Alive(r) == pc = "running" /\ r.client = Me

ServerStep ==
    \/ \E r \in arriving :
          /\ Record(r, Alive(r)) \/ Pass(r, Alive(r)) \/ handleInspectReset(r, Alive(r))
          /\ UNCHANGED runner
    \/ \E r \in serving : GetAnswer(r)

ClientStep ==
    \/ pc = "running" /\ \E b \in Bodies[Op] : SendRequest(b)
    \/ \E failed \in BOOLEAN : ClientExits(failed)

Next == RunnerStep \/ ServerStep \/ ClientStep

\* The runner is scheduled and the deadlines come.  Nothing is assumed of the
\* client, nor of when the server gets to a request.
Spec == Init /\ [][Next]_vars /\ WF_vars(RunnerStep)
=============================================================================
