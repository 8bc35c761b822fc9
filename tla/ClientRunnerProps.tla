-------------------------- MODULE ClientRunnerProps --------------------------
(* What is claimed of the client tests.                                     *)
EXTENDS ClientRunner

RunnerTypes ==
    /\ tags \in Filters /\ test \in 1..(Len(A2AClientTests) + 1)
    /\ pc \in {"next", "override", "ask", "running", "judge"}
    /\ pc # "next" => test <= Len(A2AClientTests)
    /\ op \in 0..2 /\ sends \in 0..MaxSends
    /\ answers \subseteq Answers
    /\ verdict \in {"none", "pass", "fail"}

FlagTypes == expired \in BOOLEAN /\ fault \in BOOLEAN /\ late \in BOOLEAN

RequestTypes ==
    /\ log \in Seq(Request)
    /\ arriving \cup serving \cup evidence \subseteq Request
    /\ \A r \in arriving \cup Range(log) : r.client.test <= test

HandlerTypes == \A m \in DOMAIN handlers : m \in Methods /\ handlers[m] \in Answers

\* The variables have their types; requests are those of clients of this test
\* and of the ones before, and no process outlives the call that started it.
TypeOK ==
    /\ RunnerTypes /\ FlagTypes /\ RequestTypes /\ HandlerTypes
    /\ pc # "running" => sends = 0 /\ answers = {} /\ serving = {}

\* The test the verdict is about.
Judged == A2AClientTests[test - 1]
Mine(r) == r.client.test = test - 1

\* A test of what the client sends passes on a request that a process of this
\* very test has sent, unless one of an earlier test was still on its way when
\* the log was reset (runner.go:155, server.go:176).
PassesAreEarned ==
    verdict = "pass" /\ ~late /\ Judged.method \notin {"none", "all"} =>
        evidence # {} /\ \A r \in evidence : Mine(r)

\* A client that sends what it is asked for, once, and ends as it is answered
\* passes every test, whatever the tests before it did to the log and to the
\* handlers of the one server they share (runner.go:136-176, a2a_tests.go).
ConformingClientsPass ==
    verdict # "none" /\ ~fault /\ ~late => verdict = "pass"

\* The run ends, whatever the client does (runner.go:146, crush_driver.go:99).
RunEnds == <>(pc = "next" /\ test = Len(A2AClientTests) + 1)
=============================================================================
