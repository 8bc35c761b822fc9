------------------------- MODULE ClientRunner_proofs -------------------------
(***************************************************************************)
(* The client tests with any client, any number of requests and any delay: *)
(* the types, that a test passes on a request of its own client, and that  *)
(* a client that does what it is asked for passes.                         *)
(*                                                                         *)
(* None is inductive.  A request in the log is the test's own because the  *)
(* log was cleared when the test began and, unless one was late, all that  *)
(* was sent since is from clients of this test; and the only client that   *)
(* waits for answers is the one that runs.  A conforming client passes     *)
(* because the log then holds the calls of the test in the order of its    *)
(* operations, each as it was asked for, because each test of the table    *)
(* looks at what it asks for, and because no test that needs the answer to *)
(* a message comes after the one that makes the server answer with errors. *)
(***************************************************************************)
EXTENDS ClientRunnerProps, SequenceTheorems, FiniteSetTheorems, WellFoundedInduction, TLAPS

\* The shape of a row of the table of tests.
OpLists == {<<o>> : o \in Operations} \cup {<<o, p>> : o, p \in Operations}
Overrides == {"", "message", "error"}
Words == SUBSET {"discovery", "messaging", "context", "lifecycle", "streaming", "protocol",
                 "response-handling", "id", "ctype", "messageId", "role", "parts", "content",
                 "taskId", "otherTask", "contextId", "accept"}
Looks == {"none", "card", "all"} \cup Methods
Row == [tags : Words, ops : OpLists, method : Looks, nth : Nat,
        forbids : Words, override : Overrides, lenient : BOOLEAN]

\* Where runTest is tells how many operations were begun.
Progress ==
    /\ pc = "override" => op = 0 /\ Test.override # ""
    /\ pc = "ask" => op < Len(Test.ops)
    /\ pc = "running" => op \in 1..Len(Test.ops)

Unjudged == pc # "next" => verdict = "none"

\* Only the process that runs waits for answers.
Served == \A r \in serving : pc = "running" /\ r.client = Me

\* Unless a request was late, all there is since the reset is the test's own.
Own ==
    pc # "next" /\ ~late => \A r \in arriving \cup Range(log) : r.client.test = test

IInv == TypeOK /\ Progress /\ Unjudged /\ Served /\ Own /\ PassesAreEarned

-----------------------------------------------------------------------------
\* The rows that the helpers of the table make (a2a_tests.go).
LEMMA HelpersTyped ==
    /\ \A forbids \in Words :
          Messaging(forbids) \in Row /\ Lifecycle(forbids) \in Row /\ Streaming(forbids) \in Row
    /\ \A ops \in OpLists :
          /\ Handles(ops) \in Row
          /\ [Handles(ops) EXCEPT !.lenient = TRUE] \in Row
          /\ \A kind \in Overrides :
                /\ [Handles(ops) EXCEPT !.override = kind] \in Row
                /\ [Handles(ops) EXCEPT !.override = kind, !.lenient = TRUE] \in Row
<1>1. /\ <<"SendMessage">> \in OpLists /\ <<"GetTask">> \in OpLists
      /\ <<"SendStreamingMessage">> \in OpLists /\ "" \in Overrides
      /\ {"none", "card", "all", "SendMessage", "GetTask", "SendStreamingMessage"} \subseteq Looks
  BY DEF OpLists, Operations, Overrides, Looks, Methods
<1>4. /\ {} \in Words /\ {"messaging"} \in Words /\ {"lifecycle"} \in Words
      /\ {"streaming"} \in Words /\ {"response-handling"} \in Words
  BY DEF Words
<1>2. \A forbids \in Words :
        Messaging(forbids) \in Row /\ Lifecycle(forbids) \in Row /\ Streaming(forbids) \in Row
  BY <1>1, <1>4 DEF Messaging, Lifecycle, Streaming, T, Row
<1>3. \A ops \in OpLists :
        /\ Handles(ops) \in Row
        /\ [Handles(ops) EXCEPT !.lenient = TRUE] \in Row
        /\ \A kind \in Overrides :
              /\ [Handles(ops) EXCEPT !.override = kind] \in Row
              /\ [Handles(ops) EXCEPT !.override = kind, !.lenient = TRUE] \in Row
  BY <1>1, <1>4 DEF Handles, T, Row
<1> QED BY <1>2, <1>3

\* Every row of the table has one or two operations and an answer to override
\* with, or none (a2a_tests.go:12-625).
LEMMA TableTyped == A2AClientTests \in Seq(Row)
<1>1. /\ <<"Discovery">> \in OpLists /\ <<"SendMessage">> \in OpLists
      /\ <<"GetUnknownTask">> \in OpLists
      /\ <<"SendMessage", "SendMessage">> \in OpLists /\ <<"SendMessage", "GetTask">> \in OpLists
      /\ "" \in Overrides /\ "message" \in Overrides
      /\ "error" \in Overrides
      /\ {"none", "card", "all", "SendMessage", "GetTask", "SendStreamingMessage"} \subseteq Looks
  BY DEF OpLists, Operations, Overrides, Looks, Methods
<1>9. /\ {} \in Words /\ {"discovery"} \in Words /\ {"messaging", "context"} \in Words
      /\ {"protocol"} \in Words /\ {"contextId"} \in Words
      /\ {"id"} \in Words /\ {"ctype"} \in Words /\ {"messageId"} \in Words /\ {"role"} \in Words
      /\ {"parts"} \in Words /\ {"parts", "content"} \in Words /\ {"taskId", "otherTask"} \in Words
      /\ {"accept"} \in Words
  BY DEF Words
<1>2. DiscoveryTests \in Seq(Row)
  <2>1. T({"discovery"}, <<"Discovery">>, "card", 1, {}) \in Row
    BY <1>1, <1>9 DEF T, Row
  <2> QED BY <2>1 DEF DiscoveryTests
<1>3. EnvelopeTests \in Seq(Row) /\ MessageTests \in Seq(Row) /\ PartTests \in Seq(Row)
  <2>1. /\ Messaging({"id"}) \in Row /\ Messaging({}) \in Row /\ Messaging({"ctype"}) \in Row
        /\ Messaging({"messageId"}) \in Row /\ Messaging({"role"}) \in Row
        /\ Messaging({"parts"}) \in Row /\ Messaging({"parts", "content"}) \in Row
    BY <1>1, <1>9, HelpersTyped
  <2> QED BY <2>1 DEF EnvelopeTests, MessageTests, PartTests
<1>4. TaskTests \in Seq(Row)
  <2>1. /\ Lifecycle({"id"}) \in Row /\ Lifecycle({}) \in Row
        /\ Lifecycle({"taskId", "otherTask"}) \in Row
    BY <1>1, <1>9, HelpersTyped
  <2> QED BY <2>1 DEF TaskTests
<1>5. ContextTests \in Seq(Row)
  <2>1. T({"messaging", "context"}, <<"SendMessage", "SendMessage">>, "SendMessage", 2, {"contextId"}) \in Row
    BY <1>1, <1>9 DEF T, Row
  <2> QED BY <2>1 DEF ContextTests
<1>6. ResponseTests \in Seq(Row)
  <2>1. /\ Handles(<<"SendMessage">>) \in Row
        /\ [Handles(<<"SendMessage">>) EXCEPT !.override = "message"] \in Row
        /\ [Handles(<<"SendMessage">>) EXCEPT !.override = "error", !.lenient = TRUE] \in Row
        /\ [Handles(<<"GetUnknownTask">>) EXCEPT !.lenient = TRUE] \in Row
    BY <1>1, <1>9, HelpersTyped
  <2> QED BY <2>1 DEF ResponseTests
<1>7. StreamingTests \in Seq(Row)
  <2>1. Streaming({}) \in Row /\ Streaming({"accept"}) \in Row
    BY <1>1, <1>9, HelpersTyped
  <2> QED BY <2>1 DEF StreamingTests
<1>8. VersionTests \in Seq(Row)
  <2>1. [T({"protocol"}, <<"SendMessage", "GetTask">>, "all", 0, {}) EXCEPT !.lenient = TRUE] \in Row
    BY <1>1, <1>9 DEF T, Row
  <2> QED BY <2>1 DEF VersionTests
<1> QED BY <1>2, <1>3, <1>4, <1>5, <1>6, <1>7, <1>8, ConcatProperties DEF A2AClientTests

\* A test in the range of the table, its operations and its clients.
LEMMA TestTyped ==
    ASSUME test \in 1..Len(A2AClientTests)
    PROVE  /\ Test \in Row
           /\ Len(Test.ops) \in 1..2
           /\ \A i \in 1..Len(Test.ops) : Test.ops[i] \in Operations
<1>1. Test \in Row
  BY TableTyped DEF Test
<1>2. Test.ops \in OpLists
  BY <1>1 DEF Row
<1> QED BY <1>1, <1>2 DEF OpLists

\* The table is finite.
LEMMA Finite == Len(A2AClientTests) \in Nat
BY TableTyped

\* Overridden answers are answers, and what handleRPC gives is one.
LEMMA AnswersTyped ==
    ASSUME HandlerTypes, NEW b
    PROVE  handleRPC(b) \in Answers
BY DEF HandlerTypes, handleRPC, DefaultAnswer, handleSendMessage, handleGetTask,
       handleCancelTask, Answers

\* Requests know the number of their test, those in the log too.
LEMMA RequestsTyped ==
    ASSUME TypeOK
    PROVE  /\ \A r \in Request : r.client \in Clients /\ r.client.test \in Nat
           /\ Range(log) \subseteq Request
           /\ \A r \in arriving \cup Range(log) : r.client.test \in Nat /\ r.client.test <= test
           /\ test \in Nat \ {0}
           /\ test <= Len(A2AClientTests) => test \in 1..Len(A2AClientTests)
<1>1. \A r \in Request : r.client \in Clients
  BY DEF Request
<1>2. \A c \in Clients : c.test \in Nat
  BY Finite, ClientsAssumption
<1>3. Range(log) \subseteq Request
  BY DEF TypeOK, RequestTypes, Range
<1>4. test \in Nat \ {0} /\ (test <= Len(A2AClientTests) => test \in 1..Len(A2AClientTests))
  BY Finite DEF TypeOK, RunnerTypes
<1> QED BY <1>1, <1>2, <1>3, <1>4 DEF TypeOK, RequestTypes

\* The table at the current test, when there is one.
LEMMA CurrentTest ==
    ASSUME TypeOK, test <= Len(A2AClientTests)
    PROVE  /\ Test \in Row
           /\ Len(Test.ops) \in Nat /\ 0 < Len(Test.ops) /\ Len(Test.ops) <= 2
           /\ \A i \in 1..Len(Test.ops) : Test.ops[i] \in Operations
BY RequestsTyped, TestTyped

\* A log without requests.
LEMMA EmptyLog == Range(<<>>) = {} /\ <<>> \in Seq(Request)
BY DEF Range

-----------------------------------------------------------------------------
\* The run begins with an empty log and no request under way.
LEMMA InitEstablishes == Init => IInv
<1> SUFFICES ASSUME Init PROVE IInv
  OBVIOUS
<1>1. /\ tags \in Filters /\ test = 1 /\ pc = "next" /\ op = 0 /\ sends = 0 /\ answers = {}
      /\ verdict = "none" /\ evidence = {} /\ arriving = {} /\ serving = {}
      /\ expired = FALSE /\ fault = FALSE /\ late = FALSE
      /\ DOMAIN handlers = {} /\ log = <<>>
  BY DEF Init, ServerInit
<1>2. RunnerTypes
  BY <1>1, Finite, BoundsAssumption DEF RunnerTypes
<1>3. RequestTypes /\ HandlerTypes
  BY <1>1, EmptyLog DEF RequestTypes, HandlerTypes
<1>4. FlagTypes
  BY <1>1 DEF FlagTypes
<1> QED BY <1>1, <1>2, <1>3, <1>4
        DEF IInv, TypeOK, Progress, Unjudged, Served, Own, PassesAreEarned

\* A test that does not match leaves no verdict.
LEMMA SkipTestIsSafe == ASSUME IInv, SkipTest PROVE IInv'
<1>1. /\ UNCHANGED <<log, handlers, arriving, serving, tags, pc, op, sends, answers,
                      expired, fault, late>>
      /\ pc = "next" /\ test <= Len(A2AClientTests) /\ test' = test + 1
      /\ verdict' = "none" /\ evidence' = {}
  BY DEF SkipTest, server
<1>2. \A r \in arriving' \cup Range(log') : r.client.test <= test'
  BY <1>1, RequestsTyped DEF IInv
<1>3. RunnerTypes'
  BY <1>1, Finite DEF IInv, TypeOK, RunnerTypes
<1>4. RequestTypes' /\ HandlerTypes'
  BY <1>1, <1>2 DEF IInv, TypeOK, RequestTypes, HandlerTypes
<1>5. FlagTypes'
  BY <1>1 DEF IInv, TypeOK, FlagTypes
<1> QED BY <1>1, <1>3, <1>4, <1>5
        DEF IInv, TypeOK, Progress, Unjudged, Served, Own, PassesAreEarned

\* Reset clears the log: what is there after it is what has been sent since,
\* and what was under way.
LEMMA StartTestIsSafe == ASSUME IInv, StartTest PROVE IInv'
<1>1. /\ UNCHANGED <<handlers, arriving, serving, tags, test, sends, answers>>
      /\ pc = "next" /\ pc' \in {"ask", "override"} /\ op' = 0 /\ verdict' = "none"
      /\ evidence' = {} /\ test <= Len(A2AClientTests) /\ log' = <<>>
  BY DEF StartTest, Reset
<1>2. /\ expired' \in BOOLEAN /\ fault' \in BOOLEAN
      /\ late' \in BOOLEAN /\ (~late' => arriving = {})
      /\ pc' = "override" => Test.override # ""
  BY DEF StartTest
<1>3. Test' = Test /\ Len(Test.ops) \in Nat /\ 0 < Len(Test.ops)
  BY <1>1, CurrentTest DEF IInv, Test
<1>4. RunnerTypes' /\ FlagTypes'
  <2>1. RunnerTypes'
    BY <1>1 DEF IInv, TypeOK, RunnerTypes
  <2>2. FlagTypes'
    BY <1>2 DEF FlagTypes
  <2> QED BY <2>1, <2>2
<1>5. RequestTypes' /\ HandlerTypes'
  BY <1>1, EmptyLog DEF IInv, TypeOK, RequestTypes, HandlerTypes
<1>6. Progress'
  <2>1. op' < Len(Test'.ops)
    BY <1>1, <1>3
  <2>2. pc' = "override" => Test'.override # ""
    BY <1>2, <1>3
  <2> QED BY <1>1, <2>1, <2>2 DEF Progress
<1>8. Unjudged' /\ Served'
  BY <1>1 DEF IInv, Unjudged, Served
<1>7. Own'
  BY <1>1, <1>2, EmptyLog DEF Own
<1> QED BY <1>1, <1>4, <1>5, <1>6, <1>7, <1>8 DEF IInv, TypeOK, PassesAreEarned

\* The handlers hold answers.
LEMMA OverrideHandlerIsSafe == ASSUME IInv, OverrideHandler PROVE IInv'
<1>1. /\ UNCHANGED <<log, arriving, serving, tags, test, op, sends, answers, verdict, evidence,
                      expired, fault, late>>
      /\ pc = "override" /\ pc' = "ask"
      /\ handlers' = [x \in DOMAIN handlers \cup {"SendMessage"} |->
                         IF x = "SendMessage" THEN Test.override ELSE handlers[x]]
  BY DEF OverrideHandler, SetHandler
<1>2. test <= Len(A2AClientTests)
  BY <1>1 DEF IInv, TypeOK, RunnerTypes
<1>3. Test' = Test /\ Len(Test.ops) \in Nat /\ 0 < Len(Test.ops) /\ Test \in Row
  BY <1>1, <1>2, CurrentTest DEF IInv, Test
<1>4. Test.override \in Answers
  BY <1>1, <1>3 DEF IInv, Progress, Row, Overrides, Answers
<1>5. HandlerTypes'
  BY <1>1, <1>4 DEF IInv, TypeOK, HandlerTypes, Methods
<1>6. RunnerTypes' /\ FlagTypes' /\ RequestTypes'
  BY <1>1, <1>2 DEF IInv, TypeOK, RunnerTypes, FlagTypes, RequestTypes
<1>7. Progress'
  <2>1. op' = 0
    BY <1>1 DEF IInv, Progress
  <2>2. op' < Len(Test'.ops)
    BY <2>1, <1>3
  <2>3. (pc = "ask" => op < Len(Test.ops))'
    BY <2>2
  <2>4. (pc = "override" => op = 0 /\ Test.override # "")'
    BY <1>1
  <2>5. (pc = "running" => op \in 1..Len(Test.ops))'
    BY <1>1
  <2> QED BY <2>3, <2>4, <2>5 DEF Progress
<1>8. Unjudged' /\ Served' /\ Own' /\ PassesAreEarned'
  BY <1>1 DEF IInv, Unjudged, Served, Own, PassesAreEarned
<1> QED BY <1>1, <1>5, <1>6, <1>7, <1>8 DEF IInv, TypeOK

-----------------------------------------------------------------------------
\* runCrush starts a process while the deadline has not passed.
LEMMA StartClientIsSafe == ASSUME IInv, StartClient PROVE IInv'
<1>1. /\ UNCHANGED <<log, handlers, arriving, serving, tags, test, sends, answers, verdict,
                      evidence, expired, fault, late>>
      /\ pc = "ask" /\ pc' = "running" /\ op' = op + 1
  BY DEF StartClient, server
<1>2. test <= Len(A2AClientTests) /\ op \in Nat /\ op < Len(Test.ops)
  BY <1>1 DEF IInv, TypeOK, RunnerTypes, Progress
<1>3. Test' = Test /\ Len(Test.ops) \in Nat /\ Len(Test.ops) <= 2
  BY <1>1, <1>2, CurrentTest DEF IInv, Test
<1>4. op' \in 1..Len(Test.ops) /\ op' \in 0..2
  BY <1>1, <1>2, <1>3
<1>5. op' \in 1..Len(Test'.ops)
  BY <1>3, <1>4
<1>6. Progress'
  BY <1>1, <1>5 DEF Progress
<1>7. RunnerTypes'
  BY <1>1, <1>2, <1>4 DEF IInv, TypeOK, RunnerTypes
<1>8. FlagTypes' /\ RequestTypes' /\ HandlerTypes'
  BY <1>1 DEF IInv, TypeOK, FlagTypes, RequestTypes, HandlerTypes
<1>9. Unjudged' /\ Served' /\ Own' /\ PassesAreEarned'
  <2>1. serving' = {}
    BY <1>1 DEF IInv, TypeOK
  <2> QED BY <1>1, <2>1 DEF IInv, Unjudged, Served, Own, PassesAreEarned
<1> QED BY <1>1, <1>6, <1>7, <1>8, <1>9 DEF IInv, TypeOK

\* A call of the driver that is over leaves no process: the test goes on with
\* the next operation, is judged, or has failed (a2a_tests.go:400-414).
LEMMA ReturnIsSafe ==
    ASSUME IInv, pc \in {"ask", "running"},
           log' = log, arriving' = arriving, handlers' = handlers, tags' = tags,
           evidence' = evidence, late' = late,
           op' \in 0..2, serving' = {}, sends' = 0, answers' = {},
           FlagTypes',
           \/ pc' = "next" /\ verdict' = "fail" /\ test' = test + 1
           \/ pc' = "ask" /\ op' < Len(Test.ops) /\ verdict' = verdict /\ test' = test
           \/ pc' = "judge" /\ verdict' = verdict /\ test' = test
    PROVE  IInv'
<1>1. test <= Len(A2AClientTests)
  BY DEF IInv, TypeOK, RunnerTypes
<1>2. RunnerTypes'
  <2>1. test \in Nat \ {0} /\ Len(A2AClientTests) \in Nat
    BY RequestsTyped, Finite DEF IInv
  <2>2. test' \in 1..(Len(A2AClientTests) + 1)
    BY <1>1, <2>1
  <2>3. 0 \in 0..MaxSends
    BY BoundsAssumption
  <2> QED BY <1>1, <2>2, <2>3 DEF IInv, TypeOK, RunnerTypes
<1>3. RequestTypes'
  <2>1. \A r \in arriving \cup Range(log) : r.client.test \in Nat /\ r.client.test <= test
    BY RequestsTyped DEF IInv
  <2>2. test \in Nat /\ test <= test'
    BY RequestsTyped DEF IInv
  <2>3. \A r \in arriving' \cup Range(log') : r.client.test <= test'
    BY <2>1, <2>2
  <2> QED BY <2>3 DEF IInv, TypeOK, RequestTypes
<1>4. HandlerTypes'
  BY DEF IInv, TypeOK, HandlerTypes
<1>5. Progress'
  <2>1. pc' = "ask" => op' < Len(Test'.ops)
    BY DEF Test
  <2> QED BY <2>1 DEF Progress
<1>6. Unjudged' /\ Served' /\ Own'
  BY DEF IInv, Unjudged, Served, Own
<1>7. PassesAreEarned'
  BY DEF IInv, PassesAreEarned, Unjudged
<1> QED BY <1>2, <1>3, <1>4, <1>5, <1>6, <1>7 DEF IInv, TypeOK

\* A client that cannot be started.
LEMMA StartFailsIsSafe == ASSUME IInv, StartFails PROVE IInv'
<1>1. /\ pc = "ask" /\ op' = op + 1
      /\ log' = log /\ arriving' = arriving /\ handlers' = handlers /\ tags' = tags
      /\ evidence' = evidence /\ late' = late
      /\ serving' = serving /\ sends' = sends /\ answers' = answers
  BY DEF StartFails, server
<1>2. expired' = expired /\ fault' = TRUE
  BY DEF StartFails
<1>3. \/ pc' = "next" /\ verdict' = "fail" /\ test' = test + 1
      \/ pc' = "ask" /\ op' < Len(Test.ops) /\ verdict' = verdict /\ test' = test
      \/ pc' = "judge" /\ verdict' = verdict /\ test' = test
  BY DEF StartFails, DriverReturns
<1>4. serving' = {} /\ sends' = 0 /\ answers' = {}
  BY <1>1 DEF IInv, TypeOK
<1>5. op' \in 0..2
  <2>1. test <= Len(A2AClientTests) /\ op \in Nat /\ op < Len(Test.ops)
    BY <1>1 DEF IInv, TypeOK, RunnerTypes, Progress
  <2>2. Len(Test.ops) \in Nat /\ Len(Test.ops) <= 2
    BY <2>1, CurrentTest DEF IInv
  <2> QED BY <1>1, <2>1, <2>2
<1>6. FlagTypes'
  BY <1>1, <1>2 DEF IInv, TypeOK, FlagTypes
<1> QED BY <1>1, <1>3, <1>4, <1>5, <1>6, ReturnIsSafe

\* Only the process that runs waits for answers, so none waits once it is gone.
LEMMA HangUpEndsAll ==
    ASSUME Served, HangUp(Me)
    PROVE  serving' = {} /\ log' = log /\ handlers' = handlers /\ arriving' = arriving
BY DEF Served, HangUp

\* The client ends by itself, or at the deadline.
LEMMA ClientEndsIsSafe ==
    ASSUME IInv, \/ \E failed \in BOOLEAN : ClientExits(failed)
                 \/ KillClient
    PROVE  IInv'
<1>1. /\ pc = "running" /\ op' = op /\ tags' = tags /\ evidence' = evidence /\ late' = late
      /\ sends' = 0 /\ answers' = {} /\ HangUp(Me)
  BY DEF ClientExits, KillClient, ClientEnds
<1>2. \/ pc' = "next" /\ verdict' = "fail" /\ test' = test + 1
      \/ pc' = "ask" /\ op' < Len(Test.ops) /\ verdict' = verdict /\ test' = test
      \/ pc' = "judge" /\ verdict' = verdict /\ test' = test
  BY <1>1 DEF ClientExits, KillClient, DriverReturns
<1>3. serving' = {} /\ log' = log /\ handlers' = handlers /\ arriving' = arriving
  BY <1>1, HangUpEndsAll DEF IInv
<1>4. op' \in 0..2
  BY <1>1 DEF IInv, TypeOK, RunnerTypes
<1>5. FlagTypes'
  <2>1. fault \in BOOLEAN /\ expired \in BOOLEAN /\ late \in BOOLEAN
    BY DEF IInv, TypeOK, FlagTypes
  <2>2. fault' \in BOOLEAN /\ expired' \in BOOLEAN
    BY <2>1 DEF ClientExits, KillClient
  <2> QED BY <1>1, <2>1, <2>2 DEF FlagTypes
<1> QED BY <1>1, <1>2, <1>3, <1>4, <1>5, ReturnIsSafe

\* A running client sends what it likes; what it sends is of this test.
LEMMA SendRequestIsSafe ==
    ASSUME IInv, pc = "running", NEW b \in Bodies[Op], SendRequest(b)
    PROVE  IInv'
<1> DEFINE r == [client |-> Me, n |-> sends + 1, body |-> b]
<1>1. /\ UNCHANGED <<log, handlers, serving, tags, test, pc, op, answers, verdict, evidence,
                      expired, late>>
      /\ sends < MaxSends /\ sends' = sends + 1
      /\ arriving' = arriving \cup {r}
  BY DEF SendRequest, Arrive
<1>2. /\ test \in 1..Len(A2AClientTests) /\ op \in 1..Len(Test.ops) /\ op \in 1..2
      /\ Op \in Operations
  <2>1. test <= Len(A2AClientTests) /\ op \in 1..Len(Test.ops)
    BY DEF IInv, TypeOK, RunnerTypes, Progress
  <2>2. /\ Len(Test.ops) \in Nat /\ Len(Test.ops) <= 2
        /\ \A i \in 1..Len(Test.ops) : Test.ops[i] \in Operations
    BY <2>1, CurrentTest DEF IInv
  <2>3. test \in 1..Len(A2AClientTests)
    BY <2>1, RequestsTyped DEF IInv
  <2> QED BY <2>1, <2>2, <2>3 DEF Op
<1>3. sends + 1 \in 1..MaxSends
  BY <1>1, BoundsAssumption DEF IInv, TypeOK, RunnerTypes
<1>4. Me \in Clients
  BY <1>2, ClientsAssumption DEF Me
<1>5. b \in UNION Range(Bodies)
  BY <1>2, OperationsAssumption DEF Range
<1>6. r \in Request
  BY <1>3, <1>4, <1>5 DEF Request
<1>7. r.client = Me /\ r.client.test = test
  BY DEF Me
<1> HIDE DEF r
<1>8. RequestTypes'
  <2>1. test \in Nat
    BY <1>2, Finite
  <2>2. \A q \in arriving' \cup Range(log') : q.client.test <= test'
    BY <1>1, <1>7, <2>1 DEF IInv, TypeOK, RequestTypes
  <2> QED BY <1>1, <1>6, <2>2 DEF IInv, TypeOK, RequestTypes
<1>9. RunnerTypes' /\ HandlerTypes'
  BY <1>1, <1>3, BoundsAssumption DEF IInv, TypeOK, RunnerTypes, HandlerTypes
<1>10. FlagTypes'
  <2>1. fault' \in BOOLEAN
    BY DEF SendRequest, IInv, TypeOK, FlagTypes
  <2> QED BY <1>1, <2>1 DEF IInv, TypeOK, FlagTypes
<1>11. Progress'
  BY <1>1 DEF IInv, Progress, Test
<1>12. Unjudged' /\ Served' /\ PassesAreEarned'
  BY <1>1 DEF IInv, Unjudged, Served, PassesAreEarned, Me
<1>13. Own'
  BY <1>1, <1>7 DEF IInv, Own
<1> QED BY <1>1, <1>8, <1>9, <1>10, <1>11, <1>12, <1>13 DEF IInv, TypeOK

\* The server gets to a request; it waits for the answer if its sender lives.
LEMMA ArrivalIsSafe ==
    ASSUME IInv, NEW r \in arriving,
           Record(r, Alive(r)) \/ Pass(r, Alive(r)) \/ handleInspectReset(r, Alive(r)),
           UNCHANGED runner
    PROVE  IInv'
<1>1. /\ UNCHANGED <<tags, test, pc, op, sends, answers, verdict, evidence, expired, fault, late>>
      /\ handlers' = handlers /\ arriving' = arriving \ {r}
      /\ serving' = IF Alive(r) THEN serving \cup {r} ELSE serving
      /\ log' = Append(log, r) \/ log' = log \/ log' = <<>>
  BY DEF Record, Pass, handleInspectReset, Take, runner
<1>2. r \in Request /\ arriving \subseteq Request /\ serving \subseteq Request
      /\ evidence \subseteq Request /\ log \in Seq(Request)
  BY DEF IInv, TypeOK, RequestTypes
<1>3. log' \in Seq(Request) /\ Range(log') \subseteq Range(log) \cup {r}
  <2>1. CASE log' = Append(log, r)
    <3>1. \A i \in 1..Len(log') : log'[i] = r \/ (i \in 1..Len(log) /\ log'[i] = log[i])
      BY <1>2, <2>1
    <3> QED BY <1>2, <2>1, <3>1 DEF Range
  <2>2. CASE log' = log
    BY <1>2, <2>2
  <2>3. CASE log' = <<>>
    BY <2>3, EmptyLog
  <2> QED BY <1>1, <2>1, <2>2, <2>3
<1>4. RequestTypes'
  <2>1. \A q \in arriving' \cup Range(log') : q \in arriving \cup Range(log)
    BY <1>1, <1>3
  <2>2. \A q \in arriving' \cup Range(log') : q.client.test <= test'
    BY <1>1, <2>1 DEF IInv, TypeOK, RequestTypes
  <2>3. arriving' \cup serving' \cup evidence' \subseteq Request
    BY <1>1, <1>2
  <2> QED BY <1>3, <2>2, <2>3 DEF RequestTypes
<1>5. RunnerTypes' /\ FlagTypes' /\ HandlerTypes'
  BY <1>1 DEF IInv, TypeOK, RunnerTypes, FlagTypes, HandlerTypes
<1>6. Progress' /\ Unjudged' /\ PassesAreEarned'
  BY <1>1 DEF IInv, Progress, Unjudged, PassesAreEarned, Test, Judged, Mine
<1>7. Served'
  BY <1>1 DEF IInv, Served, Alive, Me
<1>8. Own'
  BY <1>1, <1>3 DEF IInv, Own
<1>9. (pc # "running" => sends = 0 /\ answers = {} /\ serving = {})'
  BY <1>1 DEF IInv, TypeOK, Alive
<1> QED BY <1>4, <1>5, <1>6, <1>7, <1>8, <1>9 DEF IInv, TypeOK

\* An answer reaches the process that runs.
LEMMA GetAnswerIsSafe == ASSUME IInv, NEW r \in serving, GetAnswer(r) PROVE IInv'
<1>1. /\ UNCHANGED <<log, handlers, arriving, tags, test, pc, op, sends, verdict, evidence,
                      expired, fault, late>>
      /\ serving' = serving \ {r}
      /\ answers' = IF r.body.path = "rpc" THEN answers \cup {Answer(r.body)} ELSE answers
  BY DEF GetAnswer, Serve
<1>2. answers' \subseteq Answers
  <2>1. handleRPC(r.body) \in Answers
    BY AnswersTyped DEF IInv, TypeOK
  <2>2. r.body.path = "rpc" => Answer(r.body) = handleRPC(r.body)
    BY DEF Answer
  <2>3. answers \subseteq Answers
    BY DEF IInv, TypeOK, RunnerTypes
  <2> QED BY <1>1, <2>1, <2>2, <2>3
<1>3. RunnerTypes'
  BY <1>1, <1>2 DEF IInv, TypeOK, RunnerTypes
<1>4. FlagTypes' /\ RequestTypes' /\ HandlerTypes'
  BY <1>1 DEF IInv, TypeOK, FlagTypes, RequestTypes, HandlerTypes
<1>5. Progress' /\ Unjudged' /\ Own' /\ PassesAreEarned'
  BY <1>1 DEF IInv, Progress, Unjudged, Own, PassesAreEarned, Test, Judged, Mine
<1>6. Served' /\ pc' = "running"
  BY <1>1 DEF IInv, Served, Me
<1> QED BY <1>3, <1>4, <1>5, <1>6 DEF IInv, TypeOK

\* The verdict is about requests of the log, which are of this test.
LEMMA JudgeIsSafe == ASSUME IInv, Judge PROVE IInv'
<1>1. /\ UNCHANGED <<log, handlers, arriving, serving, tags, op, sends, answers, expired, fault,
                      late>>
      /\ pc = "judge" /\ pc' = "next" /\ test' = test + 1 /\ evidence' = Nth
      /\ verdict' = IF Passes THEN "pass" ELSE "fail"
  BY DEF Judge, server
<1>2. test <= Len(A2AClientTests) /\ test \in Nat \ {0} /\ Len(A2AClientTests) \in Nat
  BY <1>1, RequestsTyped, Finite DEF IInv, TypeOK, RunnerTypes
<1>3. Nth \subseteq Range(log)
  <2>1. Looked \subseteq DOMAIN log
    BY DEF Looked, RequestsByMethod
  <2> QED BY <2>1 DEF Nth, Range
<1>4. RunnerTypes'
  <2>1. test' \in 1..(Len(A2AClientTests) + 1)
    BY <1>1, <1>2
  <2> QED BY <1>1, <1>2, <2>1 DEF IInv, TypeOK, RunnerTypes
<1>5. RequestTypes'
  <2>1. \A r \in arriving \cup Range(log) : r.client.test \in Nat /\ r.client.test <= test
    BY RequestsTyped DEF IInv
  <2>2. \A r \in arriving' \cup Range(log') : r.client.test <= test'
    BY <1>1, <1>2, <2>1
  <2>3. evidence' \subseteq Request
    BY <1>1, <1>3, RequestsTyped DEF IInv
  <2> QED BY <1>1, <2>2, <2>3 DEF IInv, TypeOK, RequestTypes
<1>6. FlagTypes' /\ HandlerTypes'
  BY <1>1 DEF IInv, TypeOK, FlagTypes, HandlerTypes
<1>7. Progress' /\ Unjudged' /\ Served' /\ Own'
  <2>1. serving' = {}
    BY <1>1 DEF IInv, TypeOK
  <2> QED BY <1>1, <2>1 DEF Progress, Unjudged, Served, Own
<1>8. PassesAreEarned'
  <2> SUFFICES ASSUME verdict' = "pass", ~late', Judged'.method \notin {"none", "all"}
               PROVE  evidence' # {} /\ \A r \in evidence' : Mine(r)'
    BY DEF PassesAreEarned
  <2>1. test' - 1 = test
    BY <1>1, <1>2
  <2>2. Judged' = Test
    BY <2>1 DEF Judged, Test
  <2>3. Passes /\ ~late
    BY <1>1
  <2>4. Nth # {}
    BY <2>2, <2>3 DEF Passes
  <2>5. \A r \in Nth : r.client.test = test
    BY <1>1, <1>3, <2>3 DEF IInv, Own
  <2> QED BY <1>1, <2>1, <2>4, <2>5 DEF Mine
<1>9. serving' = {} /\ sends' = 0 /\ answers' = {}
  BY <1>1 DEF IInv, TypeOK
<1> QED BY <1>4, <1>5, <1>6, <1>7, <1>8, <1>9 DEF IInv, TypeOK

-----------------------------------------------------------------------------
\* Every step preserves the invariant.
LEMMA NextPreserves == IInv /\ [Next]_vars => IInv'
<1> SUFFICES ASSUME IInv, [Next]_vars PROVE IInv'
  OBVIOUS
<1>1. CASE RunnerStep
  BY <1>1, SkipTestIsSafe, StartTestIsSafe, OverrideHandlerIsSafe, StartClientIsSafe,
     StartFailsIsSafe, ClientEndsIsSafe, JudgeIsSafe DEF RunnerStep
<1>2. CASE ServerStep
  BY <1>2, ArrivalIsSafe, GetAnswerIsSafe DEF ServerStep
<1>3. CASE ClientStep
  BY <1>3, SendRequestIsSafe, ClientEndsIsSafe DEF ClientStep
<1>4. CASE UNCHANGED vars
  BY <1>4 DEF vars, server, runner, IInv, TypeOK, RunnerTypes, FlagTypes, RequestTypes,
              HandlerTypes, Progress, Unjudged, Served, Own, PassesAreEarned, Test, Me, Judged, Mine
<1> QED BY <1>1, <1>2, <1>3, <1>4 DEF Next

\* The invariant of every reachable state.
LEMMA Invariance == Spec => []IInv
BY InitEstablishes, NextPreserves, PTL DEF Spec

\* The tests run one after another with at most one client process, whatever
\* clients send and however late it arrives.
THEOREM TypeCorrect == Spec => []TypeOK
<1>1. IInv => TypeOK BY DEF IInv
<1> QED BY <1>1, Invariance, PTL

\* A test of what the client sends never passes on what an earlier test's
\* client has sent, unless that was under way when the log was reset
\* (runner.go:155, a2a_tests.go).
THEOREM PassesEarned == Spec => []PassesAreEarned
<1>1. IInv => PassesAreEarned BY DEF IInv
<1> QED BY <1>1, Invariance, PTL

-----------------------------------------------------------------------------
\* The JSON-RPC method of an operation, and what a request for it lacks.
MethodFor(o) == IF o = "GetUnknownTask" THEN "GetTask" ELSE o
FlawsFor(o, n) ==
    CASE o = "GetUnknownTask" -> {"otherTask"}
      [] o = "SendMessage" /\ n = 1 -> {"contextId"}
      [] OTHER -> {}

\* A call of an operation, which asking for the agent card is not.
Call(r) == r.body.path = "rpc" /\ r.body.method # "Discovery"

\* A request as a client should send it.
AsAsked(r) ==
    /\ r.client.op \in 1..op
    /\ \/ IsCard(r.body)
       \/ /\ r.body.path = "rpc" /\ ~Refused(r.body)
          /\ r.body.method = MethodFor(Test.ops[r.client.op])
          /\ r.body.flaws = FlawsFor(Test.ops[r.client.op], r.client.op)

AllAsked == \A r \in arriving \cup Range(log) \cup serving : AsAsked(r)

\* What an operation leaves in the log.
Trace(n) ==
    \E i \in DOMAIN log :
        IF Test.ops[n] = "Discovery" THEN IsCard(log[i].body)
        ELSE Call(log[i]) /\ log[i].client.op = n

Over == IF pc = "running" THEN op - 1 ELSE op
Traces == \A n \in 1..Over : Trace(n)

\* At most one call of an operation is made, and it is recorded before the next begins.
Calls ==
    /\ \A q, r \in arriving : Call(q) /\ Call(r) => q = r
    /\ \A r \in arriving : Call(r) =>
          /\ pc = "running" /\ r.client.op = op
          /\ \A q \in Range(log) : Call(q) => q.client.op < op
    /\ \A i, j \in DOMAIN log : i < j /\ Call(log[i]) /\ Call(log[j]) =>
          log[i].client.op < log[j].client.op

\* What the client waits for is recorded, and what it has been answered too.
Recorded ==
    /\ serving \subseteq Range(log)
    /\ answers # {} /\ Op # "Discovery" => \E r \in Range(log) : Call(r) /\ r.client.op = op
    /\ "error" \in answers /\ Op # "Discovery" => Test.lenient

WellAsked == AllAsked /\ Traces /\ Calls /\ Recorded /\ (pc = "judge" => op = Len(Test.ops))

Conforming == pc # "next" /\ ~fault /\ ~late => WellAsked

\* An error that is made up comes from a test that has been taken.
MadeUp ==
    /\ DOMAIN handlers \subseteq {"SendMessage"}
    /\ "SendMessage" \in DOMAIN handlers /\ handlers["SendMessage"] = "error" =>
          \E i \in 1..Len(A2AClientTests) : i <= test /\ A2AClientTests[i].override = "error"

\* What a test asks for is what it looks at.
Judgeable(row) ==
    /\ (\E i \in DOMAIN row.ops : row.ops[i] = "GetUnknownTask") => row.lenient
    /\ \/ row.method \in {"none", "all"}
       \/ row.method = "card" /\ row.ops = <<"Discovery">> /\ row.nth = 1 /\ row.forbids = {}
       \/ /\ row.method \in {"SendMessage", "GetTask", "SendStreamingMessage"}
          /\ row.ops = <<row.method>> /\ row.nth = 1 /\ "contextId" \notin row.forbids
       \/ /\ row.method = "SendMessage" /\ row.ops = <<"SendMessage", "SendMessage">>
          /\ row.nth = 2 /\ row.forbids = {"contextId"}

\* A test that comes after one that makes up errors asks for no message, or lets it fail.
Unharmed(i, j) ==
    i <= j /\ A2AClientTests[i].override = "error" =>
        \/ A2AClientTests[j].lenient
        \/ \A n \in DOMAIN A2AClientTests[j].ops : A2AClientTests[j].ops[n] # "SendMessage"

\* The rows before a test that makes up errors, and from it on.
Rows == {row \in Row : Judgeable(row)}
NoErrors == {row \in Rows : row.override # "error"}
NoMessages == {row \in Rows : row.lenient \/ \A n \in DOMAIN row.ops : row.ops[n] # "SendMessage"}
SplitAt(s, k) ==
    /\ s \in Seq(Rows)
    /\ \A i \in 1..Len(s) : (i <= k => s[i] \in NoErrors) /\ (i > k => s[i] \in NoMessages)

\* Sequences of both kinds of rows can be put together.
LEMMA SplitJoined ==
    ASSUME NEW s \in Seq(Rows), NEW t \in Seq(Rows), NEW k \in Nat
    PROVE  /\ s \in Seq(NoErrors) /\ SplitAt(t, k) => SplitAt(s \o t, Len(s) + k)
           /\ SplitAt(s, k) /\ k <= Len(s) /\ t \in Seq(NoMessages) => SplitAt(s \o t, k)
<1>1. PICK st : st = s \o t
  OBVIOUS
<1>2. st \in Seq(Rows) /\ Len(st) = Len(s) + Len(t) /\ Len(s) \in Nat /\ Len(t) \in Nat
  BY <1>1, ConcatProperties
<1>3. \A i \in 1..Len(st) : st[i] = IF i <= Len(s) THEN s[i] ELSE t[i - Len(s)]
  BY <1>1, <1>2, ConcatProperties
<1>4. ASSUME s \in Seq(NoErrors), SplitAt(t, k)
      PROVE  SplitAt(st, Len(s) + k)
  <2> SUFFICES ASSUME NEW i \in 1..Len(st)
               PROVE  /\ i <= Len(s) + k => st[i] \in NoErrors
                      /\ i > Len(s) + k => st[i] \in NoMessages
    BY <1>2 DEF SplitAt
  <2>1. CASE i <= Len(s)
    BY <1>2, <1>3, <1>4, <2>1
  <2>2. CASE i > Len(s)
    <3>1. i - Len(s) \in 1..Len(t) /\ st[i] = t[i - Len(s)]
      BY <1>2, <1>3, <2>2
    <3>2. /\ i - Len(s) <= k => t[i - Len(s)] \in NoErrors
          /\ i - Len(s) > k => t[i - Len(s)] \in NoMessages
      BY <1>4, <3>1 DEF SplitAt
    <3> QED BY <1>2, <3>1, <3>2
  <2> QED BY <1>2, <2>1, <2>2
<1>5. ASSUME SplitAt(s, k), k <= Len(s), t \in Seq(NoMessages)
      PROVE  SplitAt(st, k)
  <2> SUFFICES ASSUME NEW i \in 1..Len(st)
               PROVE  (i <= k => st[i] \in NoErrors) /\ (i > k => st[i] \in NoMessages)
    BY <1>2 DEF SplitAt
  <2>1. CASE i <= Len(s)
    <3>1. i \in 1..Len(s) /\ st[i] = s[i]
      BY <1>2, <1>3, <2>1
    <3> QED BY <1>5, <3>1 DEF SplitAt
  <2>2. CASE i > Len(s)
    <3>1. i - Len(s) \in 1..Len(t) /\ st[i] = t[i - Len(s)] /\ i > k
      BY <1>2, <1>3, <1>5, <2>2
    <3>2. t[i - Len(s)] \in NoMessages
      BY <1>5, <3>1
    <3> QED BY <3>1, <3>2
  <2> QED BY <1>2, <2>1, <2>2
<1> QED BY <1>1, <1>4, <1>5

\* The operations of a test, one or two of them.
LEMMA OpsAre ==
    ASSUME NEW m, NEW n
    PROVE  /\ DOMAIN <<m>> = {1} /\ <<m>>[1] = m
           /\ DOMAIN <<m, n>> = {1, 2} /\ <<m, n>>[1] = m /\ <<m, n>>[2] = n
<1>1. DOMAIN <<m>> = 1..1 /\ DOMAIN <<m, n>> = 1..2
  OBVIOUS
<1>2. 1..1 = {1} /\ 1..2 = {1, 2}
  OBVIOUS
<1> QED BY <1>1, <1>2

\* Rows of one operation, which they look at.
LEMMA OneLook ==
    ASSUME NEW row \in Row, NEW m \in {"SendMessage", "GetTask", "SendStreamingMessage"},
           row.method = m, row.ops = <<m>>, row.nth = 1, "contextId" \notin row.forbids,
           row.override = ""
    PROVE  row \in NoErrors /\ (m # "SendMessage" => row \in NoMessages)
<1>1. DOMAIN row.ops = {1} /\ row.ops[1] = m
  <2>1. DOMAIN <<m>> = {1} /\ <<m>>[1] = m
    BY OpsAre
  <2> QED BY <2>1, Zenon
<1>2. ~\E n \in DOMAIN row.ops : row.ops[n] = "GetUnknownTask"
  BY <1>1
<1>3. Judgeable(row)
  BY <1>2 DEF Judgeable
<1>4. m # "SendMessage" => \A n \in DOMAIN row.ops : row.ops[n] # "SendMessage"
  BY <1>1
<1> QED BY <1>3, <1>4 DEF Rows, NoErrors, NoMessages

\* Rows that look at nothing of a request, or are lenient.
LEMMA OtherLook ==
    ASSUME NEW row \in Row, row.method \in {"none", "all"},
           row.ops = <<"SendMessage">> \/ row.lenient
    PROVE  /\ row.override # "error" => row \in NoErrors
           /\ row.lenient => row \in NoMessages
<1>1. row.ops = <<"SendMessage">> =>
         DOMAIN row.ops = {1} /\ row.ops[1] = "SendMessage"
  OBVIOUS
<1>2. (\E n \in DOMAIN row.ops : row.ops[n] = "GetUnknownTask") => row.lenient
  BY <1>1
<1>3. Judgeable(row)
  BY <1>2 DEF Judgeable
<1> QED BY <1>3 DEF Rows, NoErrors, NoMessages

\* Rows of one operation look at that operation.
LEMMA RowsJudgeable ==
    /\ \A forbids \in Words : "contextId" \notin forbids =>
          /\ Messaging(forbids) \in NoErrors
          /\ Lifecycle(forbids) \in NoErrors /\ Streaming(forbids) \in NoErrors \cap NoMessages
    /\ T({"discovery"}, <<"Discovery">>, "card", 1, {}) \in NoErrors
    /\ T({"messaging", "context"}, <<"SendMessage", "SendMessage">>, "SendMessage", 2, {"contextId"})
          \in NoErrors
    /\ Handles(<<"SendMessage">>) \in NoErrors
    /\ [Handles(<<"SendMessage">>) EXCEPT !.override = "message"] \in NoErrors
    /\ [Handles(<<"SendMessage">>) EXCEPT !.override = "error", !.lenient = TRUE] \in NoMessages
    /\ [Handles(<<"GetUnknownTask">>) EXCEPT !.lenient = TRUE] \in NoMessages
    /\ [T({"protocol"}, <<"SendMessage", "GetTask">>, "all", 0, {}) EXCEPT !.lenient = TRUE]
          \in NoMessages
<1>1. /\ <<"Discovery">> \in OpLists /\ <<"SendMessage">> \in OpLists
      /\ <<"GetUnknownTask">> \in OpLists
      /\ <<"SendMessage", "SendMessage">> \in OpLists /\ <<"SendMessage", "GetTask">> \in OpLists
      /\ "" \in Overrides /\ "message" \in Overrides /\ "error" \in Overrides
      /\ {"none", "card", "all", "SendMessage", "GetTask", "SendStreamingMessage"} \subseteq Looks
  BY DEF OpLists, Operations, Overrides, Looks, Methods
<1>2. /\ {} \in Words /\ {"discovery"} \in Words /\ {"messaging", "context"} \in Words
      /\ {"protocol"} \in Words /\ {"contextId"} \in Words
  BY DEF Words
<1>3. \A forbids \in Words : "contextId" \notin forbids =>
        /\ Messaging(forbids) \in NoErrors
        /\ Lifecycle(forbids) \in NoErrors /\ Streaming(forbids) \in NoErrors \cap NoMessages
  <2> SUFFICES ASSUME NEW forbids \in Words, "contextId" \notin forbids
               PROVE  /\ Messaging(forbids) \in NoErrors
                      /\ Lifecycle(forbids) \in NoErrors
                      /\ Streaming(forbids) \in NoErrors \cap NoMessages
    OBVIOUS
  <2>1. ASSUME NEW ts, NEW m \in {"SendMessage", "GetTask", "SendStreamingMessage"},
               NEW row, row = T(ts, <<m>>, m, 1, forbids), row \in Row
        PROVE  row \in NoErrors /\ (m # "SendMessage" => row \in NoMessages)
    <3>1. /\ row.method = m /\ row.ops = <<m>> /\ row.nth = 1
          /\ row.forbids = forbids /\ row.override = ""
      BY <2>1 DEF T
    <3> QED BY <2>1, <3>1, OneLook
  <2>2. Messaging(forbids) \in NoErrors
    BY <2>1, HelpersTyped DEF Messaging
  <2>3. Lifecycle(forbids) \in NoErrors
    BY <2>1, HelpersTyped DEF Lifecycle
  <2>4. Streaming(forbids) \in NoErrors \cap NoMessages
    BY <2>1, HelpersTyped DEF Streaming
  <2> QED BY <2>2, <2>3, <2>4
<1>4. T({"discovery"}, <<"Discovery">>, "card", 1, {}) \in NoErrors
  <2>1. PICK row : row = T({"discovery"}, <<"Discovery">>, "card", 1, {})
    OBVIOUS
  <2>2. /\ row \in Row /\ row.method = "card" /\ row.ops = <<"Discovery">> /\ row.nth = 1
        /\ row.forbids = {} /\ row.override = ""
    BY <1>1, <1>2, <2>1 DEF T, Row
  <2>3. DOMAIN row.ops = {1} /\ row.ops[1] = "Discovery"
    <3>1. DOMAIN <<"Discovery">> = {1} /\ <<"Discovery">>[1] = "Discovery"
      BY OpsAre
    <3> QED BY <2>2, <3>1, Zenon
  <2>4. row \in NoErrors
    BY <2>2, <2>3 DEF Rows, NoErrors, Judgeable
  <2> QED BY <2>1, <2>4
<1>5. T({"messaging", "context"}, <<"SendMessage", "SendMessage">>, "SendMessage", 2, {"contextId"})
        \in NoErrors
  <2>1. PICK row : row = T({"messaging", "context"}, <<"SendMessage", "SendMessage">>, "SendMessage", 2,
                           {"contextId"})
    OBVIOUS
  <2>2. /\ row \in Row /\ row.method = "SendMessage" /\ row.ops = <<"SendMessage", "SendMessage">>
        /\ row.nth = 2 /\ row.forbids = {"contextId"} /\ row.override = ""
    BY <1>1, <1>2, <2>1 DEF T, Row
  <2>3. DOMAIN row.ops = {1, 2} /\ row.ops[1] = "SendMessage" /\ row.ops[2] = "SendMessage"
    <3>1. PICK ops : ops = <<"SendMessage", "SendMessage">>
      OBVIOUS
    <3>2. DOMAIN ops = {1, 2} /\ ops[1] = "SendMessage" /\ ops[2] = "SendMessage"
      BY <3>1, OpsAre
    <3> QED BY <2>2, <3>1, <3>2, Zenon
  <2>4. row \in NoErrors
    BY <2>2, <2>3 DEF Rows, NoErrors, Judgeable
  <2> QED BY <2>1, <2>4
<1>6. /\ Handles(<<"SendMessage">>) \in NoErrors
      /\ [Handles(<<"SendMessage">>) EXCEPT !.override = "message"] \in NoErrors
  <2>1. PICK row : row = Handles(<<"SendMessage">>)
    OBVIOUS
  <2>2. row \in Row /\ row.method = "none" /\ row.ops = <<"SendMessage">> /\ row.override = ""
    BY <1>1, <2>1, HelpersTyped DEF Handles, T
  <2>3. PICK other : other = [row EXCEPT !.override = "message"]
    OBVIOUS
  <2>4. other \in Row /\ other.method = "none" /\ other.ops = <<"SendMessage">>
        /\ other.override = "message"
    BY <1>1, <2>2, <2>3 DEF Row
  <2>5. row \in NoErrors /\ other \in NoErrors
    BY <2>2, <2>4, OtherLook
  <2> QED BY <2>1, <2>3, <2>5
<1>7. /\ [Handles(<<"SendMessage">>) EXCEPT !.override = "error", !.lenient = TRUE] \in NoMessages
      /\ [Handles(<<"GetUnknownTask">>) EXCEPT !.lenient = TRUE] \in NoMessages
  <2>1. PICK row : row = Handles(<<"SendMessage">>)
    OBVIOUS
  <2>2. PICK unknown : unknown = Handles(<<"GetUnknownTask">>)
    OBVIOUS
  <2>3. row \in Row /\ row.method = "none" /\ unknown \in Row /\ unknown.method = "none"
    BY <1>1, <2>1, <2>2, HelpersTyped DEF Handles, T
  <2>4. PICK a, b : /\ a = [row EXCEPT !.override = "error", !.lenient = TRUE]
                    /\ b = [unknown EXCEPT !.lenient = TRUE]
    OBVIOUS
  <2>5. a \in Row /\ a.method = "none" /\ a.lenient /\ b \in Row /\ b.method = "none" /\ b.lenient
    BY <1>1, <2>3, <2>4 DEF Row
  <2>6. a \in NoMessages /\ b \in NoMessages
    BY <2>5, OtherLook
  <2> QED BY <2>1, <2>2, <2>4, <2>6
<1>8. [T({"protocol"}, <<"SendMessage", "GetTask">>, "all", 0, {}) EXCEPT !.lenient = TRUE]
        \in NoMessages
  <2>1. PICK row : row = T({"protocol"}, <<"SendMessage", "GetTask">>, "all", 0, {})
    OBVIOUS
  <2>2. row \in Row /\ row.method = "all"
    BY <1>1, <1>2, <2>1 DEF T, Row
  <2>3. PICK a : a = [row EXCEPT !.lenient = TRUE]
    OBVIOUS
  <2>4. a \in Row /\ a.method = "all" /\ a.lenient
    BY <2>2, <2>3 DEF Row
  <2>5. a \in NoMessages
    BY <2>4, OtherLook
  <2> QED BY <2>1, <2>3, <2>5
<1> QED BY <1>3, <1>4, <1>5, <1>6, <1>7, <1>8

\* The table: tests look at what they ask for, and nothing that needs an answer to a message
\* comes after the answers that are made up (a2a_tests.go:12-625).
LEMMA TableOrdered ==
    /\ \A i \in 1..Len(A2AClientTests) : Judgeable(A2AClientTests[i])
    /\ \A i, j \in 1..Len(A2AClientTests) : Unharmed(i, j)
<1>1. NoErrors \subseteq Rows /\ NoMessages \subseteq Rows
  BY DEF NoErrors, NoMessages
<1>2. /\ {"id"} \in Words /\ {"ctype"} \in Words /\ {"messageId"} \in Words /\ {"role"} \in Words
      /\ {"parts"} \in Words /\ {"parts", "content"} \in Words /\ {"taskId", "otherTask"} \in Words
      /\ {"accept"} \in Words /\ {} \in Words
  BY DEF Words
<1>3. /\ DiscoveryTests \in Seq(NoErrors) /\ EnvelopeTests \in Seq(NoErrors)
      /\ MessageTests \in Seq(NoErrors) /\ PartTests \in Seq(NoErrors)
      /\ TaskTests \in Seq(NoErrors) /\ ContextTests \in Seq(NoErrors)
  <2>1. DiscoveryTests \in Seq(NoErrors) /\ ContextTests \in Seq(NoErrors)
    BY RowsJudgeable DEF DiscoveryTests, ContextTests
  <2>2. /\ Messaging({"id"}) \in NoErrors /\ Messaging({}) \in NoErrors
        /\ Messaging({"ctype"}) \in NoErrors /\ Messaging({"messageId"}) \in NoErrors
        /\ Messaging({"role"}) \in NoErrors
        /\ Messaging({"parts"}) \in NoErrors /\ Messaging({"parts", "content"}) \in NoErrors
    BY <1>2, RowsJudgeable
  <2>3. EnvelopeTests \in Seq(NoErrors) /\ MessageTests \in Seq(NoErrors) /\ PartTests \in Seq(NoErrors)
    BY <2>2 DEF EnvelopeTests, MessageTests, PartTests
  <2>4. /\ Lifecycle({"id"}) \in NoErrors /\ Lifecycle({}) \in NoErrors
        /\ Lifecycle({"taskId", "otherTask"}) \in NoErrors
    BY <1>2, RowsJudgeable
  <2>5. TaskTests \in Seq(NoErrors)
    BY <2>4 DEF TaskTests
  <2> QED BY <2>1, <2>3, <2>5
<1>4. StreamingTests \in Seq(NoMessages) /\ VersionTests \in Seq(NoMessages)
  <2>1. Streaming({}) \in NoMessages /\ Streaming({"accept"}) \in NoMessages
    BY <1>2, RowsJudgeable
  <2> QED BY <2>1, RowsJudgeable DEF StreamingTests, VersionTests
<1>5. ResponseTests \in Seq(Rows) /\ SplitAt(ResponseTests, 2)
  <2>1. PICK a, b, c, d : /\ ResponseTests = <<a, b, c, d>> /\ a \in NoErrors /\ b \in NoErrors
                          /\ c \in NoMessages /\ d \in NoMessages
    BY RowsJudgeable DEF ResponseTests
  <2>2. {a, b, c, d} \subseteq Rows
    BY <1>1, <2>1
  <2> QED BY <2>1, <2>2 DEF SplitAt
<1>6. PICK p : p = DiscoveryTests \o EnvelopeTests \o MessageTests \o PartTests \o TaskTests
                     \o ContextTests
  OBVIOUS
<1>7. p \in Seq(NoErrors)
  BY <1>3, <1>6, ConcatProperties
<1>8. p \in Seq(Rows) /\ Len(p) \in Nat
  BY <1>1, <1>7
<1>9. PICK k \in Nat : k = Len(p) + 2
  BY <1>8
<1>10. PICK q : q = p \o ResponseTests
  OBVIOUS
<1>11. SplitAt(q, k) /\ q \in Seq(Rows) /\ k <= Len(q)
  <2>1. Len(ResponseTests) = 4
    BY DEF ResponseTests
  <2>2. SplitAt(q, k)
    BY <1>5, <1>7, <1>8, <1>9, <1>10, SplitJoined
  <2>3. q \in Seq(Rows) /\ Len(q) = Len(p) + Len(ResponseTests)
    BY <1>5, <1>8, <1>10, ConcatProperties
  <2> QED BY <1>8, <1>9, <2>1, <2>2, <2>3
<1>12. PICK s : s = q \o StreamingTests
  OBVIOUS
<1>13. SplitAt(s, k) /\ s \in Seq(Rows) /\ k <= Len(s)
  <2>1. StreamingTests \in Seq(Rows) /\ Len(StreamingTests) \in Nat
    BY <1>1, <1>4
  <2>2. SplitAt(s, k)
    BY <1>4, <1>11, <1>12, <2>1, SplitJoined
  <2>3. s \in Seq(Rows) /\ Len(s) = Len(q) + Len(StreamingTests)
    BY <1>11, <1>12, <2>1, ConcatProperties
  <2> QED BY <1>11, <2>1, <2>2, <2>3
<1>14. A2AClientTests = s \o VersionTests
  BY <1>6, <1>10, <1>12, Zenon DEF A2AClientTests
<1>15. SplitAt(A2AClientTests, k)
  <2>1. VersionTests \in Seq(Rows)
    BY <1>1, <1>4
  <2>2. SplitAt(s \o VersionTests, k)
    BY <1>4, <1>13, <2>1, SplitJoined
  <2> QED BY <1>14, <2>2, Zenon
<1>16. \A i \in 1..Len(A2AClientTests) : Judgeable(A2AClientTests[i])
  <2>1. \A i \in 1..Len(A2AClientTests) : A2AClientTests[i] \in Rows
    BY <1>15 DEF SplitAt
  <2> QED BY <2>1 DEF Rows
<1>17. ASSUME NEW i \in 1..Len(A2AClientTests), NEW j \in 1..Len(A2AClientTests)
       PROVE  Unharmed(i, j)
  <2>1. i > k \/ A2AClientTests[i].override # "error"
    BY <1>15 DEF SplitAt, NoErrors
  <2>2. j <= k \/ A2AClientTests[j] \in NoMessages
    BY <1>15 DEF SplitAt
  <2>3. A2AClientTests[j] \in NoMessages => Unharmed(i, j)
    BY DEF NoMessages, Unharmed
  <2>4. i > k /\ j <= k => ~(i <= j)
    BY Finite
  <2> QED BY <2>1, <2>2, <2>3, <2>4 DEF Unharmed
<1> QED BY <1>16, <1>17

-----------------------------------------------------------------------------
\* All that the proof goes by.
Passing == MadeUp /\ Conforming /\ ConformingClientsPass

\* What an operation's requests look like.
LEMMA Methodical ==
    \A o \in Operations :
        /\ MethodFor(o) = "Discovery" <=> o = "Discovery"
        /\ MethodFor(o) \notin Deprecated
        /\ MethodFor(o) = "SendMessage" => o = "SendMessage"
BY DEF Operations, MethodFor, Deprecated

\* Only calls have a method.
LEMMA MethodIs ==
    ASSUME NEW r, NEW m \in Methods \cup Deprecated, MethodOf(r) = m
    PROVE  r.body.path = "rpc" /\ r.body.method = m
<1>1. m # ""
  BY Zenon DEF Methods, Deprecated
<1> QED BY <1>1, Zenon DEF MethodOf

\* A request is either for the card or a call.
LEMMA CardOrCall ==
    ASSUME NEW r, IsCard(r.body)
    PROVE  r.body.path # "rpc" /\ ~Call(r) /\ ~Refused(r.body) /\ ~Inspects(r.body)
BY DEF IsCard, Call, Refused, Inspects

\* Requests that are as they should be, by operation.
LEMMA AskedCall ==
    ASSUME IInv, pc # "next", NEW r, AsAsked(r), r.body.path = "rpc"
    PROVE  /\ r.client.op \in 1..Len(Test.ops) => Test.ops[r.client.op] \in Operations
           /\ r.client.op \in 1..op
           /\ ~Refused(r.body) /\ ~Inspects(r.body)
           /\ r.body.method = MethodFor(Test.ops[r.client.op])
           /\ r.body.flaws = FlawsFor(Test.ops[r.client.op], r.client.op)
<1>1. test <= Len(A2AClientTests)
  BY DEF IInv, TypeOK, RunnerTypes
<1>2. \A i \in 1..Len(Test.ops) : Test.ops[i] \in Operations
  BY <1>1, CurrentTest DEF IInv
<1>3. ~IsCard(r.body)
  BY CardOrCall
<1>4. ~Inspects(r.body)
  BY DEF Inspects
<1> QED BY <1>2, <1>3, <1>4 DEF AsAsked

\* The place in the table.
LEMMA Here ==
    ASSUME IInv, pc # "next"
    PROVE  /\ test \in 1..Len(A2AClientTests) /\ Judgeable(Test) /\ Test \in Row
           /\ Len(Test.ops) \in 1..2 /\ DOMAIN Test.ops = 1..Len(Test.ops)
           /\ \A i \in 1..Len(Test.ops) : Test.ops[i] \in Operations
<1>1. test <= Len(A2AClientTests)
  BY DEF IInv, TypeOK, RunnerTypes
<1>2. test \in 1..Len(A2AClientTests)
  BY <1>1, RequestsTyped DEF IInv
<1>3. /\ Test \in Row /\ Len(Test.ops) \in Nat /\ 0 < Len(Test.ops) /\ Len(Test.ops) <= 2
      /\ \A i \in 1..Len(Test.ops) : Test.ops[i] \in Operations
  BY <1>1, CurrentTest DEF IInv
<1>4. Test.ops \in OpLists
  BY <1>3 DEF Row
<1>5. DOMAIN Test.ops = 1..Len(Test.ops)
  BY <1>4 DEF OpLists
<1>6. Judgeable(Test)
  BY <1>2, TableOrdered, Zenon DEF Test
<1>7. PICK n \in Nat : n = Len(Test.ops) /\ 0 < n /\ n <= 2
  BY <1>3, Zenon
<1>8. n \in 1..2
  <2>1. \A m \in Nat : 0 < m /\ m <= 2 => m \in 1..2
    OBVIOUS
  <2> QED BY <1>7, <2>1, Zenon
<1> QED BY <1>2, <1>3, <1>5, <1>6, <1>7, <1>8, Zenon

\* One client has one name.
LEMMA ByName ==
    ASSUME IInv, pc # "next", NEW r \in Request, r.client.test = test, r.client.op = op
    PROVE  r.client = Me
<1>1. r.client \in [test : 1..Len(A2AClientTests), op : 1..2]
  BY ClientsAssumption DEF Request
<1> QED BY <1>1 DEF Me

\* Nobody answers with an error what was asked for, but where a test bears it.
LEMMA ErrorsBorne ==
    ASSUME IInv, MadeUp, pc = "running", NEW r, AsAsked(r), r.client.op = op,
           r.body.path = "rpc", Op # "Discovery", Answer(r.body) = "error"
    PROVE  Test.lenient
<1>1. /\ op \in 1..Len(Test.ops) /\ Test.ops[op] = Op /\ Op \in Operations
      /\ test \in 1..Len(A2AClientTests) /\ Judgeable(Test) /\ DOMAIN Test.ops = 1..Len(Test.ops)
  BY Here DEF IInv, Progress, Op
<1>2. /\ ~Refused(r.body) /\ r.body.method = MethodFor(Op) /\ r.body.flaws = FlawsFor(Op, op)
  BY <1>1, AskedCall
<1>3. handleRPC(r.body) = "error"
  BY DEF Answer
<1>4. CASE Op = "GetUnknownTask"
  BY <1>1, <1>4 DEF Judgeable
<1>5. CASE r.body.method \in DOMAIN handlers
  <2>1. r.body.method = "SendMessage" /\ handlers["SendMessage"] = "error"
    BY <1>2, <1>3, <1>5 DEF handleRPC, MadeUp
  <2>2. Op = "SendMessage"
    BY <1>1, <1>2, <2>1, Methodical
  <2>3. PICK i \in 1..Len(A2AClientTests) : i <= test /\ A2AClientTests[i].override = "error"
    BY <1>5, <2>1 DEF MadeUp
  <2>4. Unharmed(i, test)
    BY <1>1, TableOrdered
  <2> QED BY <1>1, <2>2, <2>3, <2>4 DEF Unharmed, Test
<1>6. CASE r.body.method \notin DOMAIN handlers /\ Op # "GetUnknownTask"
  <2>1. DefaultAnswer(r.body) = "error"
    BY <1>2, <1>3, <1>6 DEF handleRPC
  <2>2. r.body.method = Op /\ Op \in {"SendMessage", "GetTask", "SendStreamingMessage"}
    BY <1>1, <1>2, <1>6 DEF MethodFor, Operations
  <2>3. r.body.flaws \in {{}, {"contextId"}} /\ (Op # "SendMessage" => r.body.flaws = {})
    BY <1>2, <1>6 DEF FlawsFor
  <2>4. "messageId" \notin r.body.flaws /\ (Op = "GetTask" => r.body.flaws \cap {"taskId", "otherTask"} = {})
    BY <2>3
  <2> QED BY <2>1, <2>2, <2>4 DEF DefaultAnswer, handleSendMessage, handleGetTask
<1> QED BY <1>4, <1>5, <1>6

-----------------------------------------------------------------------------
\* A set of numbers that is not empty has a least one.
LEMMA Least ==
    ASSUME NEW S \in SUBSET Nat, S # {}
    PROVE  \E m \in S : \A k \in S : m <= k
<1>1. PICK R : R = OpToRel(<, Nat)
  OBVIOUS
<1>2. IsWellFoundedOn(R, Nat)
  BY <1>1, NatLessThanWellFounded
<1>3. PICK m \in S : \A k \in S : <<k, m>> \notin R
  BY <1>2, WFMin
<1>4. \A k \in S : ~(k < m)
  BY <1>1, <1>3 DEF OpToRel
<1> QED BY <1>4

\* The nth of the requests a test looks at, for the least and the one after it.
LEMMA NthIs ==
    ASSUME Looked \subseteq Nat
    PROVE  /\ Test.nth = 1 /\ Looked # {} => \E k \in Looked : log[k] \in Nth
           /\ \A i, k \in Nat : Test.nth = 2 /\ Looked = {i, k} /\ i < k => log[k] \in Nth
<1>1. ASSUME Test.nth = 1, Looked # {}
      PROVE  \E k \in Looked : log[k] \in Nth
  <2>1. PICK k \in Looked : \A j \in Looked : k <= j
    BY <1>1, Least
  <2>2. {j \in Looked : j <= k} = {k}
    <3>1. \A j \in Looked : j \in Nat /\ k \in Nat /\ (j <= k <=> j = k)
      BY <2>1
    <3> QED BY <3>1, Zenon
  <2>3. Cardinality({j \in Looked : j <= k}) = 1
    BY <2>2, FS_Singleton
  <2>4. log[k] \in Nth
    BY <1>1, <2>3 DEF Nth
  <2> QED BY <2>4
<1>2. ASSUME NEW i \in Nat, NEW k \in Nat, Test.nth = 2, Looked = {i, k}, i < k
      PROVE  log[k] \in Nth
  <2>1. {j \in Looked : j <= k} = {i} \cup {k}
    BY <1>2
  <2>2. Cardinality({i} \cup {k}) = 2
    <3>1. PICK single : single = {i}
      OBVIOUS
    <3>2. IsFiniteSet(single) /\ Cardinality(single) = 1
      BY <3>1, FS_Singleton
    <3>3. k \notin single
      BY <1>2, <3>1
    <3>4. Cardinality(single \cup {k}) = 1 + 1
      BY <3>2, <3>3, FS_AddElement
    <3> QED BY <3>1, <3>4
  <2>3. Cardinality({j \in Looked : j <= k}) = Test.nth /\ k \in Looked
    BY <1>2, <2>1, <2>2
  <2> QED BY <2>3 DEF Nth
<1> QED BY <1>1, <1>2

\* A client that has sent what was asked for passes (a2a_tests.go).
LEMMA JudgePasses ==
    ASSUME IInv, WellAsked, pc = "judge"
    PROVE  Passes
<1>1. /\ Judgeable(Test) /\ Len(Test.ops) \in 1..2 /\ DOMAIN Test.ops = 1..Len(Test.ops)
      /\ \A i \in 1..Len(Test.ops) : Test.ops[i] \in Operations
  BY Here
<1>2. /\ AllAsked /\ Calls /\ op = Len(Test.ops)
      /\ \A n \in 1..Len(Test.ops) : Trace(n)
  BY DEF WellAsked, Traces, Over
<1>3. DOMAIN log = 1..Len(log) /\ Len(log) \in Nat /\ \A i \in DOMAIN log : log[i] \in Range(log)
  BY DEF IInv, TypeOK, RequestTypes, Range
<1>4. Looked \subseteq DOMAIN log /\ Looked \subseteq Nat
  BY <1>3 DEF Looked, RequestsByMethod
<1>5. \A i \in DOMAIN log : AsAsked(log[i])
  BY <1>2, <1>3 DEF AllAsked
<1>6. ASSUME NEW i \in DOMAIN log, log[i].body.path = "rpc"
      PROVE  /\ log[i].client.op \in 1..Len(Test.ops)
             /\ log[i].body.method = MethodFor(Test.ops[log[i].client.op])
             /\ log[i].body.flaws = FlawsFor(Test.ops[log[i].client.op], log[i].client.op)
  BY <1>2, <1>5, <1>6, AskedCall
<1>7. CASE Test.method = "none"
  BY <1>7 DEF Passes
<1>8. CASE Test.method = "all"
  <2>1. ASSUME NEW i \in Looked
        PROVE  FALSE
    <3>1. i \in DOMAIN log /\ MethodOf(log[i]) \in Deprecated
      BY <1>8, <2>1 DEF Looked
    <3>2. log[i].body.path = "rpc" /\ log[i].body.method \in Deprecated
      BY <3>1, MethodIs
    <3> QED BY <1>1, <1>6, <3>1, <3>2, Methodical
  <2> QED BY <1>8, <2>1 DEF Passes
<1>9. CASE /\ Test.method = "card" /\ Test.ops = <<"Discovery">> /\ Test.nth = 1
           /\ Test.forbids = {}
  <2>1. Test.ops[1] = "Discovery" /\ 1 \in 1..Len(Test.ops)
    BY <1>1, <1>9
  <2>2. PICK i \in DOMAIN log : IsCard(log[i].body)
    BY <1>2, <2>1 DEF Trace
  <2>3. i \in Looked
    BY <1>9, <2>2 DEF Looked
  <2>4. PICK k \in Looked : log[k] \in Nth
    BY <1>4, <1>9, <2>3, NthIs
  <2>5. log[k].body.flaws \cap Test.forbids = {}
    BY <1>9
  <2> QED BY <1>9, <2>4, <2>5 DEF Passes
<1>10. ASSUME Test.method \in {"SendMessage", "GetTask", "SendStreamingMessage"}
       PROVE  /\ Looked = {i \in DOMAIN log : log[i].body.path = "rpc" /\ log[i].body.method = Test.method}
              /\ Passes <=> \E r \in Nth : r.body.flaws \cap Test.forbids = {}
  <2>1. Looked = {i \in DOMAIN log : MethodOf(log[i]) = Test.method}
    BY <1>10 DEF Looked, RequestsByMethod
  <2>2. \A i \in DOMAIN log : MethodOf(log[i]) = Test.method =>
           log[i].body.path = "rpc" /\ log[i].body.method = Test.method
    BY <1>10, MethodIs DEF Methods
  <2>3. \A i \in DOMAIN log : log[i].body.path = "rpc" => MethodOf(log[i]) = log[i].body.method
    BY Zenon DEF MethodOf
  <2> QED BY <1>10, <2>1, <2>2, <2>3 DEF Passes
<1>11. CASE /\ Test.method \in {"SendMessage", "GetTask", "SendStreamingMessage"}
            /\ Test.ops = <<Test.method>> /\ Test.nth = 1 /\ "contextId" \notin Test.forbids
  <2>1. Test.ops[1] = Test.method /\ Len(Test.ops) = 1
    BY <1>11
  <2>2. Trace(1)
    BY <1>2, <2>1
  <2>3. PICK i \in DOMAIN log : Call(log[i]) /\ log[i].client.op = 1
    BY <1>11, <2>1, <2>2 DEF Trace
  <2>4. MethodFor(Test.method) = Test.method
    BY <1>11 DEF MethodFor
  <2>5. i \in Looked
    BY <1>6, <1>10, <1>11, <2>1, <2>3, <2>4 DEF Call
  <2>6. PICK k \in Looked : log[k] \in Nth
    BY <1>4, <1>11, <2>5, NthIs
  <2>7. k \in DOMAIN log /\ log[k].body.path = "rpc"
    BY <1>10, <1>11, <2>6
  <2>8. log[k].client.op = 1 /\ log[k].body.flaws = FlawsFor(Test.method, 1)
    BY <1>6, <2>1, <2>7
  <2>9. log[k].body.flaws \cap Test.forbids = {}
    BY <1>11, <2>8 DEF FlawsFor
  <2> QED BY <1>10, <1>11, <2>6, <2>9
<1>12. CASE /\ Test.method = "SendMessage" /\ Test.ops = <<"SendMessage", "SendMessage">>
            /\ Test.nth = 2 /\ Test.forbids = {"contextId"}
  <2>1. Test.ops[1] = "SendMessage" /\ Test.ops[2] = "SendMessage" /\ Len(Test.ops) = 2
    BY <1>12
  <2>2. Trace(1) /\ Trace(2)
    BY <1>2, <2>1
  <2>3. PICK i \in DOMAIN log : Call(log[i]) /\ log[i].client.op = 1
    BY <2>1, <2>2 DEF Trace
  <2>4. PICK k \in DOMAIN log : Call(log[k]) /\ log[k].client.op = 2
    BY <2>1, <2>2 DEF Trace
  <2>5. i < k
    <3>1. i # k /\ ~(k < i)
      BY <1>2, <2>3, <2>4 DEF Calls
    <3> QED BY <1>3, <3>1
  <2>6. MethodFor("SendMessage") = "SendMessage"
    BY DEF MethodFor
  <2>7. \A j \in Looked : /\ j \in DOMAIN log /\ Call(log[j])
                          /\ log[j].client.op = 1 \/ log[j].client.op = 2
    <3> TAKE j \in Looked
    <3>1. j \in DOMAIN log /\ log[j].body.path = "rpc" /\ log[j].body.method = "SendMessage"
      BY <1>10, <1>12
    <3> QED BY <1>6, <2>1, <3>1 DEF Call
  <2>8. i \in Looked /\ k \in Looked
    <3>1. log[i].body.method = "SendMessage" /\ log[k].body.method = "SendMessage"
      BY <1>6, <2>1, <2>3, <2>4, <2>6 DEF Call
    <3> QED BY <1>10, <1>12, <2>3, <2>4, <3>1 DEF Call
  <2>9. ASSUME NEW j \in Looked
        PROVE  j = i \/ j = k
    <3>1. j \in Nat /\ i \in Nat /\ k \in Nat /\ j \in DOMAIN log
      BY <1>3, <1>4, <2>3, <2>4
    <3>2. ~(j < i /\ log[j].client.op = 1) /\ ~(i < j /\ log[j].client.op = 1)
      BY <1>2, <2>3, <2>7, <2>9, <3>1 DEF Calls
    <3>3. ~(j < k /\ log[j].client.op = 2) /\ ~(k < j /\ log[j].client.op = 2)
      BY <1>2, <2>4, <2>7, <2>9, <3>1 DEF Calls
    <3>4. log[j].client.op = 1 \/ log[j].client.op = 2
      BY <2>7, <2>9
    <3> QED BY <3>1, <3>2, <3>3, <3>4
  <2>10. Looked = {i, k}
    BY <2>8, <2>9
  <2>11. log[k] \in Nth
    BY <1>3, <1>4, <1>12, <2>5, <2>10, NthIs
  <2>12. log[k].body.flaws = {}
    <3>1. log[k].body.flaws = FlawsFor("SendMessage", 2)
      BY <1>6, <2>1, <2>4 DEF Call
    <3> QED BY <3>1 DEF FlawsFor
  <2>13. log[k].body.flaws \cap Test.forbids = {}
    BY <2>12
  <2> QED BY <1>10, <1>12, <2>11, <2>13
<1> QED BY <1>1, <1>7, <1>8, <1>9, <1>11, <1>12 DEF Judgeable

-----------------------------------------------------------------------------
\* The log is clear when a test begins.
LEMMA StartTestAsked ==
    ASSUME IInv, StartTest, ~late'
    PROVE  WellAsked'
<1>1. /\ log' = <<>> /\ arriving' = {} /\ op' = 0 /\ pc' \in {"ask", "override"}
      /\ serving' = serving /\ answers' = answers /\ pc = "next"
  BY DEF StartTest, Reset
<1>2. serving' = {} /\ answers' = {}
  BY <1>1 DEF IInv, TypeOK
<1>3. Range(log') = {} /\ DOMAIN log' = {}
  BY <1>1, EmptyLog
<1>4. AllAsked' /\ Calls' /\ Recorded'
  BY <1>1, <1>2, <1>3 DEF AllAsked, Calls, Recorded
<1>5. Traces'
  BY <1>1 DEF Traces, Over
<1> QED BY <1>1, <1>4, <1>5 DEF WellAsked

\* Nothing is asked for while a handler is set, or before a process runs.
LEMMA BeforeAsked ==
    ASSUME IInv, WellAsked, OverrideHandler \/ StartClient
    PROVE  WellAsked'
<1>1. /\ UNCHANGED <<log, arriving, serving, test, answers>>
      /\ \/ pc = "override" /\ pc' = "ask" /\ op' = op
         \/ pc = "ask" /\ pc' = "running" /\ op' = op + 1
  BY DEF OverrideHandler, StartClient, SetHandler, server
<1>2. op \in Nat /\ op' \in Nat /\ op <= op'
  BY <1>1 DEF IInv, TypeOK, RunnerTypes
<1>3. serving = {} /\ answers = {}
  BY <1>1 DEF IInv, TypeOK
<1>4. AllAsked'
  <2>1. test' = test /\ arriving' = arriving /\ log' = log /\ serving' = serving
    BY <1>1
  <2>2. Test' = Test
    BY <2>1 DEF Test
  <2>3. \A n \in 1..op : n \in 1..op'
    BY <1>2
  <2>4. ASSUME NEW r, AsAsked(r)
        PROVE  AsAsked(r)'
    <3>1. r.client.op \in 1..op'
      BY <2>3, <2>4 DEF AsAsked
    <3> QED BY <2>2, <2>4, <3>1 DEF AsAsked
  <2>5. \A r \in arriving \cup Range(log) \cup serving : AsAsked(r)
    BY DEF WellAsked, AllAsked
  <2> QED BY <2>1, <2>4, <2>5 DEF AllAsked
<1>5. Over' = Over
  <2>1. (op + 1) - 1 = op
    BY <1>2
  <2>2. pc # "running"
    BY <1>1
  <2>3. CASE pc' = "ask" /\ op' = op
    BY <2>2, <2>3 DEF Over
  <2>4. CASE pc' = "running" /\ op' = op + 1
    BY <2>1, <2>2, <2>4 DEF Over
  <2> QED BY <1>1, <2>3, <2>4
<1>6. Traces'
  <2>1. test' = test /\ log' = log
    BY <1>1
  <2>2. Test' = Test
    BY <2>1 DEF Test
  <2> QED BY <1>5, <2>1, <2>2 DEF WellAsked, Traces, Trace
<1>7. \A r \in arriving : ~Call(r)
  BY <1>1 DEF WellAsked, Calls
<1>8. Calls'
  BY <1>1, <1>7 DEF WellAsked, Calls
<1>9. Recorded'
  BY <1>1, <1>3 DEF Recorded
<1> QED BY <1>1, <1>4, <1>6, <1>8, <1>9 DEF WellAsked

\* What the client sends is what it is asked for.
LEMMA SendAsked ==
    ASSUME IInv, WellAsked, ~late, pc = "running", NEW b \in Bodies[Op], SendRequest(b), ~fault'
    PROVE  WellAsked'
<1>1. PICK r : r = [client |-> Me, n |-> sends + 1, body |-> b]
  OBVIOUS
<1>2. /\ UNCHANGED <<log, handlers, serving, test, pc, op, answers>>
      /\ arriving' = arriving \cup {r} /\ Proper(b)
  BY <1>1 DEF SendRequest, Arrive
<1>3. r.client = Me /\ r.client.op = op /\ r.body = b
  BY <1>1 DEF Me
<1>4. op \in 1..op /\ Test' = Test /\ Over' = Over /\ Op' = Op /\ Test.ops[op] = Op
  BY <1>2 DEF IInv, Progress, Test, Over, Op
<1>5. AsAsked(r)
  <2>1. CASE IsCard(b)
    BY <1>3, <1>4, <2>1 DEF AsAsked
  <2>2. CASE Asked(b)
    <3>1. /\ b.path = "rpc" /\ ~Refused(b)
          /\ b.method = MethodFor(Op) /\ b.flaws = FlawsFor(Op, op)
      BY <2>2 DEF Asked, MethodFor, FlawsFor
    <3> QED BY <1>3, <1>4, <3>1 DEF AsAsked
  <2> QED BY <1>2, <2>1, <2>2 DEF Proper
<1>6. Call(r) => /\ \A q \in arriving : ~Call(q)
                 /\ \A q \in Range(log) : Call(q) => q.client.op < op
  <2> SUFFICES ASSUME Call(r)
               PROVE  /\ \A q \in arriving : ~Call(q)
                      /\ \A q \in Range(log) : Call(q) => q.client.op < op
    OBVIOUS
  <2>1. ~IsCard(b)
    BY <1>3, CardOrCall
  <2>2. ~AskedBefore
    BY <1>2, <2>1 DEF Proper
  <2>3. ASSUME NEW q \in arriving \cup Range(log), Call(q), q.client.op = op
        PROVE  FALSE
    <3>1. q \in Request /\ q.client.test = test
      BY RequestsTyped DEF IInv, Own, TypeOK, RequestTypes
    <3>2. q.client = Me
      BY <2>3, <3>1, ByName
    <3> QED BY <2>2, <2>3, <3>2 DEF AskedBefore, Call
  <2>4. \A q \in arriving : ~Call(q)
    BY <2>3 DEF WellAsked, Calls
  <2>5. ASSUME NEW q \in Range(log), Call(q)
        PROVE  q.client.op < op
    <3>1. q.client.op \in 1..op /\ op \in Nat
      BY DEF WellAsked, AllAsked, AsAsked, IInv, TypeOK, RunnerTypes
    <3>2. q.client.op # op
      BY <2>3, <2>5
    <3> QED BY <3>1, <3>2
  <2> QED BY <2>4, <2>5
<1>7. AllAsked'
  <2>1. \A q \in arriving \cup Range(log) \cup serving : AsAsked(q)
    BY DEF WellAsked, AllAsked
  <2>2. \A q : AsAsked(q)' = AsAsked(q)
    BY <1>2, <1>4 DEF AsAsked
  <2> QED BY <1>2, <1>5, <2>1, <2>2 DEF AllAsked
<1>8. Calls'
  <2>1. \A p, q \in arriving' : Call(p) /\ Call(q) => p = q
    BY <1>2, <1>6 DEF WellAsked, Calls
  <2>2. \A q \in arriving' : Call(q) =>
           q.client.op = op /\ \A p \in Range(log) : Call(p) => p.client.op < op
    BY <1>2, <1>3, <1>6 DEF WellAsked, Calls
  <2> QED BY <1>2, <2>1, <2>2 DEF WellAsked, Calls
<1>9. Traces' /\ Recorded'
  BY <1>2, <1>4 DEF WellAsked, Traces, Trace, Recorded
<1> QED BY <1>2, <1>7, <1>8, <1>9 DEF WellAsked

\* What arrives is recorded: it is neither refused nor meant for the log.
LEMMA ArrivalAsked ==
    ASSUME IInv, WellAsked, pc # "next", NEW r \in arriving,
           Record(r, Alive(r)) \/ Pass(r, Alive(r)) \/ handleInspectReset(r, Alive(r)),
           UNCHANGED runner
    PROVE  WellAsked'
<1>1. UNCHANGED <<test, pc, op, answers>>
  BY DEF runner
<1>2. AsAsked(r)
  BY DEF WellAsked, AllAsked
<1>3. ~Refused(r.body) /\ ~Inspects(r.body)
  <2>1. CASE IsCard(r.body)
    BY <2>1, CardOrCall
  <2>2. CASE r.body.path = "rpc"
    BY <1>2, <2>2, AskedCall
  <2> QED BY <1>2, <2>1, <2>2 DEF AsAsked
<1>4. /\ log' = Append(log, r) /\ arriving' = arriving \ {r}
      /\ serving' \subseteq serving \cup {r} /\ handlers' = handlers
  BY <1>3 DEF Record, Pass, handleInspectReset, Take, Inspects
<1>5. log \in Seq(Request) /\ r \in Request
  BY DEF IInv, TypeOK, RequestTypes
<1>6. /\ DOMAIN log = 1..Len(log) /\ DOMAIN log' = 1..Len(log) + 1 /\ Len(log) \in Nat
      /\ log'[Len(log) + 1] = r
      /\ \A i \in 1..Len(log) : log'[i] = log[i]
  BY <1>4, <1>5
<1>7. Range(log') = Range(log) \cup {r}
  <2>1. \A q \in Range(log') : q \in Range(log) \cup {r}
    BY <1>6 DEF Range
  <2>2. r \in Range(log')
    BY <1>6 DEF Range
  <2>3. \A q \in Range(log) : q \in Range(log')
    BY <1>6 DEF Range
  <2> QED BY <2>1, <2>2, <2>3
<1>8. Test' = Test /\ Over' = Over /\ Op' = Op
  BY <1>1 DEF Test, Over, Op
<1>9. AllAsked'
  <2>1. \A q : AsAsked(q)' = AsAsked(q)
    BY <1>1, <1>8 DEF AsAsked
  <2>2. \A q \in arriving' \cup Range(log') \cup serving' : AsAsked(q)
    BY <1>2, <1>4, <1>7 DEF WellAsked, AllAsked
  <2> QED BY <2>1, <2>2 DEF AllAsked
<1>10. Traces'
  <2> SUFFICES ASSUME NEW n \in 1..Over
               PROVE  Trace(n)'
    BY <1>8 DEF Traces
  <2>1. PICK i \in DOMAIN log : IF Test.ops[n] = "Discovery" THEN IsCard(log[i].body)
                                ELSE Call(log[i]) /\ log[i].client.op = n
    BY DEF WellAsked, Traces, Trace
  <2>2. i \in DOMAIN log' /\ log'[i] = log[i]
    BY <1>6
  <2> QED BY <1>8, <2>1, <2>2 DEF Trace
<1>11. Calls'
  <2>1. \A q \in arriving' : Call(q) => /\ pc' = "running" /\ q.client.op = op'
                                        /\ \A p \in Range(log') : Call(p) => p.client.op < op'
    <3> SUFFICES ASSUME NEW q \in arriving', Call(q)
                 PROVE  /\ pc' = "running" /\ q.client.op = op'
                        /\ \A p \in Range(log') : Call(p) => p.client.op < op'
      OBVIOUS
    <3>1. q \in arriving /\ q # r
      BY <1>4
    <3>2. ~Call(r)
      BY <3>1 DEF WellAsked, Calls
    <3> QED BY <1>1, <1>7, <3>1, <3>2 DEF WellAsked, Calls
  <2>2. ASSUME NEW i \in DOMAIN log', NEW j \in DOMAIN log', i < j, Call(log'[i]), Call(log'[j])
        PROVE  log'[i].client.op < log'[j].client.op
    <3>1. CASE j \in 1..Len(log)
      <4>1. i \in 1..Len(log)
        BY <1>6, <2>2, <3>1
      <4> QED BY <1>6, <2>2, <3>1, <4>1 DEF WellAsked, Calls
    <3>2. CASE j = Len(log) + 1
      <4>1. i \in 1..Len(log) /\ log'[i] = log[i] /\ log'[j] = r
        BY <1>6, <2>2, <3>2
      <4>2. log[i] \in Range(log)
        BY <1>6, <4>1 DEF Range
      <4>3. r.client.op = op /\ log[i].client.op < op
        BY <2>2, <4>1, <4>2 DEF WellAsked, Calls
      <4> QED BY <4>1, <4>3
    <3> QED BY <1>6, <2>2, <3>1, <3>2
  <2>3. \A p, q \in arriving' : Call(p) /\ Call(q) => p = q
    BY <1>4 DEF WellAsked, Calls
  <2> QED BY <2>1, <2>2, <2>3 DEF Calls
<1>12. Recorded'
  BY <1>1, <1>4, <1>7, <1>8 DEF WellAsked, Recorded
<1> QED BY <1>1, <1>8, <1>9, <1>10, <1>11, <1>12 DEF WellAsked

\* The answer to what was asked for is no error, unless the test bears one.
LEMMA AnswerAsked ==
    ASSUME IInv, MadeUp, WellAsked, NEW r \in serving, GetAnswer(r)
    PROVE  WellAsked'
<1>1. /\ UNCHANGED <<log, handlers, arriving, test, pc, op>>
      /\ serving' = serving \ {r}
      /\ answers' = IF r.body.path = "rpc" THEN answers \cup {Answer(r.body)} ELSE answers
  BY DEF GetAnswer, Serve
<1>2. pc = "running" /\ r.client = Me /\ r.client.op = op
  BY DEF IInv, Served, Me
<1>3. AsAsked(r) /\ r \in Range(log)
  BY DEF WellAsked, AllAsked, Recorded
<1>4. Test' = Test /\ Over' = Over /\ Op' = Op
  BY <1>1 DEF Test, Over, Op
<1>5. AllAsked'
  <2>1. \A q : AsAsked(q)' = AsAsked(q)
    BY <1>1, <1>4 DEF AsAsked
  <2> QED BY <1>1, <2>1 DEF WellAsked, AllAsked
<1>6. Traces' /\ Calls'
  BY <1>1, <1>4 DEF WellAsked, Traces, Trace, Calls
<1>7. Recorded'
  <2>1. CASE r.body.path # "rpc"
    BY <1>1, <1>4, <2>1 DEF WellAsked, Recorded
  <2>2. CASE r.body.path = "rpc"
    <3>1. op \in 1..Len(Test.ops) /\ Test.ops[op] = Op /\ Op \in Operations
      BY <1>2, Here DEF IInv, Progress, Op
    <3>2. Op # "Discovery" => Call(r)
      BY <1>2, <1>3, <2>2, <3>1, AskedCall, Methodical DEF Call
    <3>3. "error" = Answer(r.body) /\ Op # "Discovery" => Test.lenient
      BY <1>2, <1>3, <2>2, ErrorsBorne
    <3>4. "error" \in answers' /\ Op # "Discovery" => Test.lenient
      BY <1>1, <3>3 DEF WellAsked, Recorded
    <3> QED BY <1>1, <1>2, <1>3, <1>4, <3>2, <3>4 DEF WellAsked, Recorded
  <2> QED BY <2>1, <2>2
<1> QED BY <1>1, <1>2, <1>5, <1>6, <1>7 DEF WellAsked

\* A client that ends as it is answered has been recorded, and has not failed.
LEMMA ExitAsked ==
    ASSUME IInv, WellAsked, NEW failed \in BOOLEAN, ClientExits(failed), ~fault'
    PROVE  WellAsked' /\ pc' # "next" /\ verdict' = verdict
<1>1. /\ pc = "running" /\ EndsProperly(failed) /\ DriverReturns(failed, op)
      /\ op' = op /\ answers' = {} /\ HangUp(Me)
  BY DEF ClientExits, ClientEnds
<1>2. serving' = {} /\ log' = log /\ arriving' = arriving
  BY <1>1, HangUpEndsAll DEF IInv
<1>3. /\ op \in 1..Len(Test.ops) /\ Test.ops[op] = Op /\ Op \in Operations /\ op \in Nat
      /\ Len(Test.ops) \in 1..2
  BY <1>1, Here DEF IInv, Progress, Op
<1>4. AllAsked /\ Traces /\ Calls /\ Recorded
  BY DEF WellAsked
<1>5. Trace(op)
  <2>1. CASE Op = "Discovery"
    <3>1. PICK r \in Range(log) : IsCard(r.body)
      BY <1>1, <2>1 DEF EndsProperly
    <3>2. PICK i \in DOMAIN log : log[i] = r
      BY DEF Range
    <3> QED BY <1>3, <2>1, <3>1, <3>2 DEF Trace
  <2>2. CASE Op # "Discovery"
    <3>1. answers # {}
      BY <1>1, <2>2 DEF EndsProperly
    <3>2. PICK r \in Range(log) : Call(r) /\ r.client.op = op
      BY <1>4, <2>2, <3>1 DEF Recorded
    <3>3. PICK i \in DOMAIN log : log[i] = r
      BY DEF Range
    <3> QED BY <1>3, <2>2, <3>2, <3>3 DEF Trace
  <2> QED BY <2>1, <2>2
<1>6. ~(failed /\ ~Test.lenient)
  BY <1>1, <1>4 DEF EndsProperly, Recorded
<1>7. /\ verdict' = verdict /\ test' = test
      /\ \/ pc' = "ask"
         \/ pc' = "judge" /\ ~(op < Len(Test.ops))
  BY <1>1, <1>6 DEF DriverReturns
<1>8. Test' = Test
  BY <1>7 DEF Test
<1>9. \A r \in arriving : ~Call(r)
  <2> SUFFICES ASSUME NEW r \in arriving, Call(r)
               PROVE  FALSE
    OBVIOUS
  <2>1. r.client.op = op /\ \A q \in Range(log) : Call(q) => q.client.op < op
    BY <1>4 DEF Calls
  <2>2. CASE Op = "Discovery"
    <3>1. AsAsked(r) /\ r.body.path = "rpc" /\ r.body.method # "Discovery"
      BY <1>4 DEF AllAsked, Call
    <3> QED BY <1>1, <1>3, <2>1, <2>2, <3>1, AskedCall, Methodical
  <2>3. CASE Op # "Discovery"
    <3>1. PICK i \in DOMAIN log : Call(log[i]) /\ log[i].client.op = op
      BY <1>3, <1>5, <2>3 DEF Trace
    <3>2. log[i] \in Range(log)
      BY DEF Range
    <3> QED BY <1>3, <2>1, <3>1, <3>2
  <2> QED BY <2>2, <2>3
<1>10. Calls'
  BY <1>2, <1>4, <1>9 DEF Calls
<1>11. AllAsked'
  <2>1. \A q : AsAsked(q)' = AsAsked(q)
    BY <1>1, <1>8 DEF AsAsked
  <2> QED BY <1>2, <1>4, <2>1 DEF AllAsked
<1>12. Traces'
  <2>1. Over' = op
    BY <1>1, <1>7 DEF Over
  <2>2. \A n \in 1..op : Trace(n)
    <3>1. \A n \in 1..op : n = op \/ n \in 1..Over
      BY <1>1, <1>3 DEF Over
    <3> QED BY <1>4, <1>5, <3>1 DEF Traces
  <2>3. \A n : Trace(n)' = Trace(n)
    BY <1>2, <1>8 DEF Trace
  <2> QED BY <2>1, <2>2, <2>3 DEF Traces
<1>13. Recorded'
  BY <1>1, <1>2 DEF Recorded
<1>14. pc' = "judge" => op' = Len(Test'.ops)
  BY <1>1, <1>3, <1>7, <1>8
<1> QED BY <1>7, <1>10, <1>11, <1>12, <1>13, <1>14 DEF WellAsked

-----------------------------------------------------------------------------
\* Handlers that nobody sets are those that were made up before.
LEMMA MadeUpStays ==
    ASSUME IInv, IInv', MadeUp, handlers' = handlers, test <= test'
    PROVE  MadeUp'
<1>1. test \in Nat /\ test' \in Nat
  BY Finite DEF IInv, TypeOK, RunnerTypes
<1>2. \A i \in 1..Len(A2AClientTests) : i <= test => i <= test'
  BY <1>1, Finite
<1> QED BY <1>2 DEF MadeUp

\* What the runner does.
LEMMA RunnerPasses ==
    ASSUME IInv, IInv', Passing, RunnerStep
    PROVE  Passing'
<1>1. test \in Nat
  BY RequestsTyped DEF IInv
<1>2. CASE SkipTest
  <2>1. handlers' = handlers /\ test' = test + 1 /\ verdict' = "none" /\ pc' = "next"
    BY <1>2 DEF SkipTest, server
  <2>2. MadeUp'
    BY <1>1, <2>1, MadeUpStays DEF Passing
  <2> QED BY <2>1, <2>2 DEF Passing, Conforming, ConformingClientsPass
<1>3. CASE StartTest
  <2>1. handlers' = handlers /\ test' = test /\ verdict' = "none"
    BY <1>3 DEF StartTest, Reset
  <2>2. MadeUp'
    BY <1>1, <2>1, MadeUpStays DEF Passing
  <2>3. ~late' => WellAsked'
    BY <1>3, StartTestAsked
  <2> QED BY <2>1, <2>2, <2>3 DEF Passing, Conforming, ConformingClientsPass
<1>4. CASE OverrideHandler
  <2>1. /\ pc = "override" /\ test' = test /\ verdict' = verdict /\ fault' = fault /\ late' = late
        /\ handlers' = [x \in DOMAIN handlers \cup {"SendMessage"} |->
                           IF x = "SendMessage" THEN Test.override ELSE handlers[x]]
    BY <1>4 DEF OverrideHandler, SetHandler
  <2>2. test \in 1..Len(A2AClientTests) /\ test <= test'
    BY <1>1, <2>1, Here
  <2>3. MadeUp'
    <3>1. DOMAIN handlers' \subseteq {"SendMessage"} /\ handlers'["SendMessage"] = Test.override
      BY <2>1 DEF Passing, MadeUp
    <3> QED BY <2>1, <2>2, <3>1 DEF MadeUp, Test
  <2>4. ~fault /\ ~late => WellAsked'
    BY <1>4, <2>1, BeforeAsked DEF Passing, Conforming
  <2> QED BY <2>1, <2>3, <2>4 DEF Passing, Conforming, ConformingClientsPass
<1>5. CASE StartClient
  <2>1. /\ pc = "ask" /\ test' = test /\ verdict' = verdict /\ fault' = fault /\ late' = late
        /\ handlers' = handlers
    BY <1>5 DEF StartClient, server
  <2>2. MadeUp'
    BY <1>1, <2>1, MadeUpStays DEF Passing
  <2>3. ~fault /\ ~late => WellAsked'
    BY <1>5, <2>1, BeforeAsked DEF Passing, Conforming
  <2> QED BY <2>1, <2>2, <2>3 DEF Passing, Conforming, ConformingClientsPass
<1>6. CASE StartFails \/ KillClient
  <2>1. fault' = TRUE /\ handlers' = handlers
    BY <1>6 DEF StartFails, KillClient, ClientEnds, HangUp, server
  <2>2. test' = test \/ test' = test + 1
    BY <1>6 DEF StartFails, KillClient, DriverReturns
  <2>3. MadeUp'
    BY <1>1, <2>1, <2>2, MadeUpStays DEF Passing
  <2> QED BY <2>1, <2>3 DEF Passing, Conforming, ConformingClientsPass
<1>7. CASE Judge
  <2>1. /\ pc = "judge" /\ pc' = "next" /\ test' = test + 1 /\ fault' = fault /\ late' = late
        /\ handlers' = handlers /\ verdict' = IF Passes THEN "pass" ELSE "fail"
    BY <1>7 DEF Judge, server
  <2>2. MadeUp'
    BY <1>1, <2>1, MadeUpStays DEF Passing
  <2>3. ~fault /\ ~late => Passes
    BY <2>1, JudgePasses DEF Passing, Conforming
  <2> QED BY <2>1, <2>2, <2>3 DEF Passing, Conforming, ConformingClientsPass
<1> QED BY <1>2, <1>3, <1>4, <1>5, <1>6, <1>7 DEF RunnerStep

\* What the server and the client do.
LEMMA OthersPass ==
    ASSUME IInv, IInv', Passing, ServerStep \/ ClientStep
    PROVE  Passing'
<1>1. test \in Nat
  BY RequestsTyped DEF IInv
<1>2. ASSUME handlers' = handlers, test' = test, verdict' = verdict, late' = late,
             ~fault' => ~fault, pc' # "next" /\ ~fault' /\ ~late => WellAsked'
      PROVE  Passing'
  <2>1. MadeUp'
    BY <1>1, <1>2, MadeUpStays DEF Passing
  <2> QED BY <1>2, <2>1 DEF Passing, Conforming, ConformingClientsPass
<1>3. ASSUME NEW r \in arriving,
             Record(r, Alive(r)) \/ Pass(r, Alive(r)) \/ handleInspectReset(r, Alive(r)),
             UNCHANGED runner
      PROVE  Passing'
  <2>1. UNCHANGED <<handlers, test, verdict, late, fault, pc>>
    BY <1>3 DEF Record, Pass, handleInspectReset, Take, runner
  <2>2. pc # "next" /\ ~fault /\ ~late => WellAsked'
    BY <1>3, ArrivalAsked DEF Passing, Conforming
  <2> QED BY <1>2, <2>1, <2>2
<1>4. ASSUME NEW r \in serving, GetAnswer(r)
      PROVE  Passing'
  <2>1. UNCHANGED <<handlers, test, verdict, late, fault, pc>>
    BY <1>4 DEF GetAnswer, Serve
  <2>2. pc # "next" /\ ~fault /\ ~late => WellAsked'
    BY <1>4, AnswerAsked DEF Passing, Conforming
  <2> QED BY <1>2, <2>1, <2>2
<1>5. ASSUME pc = "running", NEW b \in Bodies[Op], SendRequest(b)
      PROVE  Passing'
  <2>1. UNCHANGED <<handlers, test, verdict, late, pc>> /\ (~fault' => ~fault)
    BY <1>5 DEF SendRequest
  <2>2. ~fault' /\ ~late => WellAsked'
    BY <1>5, <2>1, SendAsked DEF Passing, Conforming
  <2> QED BY <1>2, <2>1, <2>2
<1>6. ASSUME NEW failed \in BOOLEAN, ClientExits(failed)
      PROVE  Passing'
  <2>1. /\ pc = "running" /\ late' = late /\ handlers' = handlers /\ (~fault' => ~fault)
        /\ test' = test \/ test' = test + 1
    BY <1>6 DEF ClientExits, ClientEnds, HangUp, DriverReturns
  <2>2. MadeUp'
    BY <1>1, <2>1, MadeUpStays DEF Passing
  <2>3. ~fault' /\ ~late => WellAsked' /\ verdict' = verdict
    BY <1>6, <2>1, ExitAsked DEF Passing, Conforming
  <2> QED BY <2>1, <2>2, <2>3 DEF Passing, Conforming, ConformingClientsPass
<1> QED BY <1>3, <1>4, <1>5, <1>6 DEF ServerStep, ClientStep

\* Nothing has been asked at first.
LEMMA PassingInit == Init => Passing
BY DEF Init, ServerInit, Passing, MadeUp, Conforming, ConformingClientsPass

\* A client that does what it is asked for goes on to pass.
LEMMA PassingNext == IInv /\ IInv' /\ Passing /\ [Next]_vars => Passing'
<1> SUFFICES ASSUME IInv, IInv', Passing, [Next]_vars PROVE Passing'
  OBVIOUS
<1>1. CASE UNCHANGED vars
  <2>1. UNCHANGED <<log, handlers, arriving, serving, test, pc, op, answers, verdict, fault, late>>
    BY <1>1 DEF vars, server, runner
  <2>2. Test' = Test /\ Op' = Op /\ Over' = Over
    BY <2>1 DEF Test, Op, Over
  <2>3. WellAsked => WellAsked'
    BY <2>1, <2>2 DEF WellAsked, AllAsked, AsAsked, Traces, Trace, Calls, Recorded
  <2>4. MadeUp'
    BY <2>1 DEF Passing, MadeUp
  <2> QED BY <2>1, <2>3, <2>4 DEF Passing, Conforming, ConformingClientsPass
<1> QED BY <1>1, RunnerPasses, OthersPass DEF Next

\* A client that sends what it is asked for, once, and ends as it is answered passes every
\* test of the table, whatever the tests before it have done to the log and to the handlers of
\* the server they share (runner.go:136-176, a2a_tests.go:12-625).
THEOREM ConformingPass == Spec => []ConformingClientsPass
<1>1. Passing => ConformingClientsPass
  BY DEF Passing
<1> QED BY InitEstablishes, NextPreserves, PassingInit, PassingNext, <1>1, PTL DEF Spec
=============================================================================
