--------------------------- MODULE ArpConformance ---------------------------
(***************************************************************************)
(* The ARP conformance suite (arp/conformance, cmd/arp-conformance).       *)
(*                                                                         *)
(* One goroutine runs the checks in order against a server in the same     *)
(* process.  Every group has a deadline, and some checks have one of their *)
(* own within it.  A request may be answered, or its deadline may pass     *)
(* first: the check then fails at once, and the request may still take     *)
(* effect, at any time later, while other checks run.  After the deadline  *)
(* of a group the rest of its requests fail unsent.  The server may also   *)
(* stop answering for good.                                                *)
(***************************************************************************)
EXTENDS ArpReference

CONSTANTS
    Suite,      \* the groups, each the sequence of its checks (ArpChecks!ArpSuite)
    MaxLate     \* deadlines that pass while the server still answers

ASSUME MaxLateAssumption == MaxLate \in Nat

\* The steps of the runner that are not requests.
Local == {"lifecycleID", "go StopAgent"}

\* The code of a request whose context has ended.
DeadlineExceeded == "DeadlineExceeded"

\* The suite has groups, each has checks, and each check has steps, of which the last is
\* a request.  No check wants a request to time out.  None of a gateway is required.
ASSUME SuiteAssumption ==
    /\ Len(Suite) \in Nat \ {0}
    /\ \A g \in 1..Len(Suite) :
        /\ Suite[g].gateway \in BOOLEAN
        /\ Len(Suite[g].checks) \in Nat \ {0}
        /\ \A k \in 1..Len(Suite[g].checks) :
            LET c == Suite[g].checks[k] IN
            /\ c.severity \in {"required", "recommended", "setup"}
            /\ Suite[g].gateway => c.severity = "recommended"
            /\ Len(c.steps) \in Nat \ {0}
            /\ \A i \in 1..Len(c.steps) : c.steps[i].code # DeadlineExceeded
            /\ c.steps[Len(c.steps)].call.op \notin Local

\* agent-stop-ok spawns the agent it stops.
SpawnsFirst(c) ==
    /\ c.id = "agent-stop-ok" /\ c.severity = "required"
    /\ c.steps[1].call.op = "SpawnAgent" /\ c.steps[1].code = "OK"

\* No two groups have checks of one id.  A check that takes up the agent of agent-stop-ok
\* comes after it in the same group.
ASSUME DependenciesAssumption ==
    /\ \A g, h \in 1..Len(Suite) :
        \A k \in 1..Len(Suite[g].checks), l \in 1..Len(Suite[h].checks) :
            Suite[g].checks[k].id = Suite[h].checks[l].id => g = h
    /\ \A g \in 1..Len(Suite) : \A k \in 1..Len(Suite[g].checks) :
        \A i \in 1..Len(Suite[g].checks[k].steps) :
            LET call == Suite[g].checks[k].steps[i].call IN
            /\ call.op = "SpawnAgent" /\ Suite[g].checks[k].id = "agent-stop-ok" => call.name # None
            /\ call.op = "lifecycleID" => \E j \in 1..(k - 1) : SpawnsFirst(Suite[g].checks[j])

VARIABLES
    group, check, step,  \* where the suite is: indices, group 0 before it has begun
    late,       \* the deadline of the group has passed
    passedBy,   \* the number of deadlines that passed while the server answered
    results,    \* run.results
    lifecycleID,\* the agent agent-stop-ok has spawned, or None
    server,     \* the state of the server under test
    gateway,    \* the server with a gateway of the last group: "off", "up" or "stopped"
    adrift,     \* requests nobody waits for that may still reach the server
    silent,     \* the server answers no more
    exit        \* the exit code of the process, or Running

position == <<group, check, step>>
vars == <<position, late, passedBy, results, lifecycleID, server, gateway, adrift, silent, exit>>

Running == -1
Passed == "passed"

Init ==
    /\ group = 0 /\ check = 1 /\ step = 1
    /\ late = FALSE /\ passedBy = 0
    /\ results = <<>>
    /\ lifecycleID = None
    /\ server = Seeded(FALSE)
    /\ gateway = "off"
    /\ adrift = {}
    /\ silent = FALSE
    /\ exit = Running

----------------------------------------------------------------------------
(* Moving on                                                               *)

InSuite == exit = Running /\ group \in 1..Len(Suite)
ThisCheck == Suite[group].checks[check]
ThisStep == ThisCheck.steps[step]

\* The gateway's server must be up before the requests of its group are sent.
Ready == InSuite /\ (Suite[group].gateway => gateway = "up")

\* Mutant of LeaveGroup: the groups share a context.
LeaveGroupInContext ==
    /\ group' = group + 1 /\ check' = 1 /\ step' = 1
    /\ UNCHANGED late
    /\ gateway' = IF Suite[group].gateway THEN "stopped" ELSE gateway

\* defer cancel(), and in the last group defer env.Stop().
LeaveGroup ==
    /\ group' = group + 1 /\ check' = 1 /\ step' = 1
    /\ late' = FALSE
    /\ gateway' = IF Suite[group].gateway THEN "stopped" ELSE gateway

\* The next check of the group, whose deadline has passed or not.
NextCheck(lateNow) ==
    IF check < Len(Suite[group].checks)
    THEN /\ check' = check + 1 /\ step' = 1
         /\ late' = lateNow
         /\ UNCHANGED <<group, gateway>>
    ELSE LeaveGroup

Recorded(c, detail) ==
    Append(results, [id |-> c.id, severity |-> c.severity, detail |-> detail])

\* check: the result of ThisCheck; detail is Passed or why it failed.  A setup request
\* has no result.
Report(detail) ==
    results' = IF ThisCheck.severity = "setup" THEN results ELSE Recorded(ThisCheck, detail)

NextStep(lateNow) ==
    IF step < Len(ThisCheck.steps)
    THEN step' = step + 1 /\ late' = lateNow /\ UNCHANGED <<group, check, gateway, results>>
    ELSE Report(Passed) /\ NextCheck(lateNow)

Fail(detail, lateNow) == Report(detail) /\ NextCheck(lateNow)

----------------------------------------------------------------------------
(* Steps of a check                                                        *)

\* Mutant of Meets: a refusal of any kind will do.
MeetsAnyRefusal(st, code, shown) ==
    IF st.code = "OK"
    THEN /\ code = "OK" /\ st.shows \subseteq shown /\ st.hides \cap shown = {}
         /\ Cardinality(shown) >= st.least
    ELSE code # "OK"

\* ok, wantCode, truthy: the answer, or the error in its place, is what the step expects.
Meets(st, code, shown) ==
    /\ code = st.code
    /\ code = "OK" =>
        /\ st.shows \subseteq shown
        /\ st.hides \cap shown = {}
        /\ Cardinality(shown) >= st.least

\* The server a request goes to.
Target == IF Suite[group].gateway THEN Seeded(TRUE) ELSE server

\* A stream has something to send: the agent's last event, or an agent to report.
Answerable(c) ==
    CASE c.op = "STOPPED"        -> server.agents[c.name].status = "STOPPED"
      [] c.op = "WatchWorkspace" -> InWorkspace(server, c.name) # {} \/ Code(server, c) # "OK"
      [] OTHER                   -> TRUE

Answered ==
    /\ Ready /\ ~late /\ ~silent
    /\ \E c \in {ThisStep.call}, after \in {After(Target, ThisStep.call)} :
        LET code == Code(Target, c) IN
        /\ c.op \notin Local
        /\ Answerable(c)
        /\ server' = IF Suite[group].gateway THEN server ELSE after
        /\ lifecycleID' =
              IF ThisCheck.id = "agent-stop-ok" /\ c.op = "SpawnAgent" /\ code = "OK"
              THEN c.name ELSE lifecycleID
        /\ IF Meets(ThisStep, code, IF code = "OK" THEN Shown(after, c) ELSE {})
           THEN NextStep(late)
           ELSE Fail("answer", late)
    /\ UNCHANGED <<passedBy, adrift, silent, exit>>

\* Requests that change what other requests meet; a token nobody received is not used.
Effects == {"RegisterProject", "UnregisterProject", "CreateWorkspace", "DestroyWorkspace",
            "SpawnAgent", "StopAgent", "RestartAgent"}

\* What a check makes of a request that ends with its deadline.
TimesOut(lateNow) ==
    IF Meets(ThisStep, DeadlineExceeded, {}) THEN NextStep(lateNow) ELSE Fail("deadline", lateNow)

\* Mutant of DeadlinePasses: the events are awaited under a context without a deadline.
DeadlinePassesUnlessWatching(ofGroup) ==
    /\ Ready /\ ~late
    /\ ofGroup \/ ThisStep.nested
    /\ ThisStep.call.op \notin Local \cup {"STOPPED"}
    /\ IF silent THEN UNCHANGED passedBy ELSE passedBy < MaxLate /\ passedBy' = passedBy + 1
    /\ \/ UNCHANGED adrift
       \/ /\ ~silent /\ ThisStep.call.op \in Effects
          /\ adrift' = adrift \cup {ThisStep.call}
    /\ TimesOut(ofGroup)
    /\ UNCHANGED <<lifecycleID, server, silent, exit>>

\* A deadline passes before the request under way is answered: the group's, or with
\* ofGroup = FALSE the check's own.  The request is lost, or set adrift.
DeadlinePasses(ofGroup) ==
    /\ Ready /\ ~late
    /\ ofGroup \/ ThisStep.nested
    /\ ThisStep.call.op \notin Local
    /\ IF silent THEN UNCHANGED passedBy ELSE passedBy < MaxLate /\ passedBy' = passedBy + 1
    /\ \/ UNCHANGED adrift
       \/ /\ ~silent /\ ThisStep.call.op \in Effects
          /\ adrift' = adrift \cup {ThisStep.call}
    /\ TimesOut(ofGroup)
    /\ UNCHANGED <<lifecycleID, server, silent, exit>>

\* The deadline has passed already: the request is not sent.
Unsent ==
    /\ Ready /\ late
    /\ ThisStep.call.op \notin Local
    /\ TimesOut(TRUE)
    /\ UNCHANGED <<passedBy, lifecycleID, server, adrift, silent, exit>>

\* agent-restart-ok begins with what agent-stop-ok has left it.
HaveLifecycleID ==
    /\ Ready /\ ThisStep.call.op = "lifecycleID"
    /\ IF lifecycleID # None THEN NextStep(late) ELSE Fail("no lifecycle agent", late)
    /\ UNCHANGED <<passedBy, lifecycleID, server, adrift, silent, exit>>

\* Mutant of GoStopAgent: it stops a seeded agent.
GoStopAgentSeeded ==
    /\ Ready /\ ThisStep.call.op = "go StopAgent"
    /\ adrift' = adrift \cup {[ThisStep.call EXCEPT !.op = "StopAgent", !.name = "crush-agent-001"]}
    /\ NextStep(late)
    /\ UNCHANGED <<passedBy, lifecycleID, server, silent, exit>>

\* go func() { StopAgent(context.Background(), ...) }()
GoStopAgent ==
    /\ Ready /\ ThisStep.call.op = "go StopAgent"
    /\ adrift' = adrift \cup {[ThisStep.call EXCEPT !.op = "StopAgent"]}
    /\ NextStep(late)
    /\ UNCHANGED <<passedBy, lifecycleID, server, silent, exit>>

\* A request nobody waits for reaches the server.
TakesEffect(c) ==
    /\ exit = Running /\ ~silent
    /\ server' = After(server, c)
    /\ adrift' = adrift \ {c}
    /\ UNCHANGED <<position, late, passedBy, results, lifecycleID, gateway, silent, exit>>

\* The backend call a handler waits for never returns, nor do those of later requests.
GoesSilent ==
    /\ InSuite /\ ~silent
    /\ silent' = TRUE
    /\ UNCHANGED <<position, late, passedBy, results, lifecycleID, server, gateway, adrift, exit>>

----------------------------------------------------------------------------
(* The servers and the process                                             *)

Exit(code) ==
    /\ exit' = code
    /\ UNCHANGED <<position, late, passedBy, results, lifecycleID, server, gateway, adrift, silent>>

\* main: Start and the client of Run succeed, and the first group begins.
Start ==
    /\ exit = Running /\ group = 0
    /\ group' = 1
    /\ UNCHANGED <<check, step, late, passedBy, results, lifecycleID, server, gateway, adrift,
                   silent, exit>>

\* Seed, the listener or the client fails.
StartFails == exit = Running /\ group = 0 /\ Exit(2)

GatewayStarts ==
    /\ InSuite /\ Suite[group].gateway /\ gateway = "off"
    /\ gateway' = "up"
    /\ UNCHANGED <<position, late, passedBy, results, lifecycleID, server, adrift, silent, exit>>

\* StartWithGateway or the client fails, which is the only result of the group.
GatewayFails(id) ==
    /\ InSuite /\ Suite[group].gateway /\ gateway = "off"
    /\ results' = Recorded([id |-> id, severity |-> "recommended"], "start")
    /\ LeaveGroup
    /\ UNCHANGED <<passedBy, lifecycleID, server, adrift, silent, exit>>

\* Mutant of RequiredFailures: a check that ran out of time is not held against the server.
RequiredFailuresInTime ==
    {i \in 1..Len(results) : results[i].detail \notin {Passed, "deadline"} /\ results[i].severity = "required"}

RequiredFailures ==
    {i \in 1..Len(results) : results[i].detail # Passed /\ results[i].severity = "required"}

\* main after Run, when the report is written.
Verdict ==
    /\ exit = Running /\ group = Len(Suite) + 1
    /\ Exit(IF RequiredFailures = {} THEN 0 ELSE 1)

ReportNotWritten == exit = Running /\ group = Len(Suite) + 1 /\ Exit(2)

Runner ==
    \/ Start \/ StartFails \/ GatewayStarts
    \/ \E id \in {"gateway-start", "gateway-connect"} : GatewayFails(id)
    \/ Answered \/ Unsent \/ HaveLifecycleID \/ GoStopAgent
    \/ \E ofGroup \in BOOLEAN : DeadlinePasses(ofGroup)
    \/ Verdict \/ ReportNotWritten

Next ==
    \/ Runner
    \/ \E c \in adrift : TakesEffect(c)
    \/ GoesSilent

Spec == Init /\ [][Next]_vars

\* The runner's goroutine goes on: a request is answered or its deadline passes; the
\* server, unless it is silent, gets to a request that has reached it.
FairSpec ==
    /\ Spec
    /\ WF_vars(Runner)
    /\ WF_vars(\E c \in adrift : TakesEffect(c))
=============================================================================
