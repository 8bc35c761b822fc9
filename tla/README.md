# TLA+ verification of spec-torture

spec-torture tests implementations of agent protocols (A2A, ARP) against executable
specifications. The repository holds the test tool (a runner, an evaluator, a result
store, a mock server for end-to-end cases) and a reference implementation of the Agent
Registry Protocol, `arp-server`, with its specification in `arp-spec/`.

The reference server is where most of the concurrency is: gRPC handlers in goroutines share
four tables under one mutex, let go of it to start and stop operating-system processes, and
publish events to streams. The test tool is sequential, but what it drives is not: runtimes
that answer late or never, clients that outlive their test, several processes on one database.

Contents: 1 inventory, 2 modules and their correspondence with the code, 3 runs,
4 fairness, 5 proofs, 6 disagreements between code and documents, 7 what is not modelled,
8 what could come next.

## 1. Inventory

| Component | State it keeps | Operations | Interacts with |
|---|---|---|---|
| ARP registry (`arp/server`: `project.go`, `workspace.go`, `agent.go`, `server.go`) | `projects`, `workspaces`, `agents`, `usedPorts` under `Server.mu` | Register/UnregisterProject, Create/DestroyWorkspace, Spawn/Stop/RestartAgent, `Server.Stop` | calls the backend with the mutex released; publishes events after each change |
| Backends (`arp/backend`) | processes, or listeners inside the server | `Spawn` with health check, `Handle.Stop` (SIGTERM, grace period, SIGKILL) | called by handlers |
| Server process (`cmd/arp-server`) | serving or shutting down | SIGTERM: `Server.Stop`, then `GracefulStop`, then exit | ends everything |
| Tokens, scopes, sessions (`token.go`, `scope.go`, `authenticate`) | `tokens`, and the session in each | CreateToken, authentication, issue of a child token by each spawn | every RPC starts with it, outside the mutex |
| Event streams (`discovery.go`, publishing in `server.go`) | `agentSubs`, `wsSubs`: channels of 32 events | WatchAgent, WatchWorkspace, publish, unsubscribe | handlers send, streams receive |
| Mock ARP daemon (`internal/mockserver/arp_lifecycle.go`) | `projects`, `workspaces`, `agents`, two counters | REST handlers, and a goroutine per spawn or restart that marks the agent ready | used by the end-to-end cases |
| Mock server (`internal/mockserver/server.go`, `arp_handlers.go`) | request log, handler overrides | JSON-RPC methods, stateless ARP routes, `Requests`, `Reset`, `SetHandler` | serves clients under test, read by the client runner |
| Test runner (`internal/runner`) | the last response, the results so far, containers | run a spec step by step over HTTP, JSON-RPC, SSE, MCP or docker; poll; interpolate; match | runtime under test, docker, store |
| Client runner (`internal/clientrunner`) | one mock server for all tests | reset, run a client, inspect what it sent | mock server |
| Result store (`internal/store`) | an SQLite database | SaveSpec, SaveTestRun, GetTestRun | `spec-torture run`, before and after the run |
| Conformance suite (`arp/conformance`, `cmd/arp-conformance`) | the results so far, the agent one check leaves to another, a server in the same process | run the checks of eight groups, each under a deadline; report; exit code | a client of the ARP server, in the last group of a second one |
| Schema and report, SDK clients, other CLIs, example agents | none to speak of | parsing, text output, stateless calls | |

**Where it is hard.**

* Every handler that touches a process runs in two or three lock sections with a blocking
  call between them (`agent.go:112-175`, `269-295`, `297-365`). The entry, the workspace
  or the whole table may have been changed by another handler when it comes back, and it
  writes all the same.
* `DestroyWorkspace` works from a snapshot of ids and removes the workspace by name, which
  by then may be somebody else's (`workspace.go:123-158`).
* A port is reserved in `usedPorts`, held by a process, and recorded in an entry; the three
  change at different times, and the health check asks the port and not the process.
* Authentication reads the token outside the mutex and the handler uses that copy later; the
  first spawn *establishes* a session in the stored token.
* Events are copies of entries made outside the mutex, sent to bounded channels without
  waiting; a watch takes its snapshot in one lock section and subscribes in another.
* Shutdown collects handles once while requests are still accepted, and waits for every handler, open
  watches included.
* In the mock daemon, a goroutine sets "ready" 100 ms later whatever happened meanwhile, and
  replies are encoded from entries that others may write.
* The test runner keeps one last response per case: which answer a step judges depends on polls
  that make no attempt, streams that are cut off, and requests that fail.
* A run is saved in many statements, another process may save the same spec, and either may die.
* The checks of the conformance suite share one server. A request whose deadline has passed, and a stop
  sent by a goroutine nobody waits for (`checks.go:412`), take effect while later checks run.
* All client tests share one mock server. Requests arrive after the test that caused them, and
  handler overrides outlive it.

`PROJECT.json` lists each of these hazards at its line with the properties that cover it.

**What makes each component correct.** Registry: no process, port or agent is lost; the
tables agree; an agent's process goes through the documented life; every handler of a request that
changes something returns and no agent stays in a transient status. Tokens: authority only narrows from token to token; a session is one
tree of spawns. Streams: a client that missed nothing converges to the truth, and no client
can hold up a handler. Mock daemon: the registry is a tree, ports are never handed out twice,
polling ends. Test runner: a verdict follows from the steps, a step judges the answer that is its
own, a pass means that the response matches, no container stays, the run ends. Store: what is
found is complete. Conformance suite: no check fails for what an earlier one has left half done, exit
code 0 is a verdict on all required checks, and the suite ends when the server does not answer. Client
runner: a pass is earned by the client under test, and a client that
behaves passes whatever the tests before it did.

## 2. Modules

Each component has a specification (`X.tla`), its properties (`XProps.tla`), an instance for
TLC (`MCX.tla` with its `.cfg` files) and, where something is proved, `X_proofs.tla`.
Every action is one lock section, or one call made without the lock; a request refused before
it changes anything is a stuttering step and is not written. Operators whose comment says
"faulty variant", "mutant" or "a change a bug could make" are not part of the specification:
each is a deliberately wrong form of the definition next to it, used to confirm that a
property fails when the code is broken that way.

### ArpLifecycle (with AgentLifecycle)

| Model | Code |
|---|---|
| `projects`, `workspaces`, `usedPorts` | the maps of `Server`; `NoWorkspace` for an absent entry |
| `agents` | every `agentEntry` ever made; `registered` says that it is in `Server.agents` (handlers keep pointers to entries that have been removed) |
| `procs` | processes of the backend: running or not, the port they were told, and whether they listen on it |
| `calls[c]` | a handler: program point `pc` and local variables |
| `server` | phase of `cmd/arp-server`, the handles `Server.Stop` still has to stop, the backend in use, the watch streams that are open |

`ReserveAgent`, `AttachSpawned`, `SpawnFailed` are the lock sections of `spawnAgentInternal`;
`StopBegins`, `HandleStops`, `StopEnds` those of `stopAgentInternal` around `handle.Stop`;
`ReallocPort`, `AttachRestarted`, `RestartFailed` the rest of `RestartAgent`;
`RemoveWorkspace` the last section of `DestroyWorkspace`. `CreateWorkspace` runs the spawn
once per auto-agent. `ExecStart`, `MockStart`, `HealthCheckPasses`, `HealthCheckFails` are the
backend. `AllocPort` is the real allocator: lowest free port of the range, else any port the
system hands out.

Abstracted: ids and process ids are numbered in order of creation (ids chosen by clients
are refused when taken, which adds nothing); the templates are reduced to whether the one asked
for can be resolved; grace periods and health-check retries end at a nondeterministic moment.

A watch is here only a handler that does not return before its client lets go. Which are open is a
choice when the server stops accepting (`GracefulStop`); it then waits for their clients (`CloseStream`)
before `ServerExits`. What a watch is sent is `ArpWatch`'s.

`AgentLifecycle` is the documented machine of one agent: the arrows of `arp-spec/overview.md` and the
restart of `services-agent.md`, which is a stop and a spawn, so that STARTING comes between STOPPED and
READY or ERROR. `ProcessLifecycle` in `ArpLifecycleProps` instantiates it with the `Stage` of each agent's
process: the status of its entry, but STARTING while a restart is starting the process again. The status
alone does not follow the machine, since a restart leaves STOPPED where it is while the new process starts
(section 6). `ProcessLifecycle` the server implements as long as requests do not overlap on a workspace
(`DisciplinedSpec`), and not otherwise.

### ArpWatch

One workspace. A handler is the list of steps it still has to take (`SpawnSteps`, `StopSteps`,
`RestartSteps`): set a status, copy the entry, send the copy to the agent's subscribers, send it
to the workspace's. These are the separate steps of `publishAgentEvent` (`server.go:400-429`).
A stream goes through snapshot, subscription, initial events, loop and unsubscription.
`TrySend` drops what a full channel cannot take. `lost` is a history flag: something was
published that this stream will not deliver; it may be set too early, never too late.
Ports and processes are left to `ArpLifecycle`; auto-agents are spawns of their own; the
initial events of one watch are one step.

### ArpTokens

A request's principal is built outside the lock (`Authenticate`) and used in a later lock
section; meanwhile other requests run. `CreateToken` and `SpawnAgent` issue tokens; the first
spawn of a caller establishes the session in the caller's stored token. Bearer strings are
identified with token ids; an agent is known by the id of the token it was given; a token may
expire at any time; random ids and session ids never collide; `DestroyWorkspace` removes any
set of one project's agents that may be a workspace's and that `workspaceVisible` lets the caller see.

### MockArp

The handlers of `arp_lifecycle.go` are one lock section each. `timers[id]` counts the
goroutines that will mark `id` ready. `encoding` holds entries being written to a client after
the unlock; `DataRace` is the Go runtime stopping the process when such an entry is written
meanwhile, which it may do and need not. Workspaces are "active" as long as they exist, so the
status is not a variable. How many of the requested auto-agents have a template is a choice
between 0 and the bound.

### SpecTorture (with SpecDocker, SpecRunner, Evaluator, McpTools)

One command, `spec-torture run`, from opening the store to its exit. Each module EXTENDS the one
below it:

| Module | Code |
|---|---|
| `Evaluator` | `evaluator.go`, `transport.go`, the conditions of `runner.go`: `matchValues`, `resolveJSONPath`, `mergeResponseData`, `matchExpect`, `evaluateAssert` as functions. A value is a kind, the text `%v` prints, and its fields or items; `Depth` says how deep it is nested. `matchValues[e]` is the function that tells which values the pattern `e` matches |
| `McpTools` | `mcp_translator.go`: from a tool and its arguments to a request. An argument goes into the path as it is: `Segments` are what it makes there. `Operation` is what the daemon does for a path and a method, and about what (`arp_lifecycle.go`, `arp_handlers.go`); `Outcomes` what comes of a request, by way of the redirect with which Go's `ServeMux` answers a path with an empty segment or dots |
| `SpecRunner` | `Runner.Run` over HTTP: cases, steps, deadlines; `Send`, `Answered`, `RequestFails` are a request, `PollAgain` and `PollCancelled` its repetition, `EventArrives`, `StreamEnds`, `ReaderTimesOut` the reader of a stream |
| `SpecDocker` | `runTestCaseDocker` and `docker.go`: a container per case, and what may fail around it |
| `SpecTorture` | `cmd/spec-torture` and `internal/store`: the statements of `SaveSpec` and `SaveTestRun`, `StatementFails`, `Crash`, and `OtherSaves` for another process |

`heard` is a history variable: what the runtime answered in the current case, by step.
`unremoved` holds the containers whose removal failed or never came, by why: docker refused it
(`refused`), the process died (`died`), or the deadline passed while the container was starting, and
the code asks for its removal with a context that is over (`late`, `docker.go:80-82`). The reader of an event stream goes
on appending after its ten seconds; how many of the events the returned slice shows is a data race,
and a choice in `ReaderTimesOut`. Which answers the runtime gives is a choice from `Wires`, at any
time before the deadline or never. Durations are not measured: a wait, an interval and a timeout end
at some moment. Specs are constants: any sequence of cases of any sequence of steps.

### ClientRunner (with MockRpc)

`MockRpc` is the mock server: `Take` is the lock section that logs a request and looks up its
override, `Serve` the answer, `Reset` and `SetHandler` what the tests do to it. `ClientRunner` is
`clientrunner.Run` over the table of `a2a_tests.go`: a row says which operations a test begins, the
method it looks for in the log, which request of that method, and which flaws it does not
forgive. The client under test is a process that sends requests with any flaws, exits or does
not, and is killed at the deadline; a request that was sent may arrive after that, in another test
(`arriving`). `late` says that one did. A client *behaves* when it sends what each operation asks for,
without flaws, and sends it once.

### ArpConformance (with ArpReference and ArpChecks)

| Module | Code |
|---|---|
| `ArpReference` | the server as its clients meet it: `Code` is what a request is answered with, `After` what it leaves behind, `Shown` what the answer shows. A request is one step; `Seeded` is the state after `Seed(demoSeed())` |
| `ArpChecks` | `checks.go`: every check of the eight groups as the sequence of its requests and what each answer must be |
| `ArpConformance` | `check`, `ok`, `wantCode`, `truthy`, the contexts of the groups, `start`, and `main` to its exit code |

The runner is one goroutine: `Answered` is a request that comes back, `DeadlinePasses` one whose
deadline, its group's or its check's own, passes first. Such a request is lost, or goes into `adrift` and
reaches the server at any later time (`TakesEffect`), as does the stop that `GoStopAgent` sends from a
goroutine of its own. After the deadline of a group its other requests are `Unsent`. `GoesSilent` is a
handler whose backend call never returns: from then on no request is answered. The gateway's
server has a state of its own, which no check changes.

Abstracted: requests are atomic here, since their overlaps are the subject of `ArpLifecycle` and a
suite that waits for each answer overlaps only with `adrift` requests; with `MockBackend` a spawn finds a
port always, and its AgentCard is the template's. An answer is the set of things the checks look for. An
agent is named by the name it is spawned under, each of which the suite uses once.

## 3. Runs

TLC is run with two workers. "Violation" runs state something a document or a comment of the
repository says and exhibit the execution in which the code does otherwise (section 6).

| Run | Instance | What it shows |
|---|---|---|
| `arp_overlaps` | 2 handlers on 1 agent and 1 workspace name, both backends, SIGTERM at any moment, 1 watch stream | `TypeOK`, `HandleMatchesStatus`, `MembersRegistered` in every overlap of two requests, destruction and re-creation of the workspace included; `CallsReturn`, `TransientStatusesEnd`, and `ShutdownCompletes`: `Server.Stop` ends, and the server exits unless a client keeps a stream open |
| `arp_disciplined` | 2 handlers, 2 workspaces, 3 processes, processes may die | with one request at a time per workspace: `NoLostProcess`, `NoLeakedPort`, `AgentsHaveWorkspace`, `StopReturnsStopped`, and the refinement `ProcessLifecycle` |
| `arp_stopped`, `arp_exit` | 2 handlers (violations) | STOPPED with a running process; a process that outlives the server |
| `watch_streams` | 1 handler, 2 agents, 1 stream, channels of 2 events | `WatchersConverge`, `HandlersReturn` with a client that stops reading, `ReadersAreReleased` |
| `watch_gap` | 1 agent, channel of 8 (never full) (violation) | a workspace destroyed between snapshot and subscription leaves its stream open |
| `tokens` | 2 requests, 3 tokens, 2 sessions, 1 project | `AuthorityNarrows`, `SessionPropagates`, `OneRootPerSession`, `SpawnerSeesAgent` |
| `mock_registry` | 2 projects, 2 workspaces, 2 agents, 4 ports | `RegistryIsATree`, `PortsAreDistinct`, `StartingEnds` |
| `spec_torture` | 24 specs, over every transport and in containers; one run, one death, one save by another process | the verdicts and what they rest on (`VerdictsFollowSteps`, `AnswersAreTheirOwn`, `PassMeansMatch`, `ToolsReachTheirOperation`), what is stored (`StoredRunsAreWhole`, `StoredSpecsAreWhole`, `ValidSpecsAreSaved`), `NoContainerLeft`, and `RunsEnd` |
| `spec_patterns` | the same (violation) | an expectation whose keys are not looked at passes |
| `arp_conformance` | the suite as it is, 69 checks; one deadline passes at any request; any number of requests adrift; a server that may cease to answer | `OnlyDeadlinesFailChecks`, `OneDeadlineCostsOneGroup`, `ZeroMeansConforming`, `PassesAreAnswered`, `SuiteEnds` |
| `client_runner` | all tests of the table, one straggling request | `PassesAreEarned`, `ConformingClientsPass`, `RunEnds` |

**Bounds.** `arp_overlaps` has one agent, since its invariants are
proved for any number (section 5) and its liveness is expensive. Two handlers are enough for every race of a lock section with another handler's:
the code has no waiting among handlers, so a third only repeats what the second does. In
`arp_disciplined`, two agents make port conflicts and a `DestroyWorkspace` with more than one stop
possible; a second process per agent makes restarts possible; one port in the range exhausts it, and the port
outside it exercises the fallback. A channel of 2 overflows as soon as a client falls behind by
a request or two. Three tokens give a root, its child and a grandchild or a sibling; two sessions let two
requests establish one each. Four ports for two agents leave two restarts. Counters (agent ids,
process ids, ports, tokens) are bounded by these sets: a run in which they are used up only stops
issuing new ones.

`spec_torture` begins one run: a second starts from the state the first left in the database, which
a save by another process also leaves, and multiplies the states by a hundred (two runs, some
30 million states, are within reach but not worth repeating on every change). The specs are chosen so
that each kind of request, each outcome of a match and each way a case ends occurs; a stream of two
events tells the first from the last; polls of zero, two and a malformed number of attempts are the
edges. There is a call of each tool, and for `agent/stop`, whose argument stands inside the path, one with each
kind of argument that is not one segment: empty, dots, with a slash, with a question mark. The theorems of
section 5 hold without these bounds. `client_runner` lets one request at a
time be under way and one be late: the log has no order beyond that of arrival, and a second late
request finds the log as the first found it. A client sends up to two requests per operation, since a
test looks at the second one at most.

`arp_conformance` lets one deadline pass while the server answers (`MaxLate`): it may be any, and that the
groups do not depend on each other is what `OneDeadlineCostsOneGroup` shows. A server that has gone
silent costs any number.

Deadlock is checked except where the system may stop: after shutdown
(`arp_overlaps`, `arp_exit`), after the crash of the mock daemon, and when all runs are done
(`spec_torture`, `spec_patterns`, `client_runner`, `arp_conformance`).

**Symmetry** is used where only invariants or action properties of interchangeable handlers, workspace names,
tokens, sessions and projects are checked, never with liveness. Agent ids, process ids and
ports are ordered by the code and not symmetric. The runs of the test tools use none.

## 4. Fairness

* `ArpLifecycle.Fairness`: weak fairness of each handler's next step, because goroutines are
  scheduled and every backend call is bounded in time (retries of the health check, grace
  period, then SIGKILL); the same for the shutdown once begun. Nothing obliges a client to
  send a request or to close a watch stream, a process to exit, or an operator to signal.
* `ArpWatch.HandlersRun`: the same for handlers. `ClientsRead` is weak fairness of a stream's
  own steps and holds only while its client takes what it is sent; `HandlersReturn` does not
  assume it, `ReadersAreReleased` and `StreamClosesAfterDestroy` do.
* `MockArp.Fairness`: a sleeping goroutine wakes up and gets the mutex. It is suspended by a
  crash, which `StartingEnds` allows for.
* `SpecTorture.Spec`: weak fairness of the process's own steps, the store's and the runner's, of
  which the passing of the deadline is one: timers run. Nothing is assumed of the runtime, which may
  keep silent, nor of other processes. That docker answers its calls is assumed, since their
  contexts are not all bounded.
* `ArpConformance.FairSpec`: weak fairness of the runner, whose every wait ends with an answer or a
  deadline, and of the requests adrift as long as the server answers at all. Nothing is assumed of a
  server that has gone silent. The gateway's server is the exception: the runner itself seeds it, in
  its own process and without a deadline (`MockBackend.Spawn` ignores its context, `mock.go:59`), and that
  this comes to an end is assumed.
* `ClientRunner.Spec`: the same for the runner. Of the client only that the kill at the deadline ends
  it, see section 6; it need not send, answer or exit.

## 5. Proofs

TLAPS proves the following for every value of the constants, from the named assumptions on the
constants and nothing else.

**ArpLifecycle_proofs** (`ConstantsAssumption`: ids, processes and ports are numbers, the absent value is
none of them). `TypeCorrect`, `HandlesMatch`, `MembersAreRegistered`.
`TypeOK` is not inductive: a handler that attaches a process writes `calls[c].proc` into an
entry, so `LocalsSet` says which locals are set at which program point. Given the types,
`HandleMatchesStatus` follows from `EntryStep`, which lists the ways a step may change an entry.
`MembersRegistered` needs `Membership`: the snapshot of a `DestroyWorkspace` in flight holds
only agents of the workspace it will remove (`SnapOfWorkspace`), since otherwise removing a
workspace by name could leave members of another behind; and entries are registered only
once made (`RegisteredIsBorn`).

**ArpDisciplined_proofs** (the same). What holds of `DisciplinedSpec`, where no two requests overlap on
one workspace: `AgentsKeepWorkspace`, `StopsReturnStopped`, `ImplementsLifecycle`, `ProcessesAreKept`,
`PortsAreGivenBack`. `ImplementsLifecycle` is about `ProcessLifecycle`: that every step of the server takes
the process of one agent along a documented arrow, or none, a restart's start counting as STARTING although the
status does not say so. `Apart` is the inductive invariant all of them use: handlers in flight are in
different workspaces, so the entry a handler comes back to, after a backend call, is as it left it: its
program point and locals determine the entry's status (`StaysApart`). The refinement is proved action by action: each
step is a step of `AgentLifecycle` for one agent, of several for none, or a stutter. That no process is
lost is shown by what holds it: an entry, a handler in flight, or a backend call. `PortsAreGivenBack` states
`NoLeakedPort` for `server.backend = "exec"`: `MockBackend` may listen on another port than the one it was
given (`mock.go:68`), which the run's instance with `ExecBackend` does not meet either (section 6).

**ArpTokens_proofs** (`NoneAssumption`, `PermsAssumption`). `TypeCorrect`,
`AuthorityOnlyNarrows`, `SessionsAreTrees`, `SpawnersSeeAgents`, `SpawnsKeepSession`. The invariant adds
`PrincipalsMatch`: the authority a request copied outside the lock is still its token's,
because tokens are never changed except for their session and never withdrawn. This is the
fact that makes the unsynchronized read harmless. `SessionsIssued` says that sessions in
tokens are ones that were drawn, so a fresh one belongs to nobody; `AgentsInSession`, that
an agent is in the session of the token that spawned it. Every action is first shown to be a
`Step` (tokens only added or put into a session, agents only spawned or removed, principals
only copied from tokens), and the invariants are proved of `Step`.

**SpecTorture_proofs** (`FilesAssumption`: specs are finite sequences of cases of finite sequences of
steps, what a step expects is a mapping or absent, and there is a spec and a command line;
`AnswersAssumption`: an answer has a status, and an object or an array is not the empty text;
`ValuesAssumption`: only maps and arrays have parts, and the parts of a value are less deep than the value,
which for a JSON or YAML value is that it is finite; `RunsAssumption`). `TypeCorrect`, `VerdictsSound`,
`ContainersRemoved`, `AnswersOwn`, `PassesMatch`, `ToolsReach`, `StoredSpecsWhole`, `ValidSpecsSaved`,
`StoredRunsWhole`.
`Core` says where in the spec the runner is and that every step but the last has passed; while a request is in flight the last has too,
which is why `StepDone` keeps it. The actions are instances of five lemmas: a step is recorded, a case
is recorded, a case is over before its first step, the runner moves, the process is gone.
`Attempts` makes the bound of a poll inductive: between two attempts one is left. `SpecStore` describes
the open transaction: of the spec that is being saved as many cases are there as were written
(`WrittenCases`, which needs that no id is written twice, so that counting rows counts cases), every
other spec is whole, and nobody else writes meanwhile. `RunStore` does the same for the run: its rows in
the transaction are those of the first results (`RowsTo`), of which there are as many as results
(`RowsCounted`), and no stored run has the id of the one that is going on.
`Hears` is the strengthening for `AnswersAreTheirOwn`: nothing was heard of steps to come
(`HeardInTime`), the response the transport keeps is the latest one heard (`KeepsLatest`), and while a stream
is read the reader's events are those of the answer to the current step (`Asking`). What is heard only
grows (`Grows`), so what a recorded step was judged by stays the latest before it (`OwnKept`).
`PassesMatch` compares two accounts of the match, the recursion of the code (`matchValues`) and the paths
of a pattern (`Describes`). Both are first shown to unfold: a function for the recursion is exhibited, so the
one the definition chooses obeys it; a path after a key leads where it leads from the part under the key
(`KeyFirst`), so a pattern describes a value when its parts do (`DescribesParts`). They then agree by depth:
of the patterns for which they did not there would be one all of whose parts agree (`Shallowest`), and
`MatchByParts` excludes it. The strengthening over steps is `Kept` (what the transport keeps, and what is being
read, are values, under the rules of the transports) and `AllExpected` (a step that expects was given such a
response, and its status is the outcome of `matchExpect`); `Verdicts` goes through the keys of an expectation.
`CollectionsLead` and `MembersLead` go through the table of tools and the handlers: the path put together of a
route, an argument and a sub-action is that of the operation of the tool's name, about what the argument
names, and nothing else comes of it. The argument may be any text that is one segment of a path (`Plain`);
of others the theorem says nothing (section 6). `Called` carries it to the requests under way; that only a send
polls, and a tool call is never repeated, is in `Attempts`. `ContainersRemoved` accounts for every container that
outlives its case: docker refused, the process died, or the deadline passed while it was starting.

**ClientRunner_proofs** (`ClientsAssumption`, `OperationsAssumption`). `TypeCorrect`, `PassesEarned`,
`ConformingPass`. The table of tests is a constant expression, and `TableTyped` types it row by row. `Own` is the
strengthening: unless a request was late, all that is in the log or on its way since `Reset` is from a
client of the current test; `Served` says that only the process that runs waits for answers, so a
client that has ended cannot send in reaction to one. `ConformingPass` needs more (`WellAsked`): while the
client conforms, every request there is asks for the operation its process was started for (`AllAsked`),
at most one call of an operation is made and the calls are in the log in the order of the operations
(`Calls`), every operation that is over has left its request there (`Traces`), and an error was heard only
by a test that bears one (`Recorded`). Two facts about the table make that a pass (`TableOrdered`): each test
looks at the operation it asks for (`Judgeable`), and no test that needs the answer to a message comes after
the one whose handler makes up errors (`Unharmed`), which stays set (`MadeUp`).

**ArpWatch_proofs** (`BufSizeAssumption`; `NoneAssumption`: the absent value is no agent and no
status). `TypeCorrect`, `Converge`, `ConvergeAlone`. `Converge` has a hypothesis on the behaviour,
`[]Apart`: no two handlers are at work on one agent at a time. Without it the property is false
(section 6), because `publishAgentEvent` copies an entry outside the lock. Handlers of different
agents may overlap as they like, and so may watchers, which is more than the run's single handler;
`ConvergeAlone` is the case of the run. The strengthening `AllCurrent` holds at every moment and not
only when all is quiet: the last a client was told of an agent is its status (`Told`: the last event
queued about it or, if there is none, what the client has seen), or a handler is about to tell it,
or the status is ERROR. It needs to know what a handler does next: `Script` describes what may be
left to do (what is set is published next; what is sent was copied by the step before; a stop is
skipped to its end), `AgentScripts` and `DestroyScript` show that the handlers' steps are such, and
`Rest` that what is left of them is. `AllCopied` says that a copy on its way is still true, and
`AllFocused` that the stream of an agent is sent nothing about others.

**MockArp_proofs** (`BoundsAssumption`). `TypeCorrect`, `RegistryStaysATree`,
`PortsStayDistinct`. `CountersAhead` is the strengthening: every id and port in use is below
its counter. Stop, restart and the goroutines are instances of one lemma
(`EntryUpdateIsSafe`), auto-agents and spawns of another (`StartIsSafe`).

**ArpConformance_proofs** (`SuiteAssumption`: groups are sequences of checks and checks of steps, none of
which wants to time out, and the last step of a check is a request; `DependenciesAssumption`: no id is in two
groups, and a check that takes up the agent of `agent-stop-ok` comes after it in its group;
`MaxLateAssumption`). `TypeCorrect`, `ZeroIsConforming`, `PassesNeedAnswers`, `DeadlinesCostOneGroup`, for every
suite that meets them and not only the one of `ArpChecks`, and for any number of deadlines. `StepsMove`
says what any step does to position and results: a check goes on, or ends with one result, or the group of
the gateway does. `Reported` is the strengthening: every required check the position has moved past has
a result. With `ZeroAtTheEnd` it makes an exit with 0 a verdict on all of them. `DeadlinesCostOneGroup` has a
hypothesis on the behaviour, `[]OnlyDeadlinesFailChecks`, which the run checks of the suite as it is: that the
answers of a server that keeps up are the expected ones. It shows that, this given, the checks that fail are of
no more groups than deadlines have passed. The strengthening `Account` charges a group as soon as its deadline has
passed, before any check of it has failed (`Paid`): a group is charged once, because a later group starts
with a context of its own, and `HasAgent` says that the one thing a check takes from another, the agent of
`agent-stop-ok`, is there or the group has been charged.

The type invariants of `ArpTokens`, `MockArp`, `ClientRunner` and `ArpConformance` are proved, and no run
repeats them.

Only model-checked: `OnlyDeadlinesFailChecks`, which is about the 69 checks there are and the answers to
them, a computation rather than an argument; and all liveness (the prover does not do liveness under
fairness).

## 6. Where code and documents disagree

Shown by violation runs, each of which quotes its document in `PROJECT.json`:

* `arp_stopped`: a stop begins while a spawn is in flight and finds no handle (`agent.go:276`); the spawn
  attaches its process (`agent.go:161-167`); the second half of the stop sets STOPPED and drops the handle
  (`agent.go:286-292`). The process runs on, and no request reaches it. The process of a restart in flight
  is lost in the same way (`agent.go:350-355`).
* `arp_exit`: `Server.Stop` collects the handles before requests stop (`server.go:161-170`,
  `cmd/arp-server/main.go:71-72`).
* `watch_gap`: a watch takes its snapshot and subscribes in two lock sections (`discovery.go:109-134`).
* `spec_patterns`: keys of an expectation that are not known are not judged (`transport.go:175`).

Noticed while modelling, without a run of their own:

* A restart "re-spawns" (`services-agent.md:201`), and a spawn goes through STARTING, from which alone READY
  and ERROR are reached (`overview.md:359-363`); the code leaves the status STOPPED until it sets READY or ERROR
  (`agent.go:320-355`). `AgentLifecycle` is the documented machine, and `Stage` bridges the difference.
* With the permission SESSION a workspace may be destroyed "only if all agents are own-session"
  (`identity-and-scopes.md:185`); one such agent is enough (`workspace.go:138`, `server.go:292-301`).
  `ArpTokens` models what the code does, and no property is about it.
* Two READY agents can share a port, against "each agent has its own port": a stop frees the port in
  the entry (`agent.go:289`), the next spawn reserves it, and a second stop, restart or destroy of the
  first agent frees or reuses it again. This happens with clients that never overlap on a
  workspace. The health check asks the port and passes, as the other agent answers.
* `DestroyWorkspace` stops the agents of a snapshot (`workspace.go:142-158`): agents spawned during
  it stay, in a workspace that is gone.
* The mock daemon marks an agent ready 100 ms after its spawn whatever happened since
  (`arp_lifecycle.go:398-405`): a stop in between is undone, although `spec-e2e.yaml:163` verifies that
  the agent "shows as stopped". The end-to-end case polls for "ready" first and is not affected.
* Overlapping requests leave the documented status machine, e.g. STOPPING to READY when a spawn
  ends during a stop (`agent.go:147`, `167`; `overview.md:355-379`), and `StopAgent` then
  answers with another status than STOPPED (`agent.go:265`; `services-agent.md:175`).
* Two overlapping restarts of one agent reserve two ports and record one (`agent.go:322`).
* `UnregisterProject` succeeds while an agent of the project is being restarted and has
  the status STOPPED (`project.go:69-90`).
* A process that dies is never noticed: no step takes READY to ERROR for a crash
  (`overview.md:349`, `367`). `AgentLifecycle` leaves the arrow out.
* ERROR is not published to watchers (`agent.go:147`, `339`; `services-discovery.md:121`);
  `WatchersConverge` makes the exception explicit.
* `MockBackend` may listen on another port than the one reserved, whose reservation stays
  (`backend/mock.go:68`).
* Two overlapping handlers may send their copies of an entry in the wrong order
  (`server.go:403`), and the second of two destroys may send its last event to watchers of a
  re-created workspace. `WatchersConverge` is therefore checked, and proved, for handlers that do not overlap on an
  agent.
* The mock daemon replaces a workspace of the same name and keeps its agents
  (`arp_lifecycle.go:191`), after which the project they came from may be deleted.
* The table of step actions in `src/README.md` differs from `runner.go`: `exec` is skipped as not
  supported, a wait takes `payload.duration` (one second when there is none) and not a timeout of
  the step, and references are `$prev.path` and not template variables.
* An expectation with the key `jsonrpc` is matched against the response as a whole
  (`transport.go:174-182`), so together with `http_status` or `body` it never matches.
* `run` does not validate the spec (`cmd/spec-torture/main.go:66-96`): a duplicate case id shows as a
  failed insert. The exit code of `run` does not tell whether cases failed. SQLite's foreign keys are declared
  and not enforced.
* A container that is still starting at the deadline is left behind: `docker.go:80-82` removes it with the
  context that has just expired. `NoContainerLeft` names these containers (`unremoved.late`) beside
  those docker refuses to remove and those of a process that died, and shows that there are no others.
* An argument of a tool call goes into the path, or the query, unescaped (`mcp_translator.go:139`, `157-163`).
  An empty `agent_id` of `agent/stop` makes `/api/agents//stop`, which is redirected to
  `/api/agents/stop`, the status of an agent named stop; one with "/" or "?" reaches another handler as
  well. `ToolsReachTheirOperation` is stated for arguments that are one segment.
* `GracefulStop` waits for watch streams: one client that keeps its stream open keeps the server from
  exiting (`main.go:72`, `discovery.go:84-96`, `142-154`). `ShutdownCompletes` says so.
* `clientrunner/runner.go:157` says "Reset mock server state before each test"; `Reset` clears the log and
  leaves handler overrides (`server.go:176`). No later test of the table notices, as
  `ConformingClientsPass` shows; moving the overriding tests forward would break it.
* The test of context propagation looks at the second request (`a2a_tests.go:421`), which may be a
  retry of the first by a client that otherwise behaves. Behaving is defined as sending once.
* `Summarize` is said not to count optional failures (`conformance/harness.go:119`); it counts every
  result. No check of the suite is optional.
* `start` (`conformance/harness.go:76-79`) leaves the agents of the seed running when the listener
  fails.
* `cmd.Run` (`crush_driver.go:116`) waits for whoever holds the client's output: a grandchild that
  does keeps the test beyond its deadline. The model assumes that there is none.

## 7. What is not modelled, and why

* Read-only RPCs and listings: no state changes. Their visibility rules are in `ArpTokens`
  as operators used by the handlers that change something.
* `Seed` of the demo server: the same spawn, alone, before the server serves.
* A2A tasks of `MockBackend` (`mock.go:120-230`): one mutex around each request, and no part of
  the server reads them.
* Stream handlers of the mock server (`SetStreamHandler`): set by its own unit tests only. The bodies
  of its answers, beyond what a client reads from them.
* Listings of the store and `spec-torture` commands other than `run`; parsing of YAML; reports.
* SDK clients (stateless calls), but for the requests of the conformance suite; its report; example
  agents; generated code.

## 8. What could come next

* A composition of `SpecRunner` with `MockArp` for the end-to-end case that stops an agent, instead of
  a runtime that answers anything.
* Event publication by overlapping handlers in `ArpWatch`, with a weaker convergence property.
