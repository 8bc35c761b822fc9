------------------------------- MODULE MockRpc -------------------------------
(***************************************************************************)
(* The mock A2A server of internal/mockserver/server.go and the stateless  *)
(* ARP routes of arp_handlers.go: what it records of a request and what it *)
(* answers.                                                                *)
(*                                                                         *)
(* Recording a request and looking for a handler are two lock sections of  *)
(* a request's goroutine, so a request is first arriving, then being       *)
(* served; a request refused before it is recorded leaves no trace.  A     *)
(* body is its path, HTTP method and JSON-RPC method, and its flaws: what  *)
(* it lacks or has wrong of what some test looks at.                       *)
(*                                                                         *)
(* Nothing calls SetStreamHandler, so its branch of handleRPC is left out. *)
(***************************************************************************)
EXTENDS Naturals, Sequences, FiniteSets, Functions

CONSTANTS
    Clients,       \* who sends requests
    Bodies,        \* operation -> the requests they may send when asked for it
    MaxSends,      \* bound: requests one client sends
    MaxUnderWay    \* bound: requests sent and not answered

ASSUME BoundsAssumption == MaxSends \in Nat /\ MaxUnderWay \in Nat

VARIABLES
    log,           \* the recorded requests
    handlers,      \* overridden method -> the kind of answer its handler gives
    arriving,      \* requests sent, not yet recorded
    serving        \* requests recorded, not yet answered

server == <<log, handlers, arriving, serving>>

Methods == {"SendMessage", "GetTask", "CancelTask", "SendStreamingMessage"}
Answers == {"task", "message", "error", "events", "card", "agents", "requests", "ok", "notFound"}

Request == [client : Clients, n : 1..MaxSends, body : UNION Range(Bodies)]

ServerInit == log = <<>> /\ handlers = [m \in {} |-> "error"] /\ arriving = {} /\ serving = {}

\* handleRPC turns these away before it records anything.
Refused(b) == b.path = "rpc" /\ (b.http # "POST" \/ b.flaws \cap {"json", "version"} # {})

\* The endpoints that look at the log or clear it are not recorded.
Inspects(b) == b.path \in {"/_inspect/requests", "/_inspect/reset"}

\* Only handleRPC records a method.
MethodOf(r) == IF r.body.path = "rpc" THEN r.body.method ELSE ""

\* Where they are in the log.
RequestsByMethod(m) == {i \in DOMAIN log : MethodOf(log[i]) = m}

-----------------------------------------------------------------------------
\* The handlers a method has by itself.
handleSendMessage(b) == IF "messageId" \in b.flaws THEN "error" ELSE "task"
handleGetTask(b) == IF b.flaws \cap {"taskId", "otherTask"} # {} THEN "error" ELSE "task"
handleCancelTask(b) == IF "taskId" \in b.flaws THEN "error" ELSE "task"

DefaultAnswer(b) ==
    CASE b.method = "SendMessage" -> handleSendMessage(b)
      [] b.method = "GetTask" -> handleGetTask(b)
      [] b.method = "CancelTask" -> handleCancelTask(b)
      [] b.method = "SendStreamingMessage" -> "events"
      [] OTHER -> "error"

handleRPC(b) ==
    IF Refused(b) THEN "error"
    ELSE IF b.method \in DOMAIN handlers THEN handlers[b.method]
    ELSE DefaultAnswer(b)

\* /a2a/agents/{id}/...: by the end of the path.
handleARPAgentSubpath(b) ==
    IF "otherAgent" \in b.flaws THEN "notFound"
    ELSE CASE b.method = "agent-card.json" -> "card"
           [] b.method = "message:send" -> "task"
           [] b.method = "message:stream" -> "events"
           [] OTHER -> "ok"

handleARPRoute(b) == IF "otherTags" \in b.flaws THEN "notFound" ELSE "task"

Answer(b) ==
    CASE b.path = "rpc" -> handleRPC(b)
      [] b.path = "/.well-known/agent-card.json" -> "card"
      [] b.path = "/a2a/agents" -> "agents"
      [] b.path = "/a2a/discover" -> "agents"
      [] b.path = "/a2a/agents/" -> handleARPAgentSubpath(b)
      [] b.path = "/a2a/route/" -> handleARPRoute(b)
      [] b.path = "/_inspect/requests" -> "requests"
      [] b.path = "/_inspect/reset" -> "ok"

-----------------------------------------------------------------------------
Arrive(r) ==
    /\ Cardinality(arriving \cup serving) < MaxUnderWay
    /\ arriving' = arriving \cup {r}

\* record, in the goroutine of the request.
Take(r, alive) ==
    /\ arriving' = arriving \ {r}
    /\ serving' = IF alive THEN serving \cup {r} ELSE serving
    /\ UNCHANGED handlers

Record(r, alive) ==
    /\ r \in arriving
    /\ ~Refused(r.body) /\ ~Inspects(r.body)
    /\ log' = Append(log, r)
    /\ Take(r, alive)

Pass(r, alive) ==
    /\ r \in arriving
    /\ \/ Refused(r.body)
       \/ r.body.path = "/_inspect/requests"
    /\ Take(r, alive) /\ UNCHANGED log

\* Reset clears the log and nothing else.
handleInspectReset(r, alive) ==
    /\ r \in arriving /\ r.body.path = "/_inspect/reset"
    /\ log' = <<>>
    /\ Take(r, alive)

Serve(r) ==
    /\ r \in serving
    /\ serving' = serving \ {r}
    /\ UNCHANGED <<log, handlers, arriving>>

\* What becomes of the answer to a client that has ended is not followed.
HangUp(c) ==
    /\ serving' = {r \in serving : r.client # c}
    /\ UNCHANGED <<log, handlers, arriving>>

\* A mutant: the handlers of the tests before are kept, and the log too.
ResetNothing == UNCHANGED server
Reset == log' = <<>> /\ UNCHANGED <<handlers, arriving, serving>>

SetHandler(m, kind) ==
    /\ handlers' = [x \in DOMAIN handlers \cup {m} |-> IF x = m THEN kind ELSE handlers[x]]
    /\ UNCHANGED <<log, arriving, serving>>
=============================================================================
