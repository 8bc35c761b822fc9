----------------------------- MODULE Evaluator -----------------------------
(***************************************************************************)
(* How a response is judged: the partial match of internal/runner/         *)
(* evaluator.go, the expectations and references of transport.go, the      *)
(* conditions of runner.go.  Pure functions, used by SpecRunner.           *)
(*                                                                         *)
(* A JSON or YAML value is [kind, text, kids]: its text is what "%v"       *)
(* prints, its kids are its fields, or its items under "0", "1", ...       *)
(***************************************************************************)
EXTENDS Naturals, Sequences

CONSTANTS
    Json,        \* the values that occur, and every part of one
    Depth,       \* how deep a value is nested
    Conditions   \* the conditions "path in [values]": text -> [path, values]

\* Only maps and arrays have parts, and values are finite.
ASSUME ValuesAssumption ==
    /\ Depth \in [Json -> Nat]
    /\ \A v \in Json :
        /\ v.kind \in {"map", "array"} \/ DOMAIN v.kids = {}
        /\ \A k \in DOMAIN v.kids : v.kids[k] \in Json /\ Depth[v.kids[k]] < Depth[v]

NoKids == [k \in {} |-> k]
Nil == [kind |-> "null", text |-> "<nil>", kids |-> NoKids]

\* What a transport makes of an answer; Nil, <<>> where the code has nil.
NoResponse ==
    [status |-> "0", headers |-> NoKids, body |-> Nil, array |-> Nil,
     raw |-> FALSE, events |-> <<>>, rpc |-> Nil]

-----------------------------------------------------------------------------
Has(map, key) == key \in DOMAIN map.kids

\* evaluator.go: what is expected of a map or an array need only be a part.
matchValues[e \in Json] == [a \in Json |->
    \/ /\ e.kind \in {"map", "array"} /\ a.kind = e.kind
       /\ \A k \in DOMAIN e.kids : Has(a, k) /\ matchValues[e.kids[k]][a.kids[k]]
    \/ e.kind = "string" /\ e.text \in {"*", a.text}
    \/ e.kind \notin {"map", "array", "string"} /\ e.kind = a.kind /\ e.text = a.text]

\* A mutant: the items of an array may stand anywhere in it.
matchValuesUnordered[e \in Json] == [a \in Json |->
    \/ /\ e.kind \in {"map", "array"} /\ a.kind = e.kind
       /\ \A k \in DOMAIN e.kids : \E j \in DOMAIN a.kids :
             /\ e.kind = "map" => j = k
             /\ matchValuesUnordered[e.kids[k]][a.kids[j]]
    \/ e.kind = "string" /\ e.text \in {"*", a.text}
    \/ e.kind \notin {"map", "array", "string"} /\ e.kind = a.kind /\ e.text = a.text]

MatchUnordered(expected, actual) == matchValuesUnordered[expected][actual]
Match(expected, actual) == matchValues[expected][actual]

\* A path that leads nowhere ends in nil.
resolveJSONPath(data, path) ==
    LET at[i \in 0..Len(path)] ==
            IF i = 0 THEN data
            ELSE IF Has(at[i - 1], path[i]) THEN at[i - 1].kids[path[i]] ELSE Nil
    IN  at[Len(path)]

\* The part of a response that references and conditions are about.
mergeResponseData(resp) ==
    IF resp.rpc # Nil THEN resp.rpc
    ELSE IF resp.body # Nil THEN resp.body
    ELSE IF resp.array # Nil THEN
        [kind |-> "map", text |-> "map[body]", kids |-> [body |-> resp.array]]
    ELSE IF resp.events # <<>> THEN resp.events[Len(resp.events)]
    ELSE Nil

-----------------------------------------------------------------------------
\* transport.go: the checks of one expect step.  resp.headers gives a header's
\* name the texts its value contains.
toInt(v) == IF v.kind = "number" THEN v.text ELSE "0"

HeadersMatch(resp, e) ==
    /\ e.kind = "map"
    /\ \A k \in DOMAIN e.kids :
          k \in DOMAIN resp.headers /\ e.kids[k].text \in {"*"} \union resp.headers[k]

BodyMatches(resp, e) ==
    IF e.kind = "string" /\ e.text = "*" THEN resp.body # Nil \/ resp.array # Nil \/ resp.raw
    ELSE e.kind = "map" /\ resp.body # Nil /\ Match(e, resp.body)

EventMatches(resp, e) ==
    /\ resp.events # <<>>
    /\ \/ e.kind = "string" /\ e.text = "*"
       \/ e.kind = "map" /\ \E i \in DOMAIN resp.events : Match(e, resp.events[i])

\* A JSON-RPC response is matched against the whole of the expectation.
matchExpect(resp, expect) ==
    /\ Has(expect, "http_status") => toInt(expect.kids["http_status"]) = resp.status
    /\ Has(expect, "headers") => HeadersMatch(resp, expect.kids["headers"])
    /\ Has(expect, "body") => BodyMatches(resp, expect.kids["body"])
    /\ Has(expect, "jsonrpc") => resp.rpc # Nil /\ Match(expect, resp.rpc)
    /\ Has(expect, "sse_event") => EventMatches(resp, expect.kids["sse_event"])

\* runner.go: assert steps know one form of condition.
evaluateInCondition(cond, data) ==
    LET actual == resolveJSONPath(data, cond.path)
    IN  actual # Nil /\ actual.text \in cond.values

evaluateAssert(expect, resp) ==
    /\ Has(expect, "condition")
    /\ LET cond == expect.kids["condition"] IN
       /\ cond.kind = "string"
       /\ mergeResponseData(resp) # Nil
       /\ cond.text \in DOMAIN Conditions
       /\ evaluateInCondition(Conditions[cond.text], mergeResponseData(resp))
=============================================================================
