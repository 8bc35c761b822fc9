------------------------ MODULE ArpConformanceProps ------------------------
(***************************************************************************)
(* The correctness properties of ArpConformance.                           *)
(***************************************************************************)
EXTENDS ArpConformance

\* The ids a result may have: those of the checks, and of a gateway that failed.
IdsOf(checks) == {checks[k].id : k \in 1..Len(checks)}
Ids == {"gateway-start", "gateway-connect"} \cup (UNION {IdsOf(Suite[g].checks) : g \in 1..Len(Suite)})
Details == {Passed, "answer", "deadline", "no lifecycle agent", "start"}

\* The types of the runner's variables; a position within a group is a step of a check.
TypeOK ==
    /\ group \in 0..(Len(Suite) + 1)
    /\ check \in Nat \ {0} /\ step \in Nat \ {0}
    /\ InSuite => check <= Len(Suite[group].checks) /\ step <= Len(ThisCheck.steps)
    /\ late \in BOOLEAN /\ silent \in BOOLEAN
    /\ passedBy \in 0..MaxLate
    /\ results \in Seq([id : Ids, severity : {"required", "recommended"}, detail : Details])
    /\ gateway \in {"off", "up", "stopped"}
    /\ exit \in {Running, 0, 1, 2}

\* Whatever an earlier check left half done when its deadline passed, and whenever the
\* requests nobody waits for take effect, no required check fails for what the reference
\* server answers: a deadline that passed is the only reason (checks.go:54-701).
OnlyDeadlinesFailChecks ==
    \A i \in 1..Len(results) :
        results[i].severity = "required" =>
            results[i].detail \in {Passed, "deadline", "no lifecycle agent"}

\* The ids of the required checks that have failed.
Failed == {results[i].id : i \in RequiredFailures}

\* The groups stand for themselves: while the server answers, a deadline that passes
\* costs the checks of one group, never those of the groups after it (checks.go:56, 133,
\* 206, 342, 450, 503, 643).
OneDeadlineCostsOneGroup ==
    ~silent =>
        LET failed == Failed IN
        passedBy >= Cardinality({g \in 1..Len(Suite) : IdsOf(Suite[g].checks) \cap failed # {}})

\* The exit code 0 is a verdict on the whole suite: every required check has run and
\* passed, also when groups were cut short (main.go:33-46, harness.go:139-147).
ZeroMeansConforming ==
    exit = 0 =>
        \A g \in 1..Len(Suite) : \A k \in 1..Len(Suite[g].checks) :
            Suite[g].checks[k].severity = "required" =>
                \E i \in 1..Len(results) :
                    results[i].id = Suite[g].checks[k].id /\ results[i].detail = Passed

\* No check passes on an answer that was not given: at the step at which a deadline
\* passes, and from then on, or once the server is silent, a check that expects a
\* refusal fails like any other (checks.go:775-788).  A check that ends in a local step
\* has been answered.
PassesAreAnswered ==
    [][\A i \in (Len(results) + 1)..Len(results') :
          results'[i].detail = Passed => ~late /\ ~silent /\ UNCHANGED passedBy]_vars

\* The suite ends, and the process with it, also when the server answers no more: every
\* request that is waited for has a deadline (checks.go:56, 206, 386, 399, 430, 709).
SuiteEnds == <>(exit # Running)
=============================================================================
