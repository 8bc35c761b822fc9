----------------------- MODULE ArpConformance_proofs -----------------------
(***************************************************************************)
(* Proofs about ArpConformance, for every suite of checks.                 *)
(***************************************************************************)
EXTENDS ArpConformanceProps, FiniteSetTheorems, TLAPS

Result == [id : Ids, severity : {"required", "recommended"}, detail : Details]

\* The required checks before this position have a result of their own.
Reported ==
    \A g \in 1..Len(Suite) : \A k \in 1..Len(Suite[g].checks) :
        Suite[g].checks[k].severity = "required" /\ (g < group \/ (g = group /\ k < check)) =>
            \E i \in 1..Len(results) :
                results[i].id = Suite[g].checks[k].id /\ results[i].severity = "required"

\* The process exits with 0 at the end of the suite, where no required check has failed.
ZeroAtTheEnd == exit = 0 => group = Len(Suite) + 1 /\ RequiredFailures = {}

\* Before the first group the position is that of its first check.
Fresh == group = 0 => check = 1 /\ step = 1

IInv == TypeOK /\ Fresh /\ Reported /\ ZeroAtTheEnd

-----------------------------------------------------------------------------
(* What a step does to the results                                         *)

\* The check at this position ends with a result, unless it is a setup request, and the
\* next one is due.
CheckEnds(detail) ==
    /\ InSuite
    /\ detail \in Details
    /\ results' = IF ThisCheck.severity = "setup" THEN results ELSE Recorded(ThisCheck, detail)
    /\ \/ check < Len(Suite[group].checks) /\ check' = check + 1 /\ group' = group
       \/ check = Len(Suite[group].checks) /\ check' = 1 /\ group' = group + 1
    /\ step' = 1

\* The check goes on.
CheckGoesOn ==
    /\ InSuite /\ step < Len(ThisCheck.steps)
    /\ step' = step + 1
    /\ UNCHANGED <<group, check, results>>

\* A check that passes now is judged on an answer.
Progress ==
    \/ CheckGoesOn
    \/ \E detail \in Details : CheckEnds(detail) /\ (detail = Passed => ~late /\ ~silent)

\* The deadline of the next check of this group has passed, or a new context is made.
Lateness == late' \in BOOLEAN /\ gateway' \in {gateway, "stopped"}

\* There are groups.
LEMMA Groups == Len(Suite) \in Nat /\ 1 \in 1..Len(Suite)
  BY SuiteAssumption

\* What the assumption says of one check.
LEMMA Checks ==
    ASSUME NEW g \in 1..Len(Suite)
    PROVE  /\ Len(Suite[g].checks) \in Nat \ {0}
           /\ \A k \in 1..Len(Suite[g].checks) :
                /\ Suite[g].checks[k].severity \in {"required", "recommended", "setup"}
                /\ Len(Suite[g].checks[k].steps) \in Nat \ {0}
                /\ \A i \in 1..Len(Suite[g].checks[k].steps) :
                      Suite[g].checks[k].steps[i].code # DeadlineExceeded
                /\ Suite[g].checks[k].steps[Len(Suite[g].checks[k].steps)].call.op \notin Local
  BY SuiteAssumption

\* While it runs, the suite is at a step of a check of a group.
LEMMA Positions ==
    ASSUME TypeOK, InSuite
    PROVE  /\ Len(Suite) \in Nat /\ group \in 1..Len(Suite)
           /\ Len(Suite[group].checks) \in Nat /\ check \in 1..Len(Suite[group].checks)
           /\ Len(ThisCheck.steps) \in Nat /\ step \in 1..Len(ThisCheck.steps)
           /\ ThisCheck.steps[step].code # DeadlineExceeded
           /\ ThisCheck.steps[Len(ThisCheck.steps)].call.op \notin Local
           /\ ThisCheck.id \in Ids
           /\ ThisCheck.severity \in {"required", "recommended", "setup"}
  <1>1. Len(Suite) \in Nat /\ group \in 1..Len(Suite)
    BY SuiteAssumption DEF InSuite
  <1>2. Len(Suite[group].checks) \in Nat /\ check \in 1..Len(Suite[group].checks)
    BY <1>1, Checks DEF TypeOK
  <1>3. Len(ThisCheck.steps) \in Nat /\ step \in 1..Len(ThisCheck.steps)
    BY <1>1, <1>2, Checks DEF TypeOK, ThisCheck
  <1>4. ThisCheck.id \in Ids
    BY <1>1, <1>2 DEF ThisCheck, Ids, IdsOf
  <1> QED BY <1>1, <1>2, <1>3, <1>4, Checks DEF ThisCheck

\* NextCheck moves to the check after this one, in this group or the next (checks.go:45-48).
LEMMA NextCheckMoves ==
    ASSUME TypeOK, InSuite, NEW lateNow \in BOOLEAN, NextCheck(lateNow)
    PROVE  /\ \/ check < Len(Suite[group].checks) /\ check' = check + 1 /\ group' = group
              \/ check = Len(Suite[group].checks) /\ check' = 1 /\ group' = group + 1
           /\ step' = 1
           /\ Lateness
  <1>1. Len(Suite[group].checks) \in Nat /\ check \in 1..Len(Suite[group].checks)
    BY Positions
  <1>2. CASE check < Len(Suite[group].checks)
    BY <1>2 DEF NextCheck, Lateness
  <1>3. CASE ~(check < Len(Suite[group].checks))
    <2>1. LeaveGroup /\ check = Len(Suite[group].checks)
      BY <1>1, <1>3 DEF NextCheck
    <2> QED BY <2>1 DEF LeaveGroup, Lateness
  <1> QED BY <1>2, <1>3

\* A check that fails ends with a result that is not a pass (checks.go:45-48).
LEMMA FailEnds ==
    ASSUME TypeOK, InSuite, NEW lateNow \in BOOLEAN, NEW detail \in Details \ {Passed},
           Fail(detail, lateNow)
    PROVE  Progress /\ Lateness
  <1>1. Report(detail) /\ NextCheck(lateNow)
    BY DEF Fail
  <1>2. CheckEnds(detail) /\ Lateness
    BY <1>1, NextCheckMoves DEF Report, CheckEnds
  <1> QED BY <1>2 DEF Progress

\* A step that was answered leads to the next one, or the check passes.
LEMMA NextStepMoves ==
    ASSUME TypeOK, InSuite, NEW lateNow \in BOOLEAN, NextStep(lateNow),
           step < Len(ThisCheck.steps) \/ (~late /\ ~silent)
    PROVE  Progress /\ Lateness
  <1>1. CASE step < Len(ThisCheck.steps)
    BY <1>1 DEF NextStep, Progress, CheckGoesOn, Lateness
  <1>2. CASE ~(step < Len(ThisCheck.steps))
    <2>1. Report(Passed) /\ NextCheck(lateNow)
      BY <1>2 DEF NextStep
    <2>2. CheckEnds(Passed) /\ Lateness
      BY <2>1, NextCheckMoves DEF Report, CheckEnds, Details
    <2> QED
      BY <1>2, <2>2 DEF Progress, Details
  <1> QED BY <1>1, <1>2

\* A deadline that passes fails the check: no step expects it (checks.go:782-788).
LEMMA TimesOutFails ==
    ASSUME TypeOK, InSuite, NEW lateNow \in BOOLEAN, TimesOut(lateNow)
    PROVE  Fail("deadline", lateNow) /\ Progress /\ Lateness
  <1>1. ThisStep.code # DeadlineExceeded
    BY Positions DEF ThisStep
  <1>2. Fail("deadline", lateNow)
    BY <1>1 DEF TimesOut, Meets
  <1>3. Progress /\ Lateness
    BY <1>2, FailEnds DEF Details, Passed
  <1> QED BY <1>2, <1>3

\* A step that is not a request is never the last of its check.
LEMMA LocalGoesOn ==
    ASSUME TypeOK, InSuite, ThisStep.call.op \in Local
    PROVE  step < Len(ThisCheck.steps)
  BY Positions DEF ThisStep

\* Everything but the results and the position keeps its type, and the process goes on.
Outer ==
    /\ passedBy' \in 0..MaxLate
    /\ silent' \in BOOLEAN
    /\ exit = Running /\ exit' = Running

\* The steps that leave position and results alone.
Standing == UNCHANGED <<group, check, step, late, results>> /\ gateway' \in {gateway, "up"}

\* GatewayFails ends its group with a result that is not a required one.
GroupFails ==
    /\ InSuite /\ Suite[group].gateway
    /\ \E id \in Ids :
          results' = Append(results, [id |-> id, severity |-> "recommended", detail |-> "start"])
    /\ group' = group + 1 /\ check' = 1 /\ step' = 1

\* What the steps of the specification do to the position and the results.
LEMMA StepsMove ==
    ASSUME TypeOK, Next
    PROVE  \/ Progress /\ Lateness /\ Outer
           \/ GroupFails /\ Lateness /\ Outer
           \/ Standing /\ Outer
           \/ Start
           \/ StartFails \/ Verdict \/ ReportNotWritten
  <1>1. CASE Answered
    <2>1. InSuite /\ Outer /\ ~late /\ ~silent /\ late \in BOOLEAN
      BY <1>1 DEF Answered, Ready, InSuite, Outer, TypeOK
    <2>2. NextStep(late) \/ Fail("answer", late)
      BY <1>1 DEF Answered
    <2> QED
      BY <2>1, <2>2, NextStepMoves, FailEnds DEF Details, Passed
  <1>2. CASE Unsent
    <2>1. InSuite /\ Outer /\ TimesOut(TRUE)
      BY <1>2 DEF Unsent, Ready, InSuite, Outer, TypeOK
    <2> QED BY <2>1, TimesOutFails
  <1>3. CASE HaveLifecycleID
    <2>1. InSuite /\ Outer /\ late \in BOOLEAN /\ ThisStep.call.op \in Local
      BY <1>3 DEF HaveLifecycleID, Ready, InSuite, Outer, TypeOK, Local
    <2>2. NextStep(late) \/ Fail("no lifecycle agent", late)
      BY <1>3 DEF HaveLifecycleID
    <2> QED
      BY <2>1, <2>2, LocalGoesOn, NextStepMoves, FailEnds DEF Details, Passed
  <1>4. CASE GoStopAgent
    <2>1. InSuite /\ Outer /\ late \in BOOLEAN /\ ThisStep.call.op \in Local /\ NextStep(late)
      BY <1>4 DEF GoStopAgent, Ready, InSuite, Outer, TypeOK, Local
    <2> QED BY <2>1, LocalGoesOn, NextStepMoves
  <1>5. ASSUME NEW ofGroup \in BOOLEAN, DeadlinePasses(ofGroup)
        PROVE  Progress /\ Lateness /\ Outer
    <2>1. InSuite /\ TimesOut(ofGroup) /\ UNCHANGED <<silent, exit>>
      BY <1>5 DEF DeadlinePasses, Ready
    <2>2. passedBy' \in 0..MaxLate
      BY <1>5, MaxLateAssumption DEF DeadlinePasses, TypeOK
    <2> QED BY <2>1, <2>2, TimesOutFails DEF InSuite, Outer, TypeOK
  <1>6. ASSUME NEW id \in {"gateway-start", "gateway-connect"}, GatewayFails(id)
        PROVE  GroupFails /\ Lateness /\ Outer
    <2>1. id \in Ids
      BY DEF Ids
    <2>2. /\ InSuite /\ Suite[group].gateway
          /\ results' = Append(results, [id |-> id, severity |-> "recommended", detail |-> "start"])
      BY <1>6 DEF GatewayFails, Recorded
    <2>3. /\ group' = group + 1 /\ check' = 1 /\ step' = 1
          /\ Lateness
      BY <1>6 DEF GatewayFails, Lateness, LeaveGroup
    <2>4. Outer
      BY <1>6 DEF GatewayFails, Outer, TypeOK, InSuite
    <2> QED BY <2>1, <2>2, <2>3, <2>4 DEF GroupFails
  <1>7. CASE GatewayStarts
    BY <1>7 DEF GatewayStarts, InSuite, Standing, Outer, TypeOK, position
  <1>8. ASSUME NEW c \in adrift, TakesEffect(c) PROVE Standing /\ Outer
    BY <1>8 DEF TakesEffect, Standing, Outer, TypeOK, position
  <1>9. CASE GoesSilent
    BY <1>9 DEF GoesSilent, InSuite, Standing, Outer, TypeOK, position
  <1> QED
    BY <1>1, <1>2, <1>3, <1>4, <1>5, <1>6, <1>7, <1>8, <1>9 DEF Next, Runner

-----------------------------------------------------------------------------
(* The inductive invariant                                                 *)

\* A result that is added leaves those before it where they are, and comes last.
LEMMA ResultAdded ==
    ASSUME NEW q \in Seq(Result), NEW r \in Result
    PROVE  /\ Append(q, r) \in Seq(Result)
           /\ Len(q) \in Nat /\ Len(Append(q, r)) = Len(q) + 1
           /\ \A i \in 1..Len(q) : Append(q, r)[i] = q[i]
           /\ Append(q, r)[Len(q) + 1] = r
  OBVIOUS

\* The results keep their type and order: a step adds one, or none.
LEMMA ResultsGrow ==
    ASSUME TypeOK, Progress \/ GroupFails
    PROVE  /\ results' \in Seq(Result)
           /\ Len(results) \in Nat /\ Len(results') \in Nat
           /\ Len(results) <= Len(results')
           /\ \A i \in 1..Len(results) : results'[i] = results[i]
  <1>1. results \in Seq(Result)
    BY DEF TypeOK, Result
  <1>2. CASE results' = results
    BY <1>1, <1>2
  <1>3. ASSUME NEW r \in Result, results' = Append(results, r)
        PROVE  /\ results' \in Seq(Result)
               /\ Len(results) \in Nat /\ Len(results') \in Nat
               /\ Len(results) <= Len(results')
               /\ \A i \in 1..Len(results) : results'[i] = results[i]
    BY <1>1, <1>3, ResultAdded
  <1>4. CASE GroupFails
    <2>1. PICK id \in Ids :
             results' = Append(results, [id |-> id, severity |-> "recommended", detail |-> "start"])
      BY <1>4 DEF GroupFails
    <2>2. [id |-> id, severity |-> "recommended", detail |-> "start"] \in Result
      BY DEF Result, Details
    <2> QED BY <2>1, <2>2, <1>3
  <1>5. ASSUME NEW detail \in Details, CheckEnds(detail)
        PROVE  results' = results \/ \E r \in Result : results' = Append(results, r)
    <2>1. CASE ThisCheck.severity # "setup"
      <3>1. [id |-> ThisCheck.id, severity |-> ThisCheck.severity, detail |-> detail] \in Result
        BY <2>1, <1>5, Positions DEF CheckEnds, Result
      <3> QED BY <3>1, <2>1, <1>5 DEF CheckEnds, Recorded
    <2> QED BY <2>1, <1>5 DEF CheckEnds
  <1> QED
    BY <1>2, <1>3, <1>4, <1>5 DEF Progress, CheckGoesOn

\* The suite moves within its groups and their checks, or past the last one.
LEMMA PositionsKept ==
    ASSUME TypeOK, Progress \/ GroupFails, exit' = Running
    PROVE  /\ group' \in 0..(Len(Suite) + 1)
           /\ check' \in Nat \ {0} /\ step' \in Nat \ {0}
           /\ InSuite' => check' <= Len(Suite[group'].checks) /\ step' <= Len(ThisCheck'.steps)
  <1>1. InSuite
    BY DEF Progress, CheckGoesOn, CheckEnds, GroupFails
  <1>2. CASE CheckGoesOn
    BY <1>1, <1>2, Positions DEF CheckGoesOn, ThisCheck
  <1>3. CASE ~CheckGoesOn
    <2>1. /\ \/ check < Len(Suite[group].checks) /\ check' = check + 1 /\ group' = group
             \/ check' = 1 /\ group' = group + 1
          /\ step' = 1
      BY <1>3 DEF Progress, CheckEnds, GroupFails
    <2>2. group' \in 1..(Len(Suite) + 1) /\ check' \in Nat \ {0}
      BY <1>1, <2>1, Positions
    <2>3. ASSUME InSuite'
          PROVE  check' \in 1..Len(Suite[group'].checks)
      <3>1. group' \in 1..Len(Suite)
        BY <2>3 DEF InSuite
      <3>2. Len(Suite[group'].checks) \in Nat \ {0}
        BY <3>1, SuiteAssumption
      <3> QED BY <2>1, <3>2, <1>1, Positions
    <2>4. ASSUME InSuite'
          PROVE  1 <= Len(ThisCheck'.steps)
      <3>1. group' \in 1..Len(Suite) /\ check' \in 1..Len(Suite[group'].checks)
        BY <2>3, <2>4 DEF InSuite
      <3>2. Len(Suite[group'].checks[check'].steps) \in Nat \ {0}
        BY <3>1, SuiteAssumption
      <3> QED BY <3>2 DEF ThisCheck
    <2> QED BY <2>1, <2>2, <2>3, <2>4
  <1> QED BY <1>2, <1>3

\* A required check that the position has moved past has a result of its own: the one
\* that moved it there appended it, and a group without a gateway has no required check.
LEMMA ReportedKept ==
    ASSUME TypeOK, Reported, Progress \/ GroupFails
    PROVE  Reported'
  <1>. DEFINE Before(g, k) == g < group \/ (g = group /\ k < check)
              HasResult(id, q) == \E i \in 1..Len(q) : q[i].id = id /\ q[i].severity = "required"
  <1> SUFFICES ASSUME NEW g \in 1..Len(Suite), NEW k \in 1..Len(Suite[g].checks),
                      Suite[g].checks[k].severity = "required",
                      g < group' \/ (g = group' /\ k < check')
               PROVE  HasResult(Suite[g].checks[k].id, results')
    BY DEF Reported
  <1>1. InSuite
    BY DEF Progress, CheckGoesOn, CheckEnds, GroupFails
  <1>2. CASE Before(g, k)
    <2>1. PICK i \in 1..Len(results) :
             results[i].id = Suite[g].checks[k].id /\ results[i].severity = "required"
      BY <1>2 DEF Reported
    <2>2. i \in 1..Len(results') /\ results'[i] = results[i]
      BY ResultsGrow
    <2> QED BY <2>1, <2>2
  <1>3. CASE ~Before(g, k)
    <2>1. Len(Suite[group].checks) \in Nat /\ check \in 1..Len(Suite[group].checks)
          /\ group \in 1..Len(Suite) /\ Len(Suite) \in Nat
      BY <1>1, Positions
    <2>2. Len(Suite[g].checks) \in Nat
      BY SuiteAssumption
    <2>3. ~CheckGoesOn
      BY <1>3 DEF CheckGoesOn
    <2>4. ~GroupFails
      <3>1. ASSUME GroupFails PROVE FALSE
        <4>1. group' = group + 1 /\ check' = 1 /\ Suite[group].gateway
          BY <3>1 DEF GroupFails
        <4>2. g = group
          BY <4>1, <2>1, <1>3
        <4>3. Suite[g].checks[k].severity = "recommended"
          BY <4>1, <4>2, SuiteAssumption
        <4> QED BY <4>3
      <3> QED BY <3>1
    <2>5. PICK detail \in Details : CheckEnds(detail)
      BY <2>3, <2>4 DEF Progress
    <2>6. g = group /\ k = check
      <3>1. CASE check < Len(Suite[group].checks) /\ check' = check + 1 /\ group' = group
        BY <3>1, <2>1, <2>2, <1>3
      <3>2. CASE check = Len(Suite[group].checks) /\ check' = 1 /\ group' = group + 1
        <4>1. g = group
          BY <3>2, <2>1, <1>3
        <4> QED BY <4>1, <3>2, <2>1, <2>2, <1>3
      <3> QED BY <3>1, <3>2, <2>5 DEF CheckEnds
    <2>7. ThisCheck = Suite[g].checks[k]
      BY <2>6 DEF ThisCheck
    <2>8. results' = Append(results, [id |-> ThisCheck.id, severity |-> "required", detail |-> detail])
      BY <2>5, <2>7 DEF CheckEnds, Recorded
    <2>9. [id |-> ThisCheck.id, severity |-> "required", detail |-> detail] \in Result
      BY <1>1, Positions DEF Result
    <2>10. /\ Len(results) + 1 \in 1..Len(results')
           /\ results'[Len(results) + 1]
                 = [id |-> ThisCheck.id, severity |-> "required", detail |-> detail]
      BY <2>8, <2>9, ResultAdded DEF TypeOK, Result
    <2> QED BY <2>7, <2>10
  <1> QED BY <1>2, <1>3

\* The inductive invariant holds in the first state.
LEMMA InitIInv == Init => IInv
  <1> SUFFICES ASSUME Init PROVE IInv
    OBVIOUS
  <1>1. TypeOK
    <2>1. group = 0 /\ check = 1 /\ step = 1 /\ ~InSuite
      BY DEF Init, InSuite
    <2>2. results \in Seq([id : Ids, severity : {"required", "recommended"}, detail : Details])
      BY DEF Init
    <2>3. passedBy \in 0..MaxLate
      BY MaxLateAssumption DEF Init
    <2>4. group \in 0..(Len(Suite) + 1)
      BY <2>1, SuiteAssumption
    <2>5. exit \in {Running, 0, 1, 2} /\ gateway \in {"off", "up", "stopped"}
      BY DEF Init
    <2>6. late \in BOOLEAN /\ silent \in BOOLEAN
      BY DEF Init
    <2> QED BY <2>1, <2>2, <2>3, <2>4, <2>5, <2>6 DEF TypeOK
  <1>2. Reported
    BY SuiteAssumption DEF Init, Reported
  <1>3. Fresh /\ ZeroAtTheEnd
    BY DEF Init, Fresh, ZeroAtTheEnd, Running
  <1> QED BY <1>1, <1>2, <1>3 DEF IInv

\* Every step keeps the inductive invariant.
LEMMA NextIInv ==
    ASSUME IInv, [Next]_vars
    PROVE  IInv'
  <1>0. TypeOK /\ Fresh /\ Reported /\ ZeroAtTheEnd
    BY DEF IInv
  <1>1. CASE (Progress \/ GroupFails) /\ Lateness /\ Outer
    <2>1. Reported'
      BY <1>0, <1>1, ReportedKept
    <2>2. results' \in Seq(Result)
      BY <1>0, <1>1, ResultsGrow
    <2>3. exit' = Running
      BY <1>1 DEF Outer
    <2>4. /\ group' \in 0..(Len(Suite) + 1)
          /\ check' \in Nat \ {0} /\ step' \in Nat \ {0}
          /\ InSuite' => check' <= Len(Suite[group'].checks) /\ step' <= Len(ThisCheck'.steps)
      BY <1>0, <1>1, <2>3, PositionsKept
    <2>5. gateway' \in {"off", "up", "stopped"} /\ late' \in BOOLEAN
      BY <1>0, <1>1 DEF TypeOK, Lateness
    <2>6. passedBy' \in 0..MaxLate /\ silent' \in BOOLEAN
      BY <1>1 DEF Outer
    <2>7. TypeOK'
      BY <2>2, <2>3, <2>4, <2>5, <2>6 DEF TypeOK, Result
    <2>8. ZeroAtTheEnd'
      BY <2>3 DEF ZeroAtTheEnd, Running
    <2>9. Fresh'
      <3>1. group \in 1..Len(Suite) /\ (group' = group \/ group' = group + 1)
        BY <1>1 DEF Progress, CheckGoesOn, CheckEnds, GroupFails, InSuite
      <3> QED BY <3>1, SuiteAssumption DEF Fresh
    <2> QED BY <2>1, <2>7, <2>8, <2>9 DEF IInv
  <1>2. CASE Standing /\ Outer
    BY <1>0, <1>2
    DEF IInv, Standing, Outer, TypeOK, Fresh, Reported, ZeroAtTheEnd, InSuite, ThisCheck, Running
  <1>3. CASE Start
    <2>1. /\ group = 0 /\ group' = 1 /\ check = 1 /\ step = 1
          /\ exit' = Running
          /\ UNCHANGED <<check, step, late, passedBy, results, gateway, silent, exit>>
      BY <1>0, <1>3 DEF Start, Fresh
    <2>2. Len(Suite) \in Nat /\ 1 \in 1..Len(Suite)
      BY Groups
    <2>3. 1 <= Len(Suite[1].checks) /\ 1 <= Len(Suite[1].checks[1].steps)
      <3>1. Len(Suite[1].checks) \in Nat \ {0}
        BY <2>2, Checks
      <3>2. 1 \in 1..Len(Suite[1].checks)
        BY <3>1
      <3>3. Len(Suite[1].checks[1].steps) \in Nat \ {0}
        BY <2>2, <3>2, Checks
      <3> QED BY <3>1, <3>3
    <2>4. InSuite' => check' <= Len(Suite[group'].checks) /\ step' <= Len(ThisCheck'.steps)
      BY <2>1, <2>3 DEF ThisCheck
    <2>5. TypeOK'
      BY <1>0, <2>1, <2>2, <2>4 DEF TypeOK
    <2>6. Reported'
      <3>1. ASSUME NEW g \in 1..Len(Suite), NEW k \in 1..Len(Suite[g].checks)
            PROVE  ~(g < group' \/ (g = group' /\ k < check'))
        BY <2>1, <2>2, <3>1, Checks
      <3> QED BY <3>1 DEF Reported
    <2> QED BY <2>1, <2>5, <2>6 DEF IInv, Fresh, ZeroAtTheEnd, Running
  <1>4. CASE StartFails \/ Verdict \/ ReportNotWritten
    <2>1. /\ UNCHANGED <<group, check, step, late, passedBy, results, gateway, silent>>
          /\ exit' \in {0, 1, 2}
          /\ exit' = 0 => group = Len(Suite) + 1 /\ RequiredFailures = {}
      BY <1>4 DEF StartFails, Verdict, ReportNotWritten, Exit, position
    <2>2. TypeOK' /\ Fresh'
      BY <1>0, <2>1 DEF TypeOK, Fresh, InSuite, Running
    <2>3. Reported'
      BY <1>0, <2>1 DEF Reported
    <2>4. ZeroAtTheEnd'
      BY <2>1 DEF ZeroAtTheEnd, RequiredFailures
    <2> QED BY <2>2, <2>3, <2>4 DEF IInv
  <1>5. CASE UNCHANGED vars
    BY <1>0, <1>5
    DEF IInv, vars, position, TypeOK, Fresh, Reported, ZeroAtTheEnd, InSuite, ThisCheck,
        RequiredFailures
  <1> QED
    BY <1>0, <1>1, <1>2, <1>3, <1>4, <1>5, StepsMove

\* The inductive invariant holds throughout a run of the suite.
LEMMA AlwaysIInv == Spec => []IInv
  BY InitIInv, NextIInv, PTL DEF Spec

-----------------------------------------------------------------------------
(* What a deadline costs                                                   *)

\* The groups that have a required check that failed.
Hit == {g \in 1..Len(Suite) : IdsOf(Suite[g].checks) \cap Failed # {}}

\* A group whose deadline has passed is charged for it before a check of it has failed.
Charged == Hit \cup (IF late THEN {group} ELSE {})

Paid == ~silent => passedBy >= Cardinality(Charged)

LateInSuite == late => group \in 1..Len(Suite)

\* Past the spawn of agent-stop-ok there is an agent, or the group has a failed check.
HasAgent ==
    InSuite =>
        \A k \in 1..Len(Suite[group].checks) :
            SpawnsFirst(Suite[group].checks[k]) /\ (k < check \/ (k = check /\ step > 1)) =>
                lifecycleID # None \/ group \in Hit

Account == Paid /\ LateInSuite /\ HasAgent

\* A result adds its id to those of the required checks that failed, if it is such a one.
LEMMA FailedGrow ==
    ASSUME results \in Seq(Result), NEW r \in Result, results' = Append(results, r)
    PROVE  Failed' = Failed \cup (IF r.detail # Passed /\ r.severity = "required" THEN {r.id} ELSE {})
  <1>1. /\ Len(results) \in Nat /\ Len(results') = Len(results) + 1
        /\ \A i \in 1..Len(results) : results'[i] = results[i]
        /\ results'[Len(results) + 1] = r
    BY ResultAdded
  <1>2. PICK n : n = Len(results) + 1
    OBVIOUS
  <1>3. 1..Len(results') = 1..Len(results) \cup {n} /\ n \notin 1..Len(results)
    BY <1>1, <1>2
  <1>4. RequiredFailures' =
           RequiredFailures \cup (IF r.detail # Passed /\ r.severity = "required" THEN {n} ELSE {})
    <2>1. \A i \in 1..Len(results) : i \in RequiredFailures' <=> i \in RequiredFailures
      BY <1>1, <1>3 DEF RequiredFailures
    <2>2. n \in RequiredFailures' <=> r.detail # Passed /\ r.severity = "required"
      BY <1>1, <1>2, <1>3 DEF RequiredFailures
    <2>3. RequiredFailures \subseteq 1..Len(results) /\ RequiredFailures' \subseteq 1..Len(results')
      BY DEF RequiredFailures
    <2> QED BY <1>3, <2>1, <2>2, <2>3
  <1>5. \A i \in RequiredFailures : results'[i] = results[i]
    BY <1>1 DEF RequiredFailures
  <1>6. results'[n] = r
    BY <1>1, <1>2
  <1>7. Failed' = {results'[i].id : i \in RequiredFailures'}
    BY DEF Failed
  <1> QED BY <1>4, <1>5, <1>6, <1>7 DEF Failed

\* A check that ends costs its own group at most, and only when it is a required one that
\* failed (checks.go:45-48).
LEMMA ReportHits ==
    ASSUME TypeOK, InSuite, NEW detail \in Details, Report(detail)
    PROVE  IF ThisCheck.severity = "required" /\ detail # Passed
           THEN Hit' = Hit \cup {group} ELSE Hit' = Hit
  <1>1. CASE ThisCheck.severity = "setup"
    BY <1>1 DEF Report, Hit, Failed, RequiredFailures
  <1>2. CASE ThisCheck.severity # "setup"
    <2>1. PICK r : r = [id |-> ThisCheck.id, severity |-> ThisCheck.severity, detail |-> detail]
      OBVIOUS
    <2>2. r \in Result /\ results' = Append(results, r) /\ results \in Seq(Result)
      BY <1>2, <2>1, Positions DEF Report, Recorded, Result, TypeOK
    <2>3. Failed' = Failed \cup (IF r.detail # Passed /\ r.severity = "required" THEN {r.id} ELSE {})
      BY <2>2, FailedGrow
    <2>4. \A g \in 1..Len(Suite) : ThisCheck.id \in IdsOf(Suite[g].checks) <=> g = group
      <3>1. group \in 1..Len(Suite) /\ check \in 1..Len(Suite[group].checks)
        BY Positions
      <3> QED BY <3>1, DependenciesAssumption DEF IdsOf, ThisCheck
    <2>5. CASE ThisCheck.severity = "required" /\ detail # Passed
      <3>1. Failed' = Failed \cup {ThisCheck.id}
        BY <2>1, <2>3, <2>5
      <3> QED BY <2>4, <2>5, <3>1, Positions DEF Hit
    <2>6. CASE ~(ThisCheck.severity = "required" /\ detail # Passed)
      <3>1. Failed' = Failed
        BY <2>1, <2>3, <2>6
      <3> QED BY <2>6, <3>1 DEF Hit
    <2> QED BY <2>5, <2>6
  <1> QED BY <1>1, <1>2

\* The groups that are charged are finitely many.
LEMMA ChargedFinite ==
    ASSUME NEW S, S \subseteq Hit \cup {group}
    PROVE  IsFiniteSet(S) /\ Cardinality(S) \in Nat
  <1>1. PICK T : T = 1..Len(Suite)
    OBVIOUS
  <1>2. IsFiniteSet(T)
    <2>1. 1 \in Int /\ Len(Suite) \in Int
      BY Groups
    <2> QED BY <1>1, <2>1, FS_Interval
  <1>3. IsFiniteSet(T \cup {group})
    BY <1>2, FS_AddElement
  <1>4. S \in SUBSET (T \cup {group})
    BY <1>1 DEF Hit
  <1>5. IsFiniteSet(S)
    BY <1>3, <1>4, FS_Subset
  <1> QED BY <1>5, FS_CardinalityType

\* A step that charges no new group leaves the account in order, and so does one that
\* charges the current group when a deadline passes.
LEMMA PaidKept ==
    ASSUME TypeOK, Paid, silent => silent',
           \/ silent'
           \/ Charged' \subseteq Charged /\ passedBy' = passedBy
           \/ Charged' \subseteq Charged \cup {group} /\ passedBy' = passedBy + 1
    PROVE  Paid'
  <1> SUFFICES ASSUME ~silent' PROVE passedBy' >= Cardinality(Charged')
    BY DEF Paid
  <1>0. passedBy >= Cardinality(Charged) /\ passedBy \in Nat
    BY MaxLateAssumption DEF Paid, TypeOK
  <1>1. PICK S, T : S = Charged /\ T = Charged'
    OBVIOUS
  <1>2. S \subseteq Hit \cup {group}
    BY <1>1 DEF Charged
  <1>3. IsFiniteSet(S) /\ Cardinality(S) \in Nat
    BY <1>2, ChargedFinite
  <1>4. CASE T \subseteq S /\ passedBy' = passedBy
    <2>1. Cardinality(T) <= Cardinality(S) /\ T \subseteq Hit \cup {group}
      BY <1>2, <1>3, <1>4, FS_Subset
    <2>2. Cardinality(T) \in Nat
      BY <2>1, ChargedFinite
    <2> QED BY <1>0, <1>1, <1>3, <1>4, <2>1, <2>2
  <1>5. CASE T \subseteq S \cup {group} /\ passedBy' = passedBy + 1
    <2>1. IsFiniteSet(S \cup {group}) /\ Cardinality(S \cup {group}) <= Cardinality(S) + 1
          /\ Cardinality(S \cup {group}) \in Nat
      <3>1. /\ IsFiniteSet(S \cup {group})
            /\ Cardinality(S \cup {group}) = IF group \in S THEN Cardinality(S) ELSE Cardinality(S) + 1
        BY <1>3, FS_AddElement
      <3> QED BY <1>3, <3>1
    <2>2. Cardinality(T) <= Cardinality(S \cup {group}) /\ T \subseteq Hit \cup {group}
      BY <1>2, <1>5, <2>1, FS_Subset
    <2>3. Cardinality(T) \in Nat
      BY <2>2, ChargedFinite
    <2> QED BY <1>0, <1>1, <1>3, <1>5, <2>1, <2>2, <2>3
  <1> QED BY <1>1, <1>4, <1>5

\* The deadline of a group is forgotten with the group (checks.go:56, 133, 206).
LEMMA LateMoves ==
    ASSUME NEW lateNow \in BOOLEAN, NextCheck(lateNow)
    PROVE  late' => group' = group /\ lateNow
  BY DEF NextCheck, LeaveGroup

\* A check that fails charges its group.
LEMMA FailCharges ==
    ASSUME TypeOK, InSuite, NEW lateNow \in BOOLEAN, NEW detail \in Details \ {Passed},
           Fail(detail, lateNow)
    PROVE  /\ late' => group' = group /\ lateNow
           /\ Hit' = IF ThisCheck.severity = "required" THEN Hit \cup {group} ELSE Hit
           /\ Charged' \subseteq Charged \cup {group}
  <1>1. Report(detail) /\ NextCheck(lateNow)
    BY DEF Fail
  <1>2. late' => group' = group /\ lateNow
    BY <1>1, LateMoves
  <1>3. Hit' = IF ThisCheck.severity = "required" THEN Hit \cup {group} ELSE Hit
    BY <1>1, ReportHits
  <1> QED BY <1>2, <1>3 DEF Charged

\* A step that was answered charges nobody.
LEMMA NextStepCharges ==
    ASSUME TypeOK, InSuite, NEW lateNow \in BOOLEAN, lateNow => late, NextStep(lateNow)
    PROVE  (late' => group' = group /\ lateNow) /\ Hit' = Hit /\ Charged' \subseteq Charged
  <1>1. (late' => group' = group /\ lateNow) /\ Hit' = Hit
    <2>1. CASE step < Len(ThisCheck.steps)
      BY <2>1 DEF NextStep, Hit, Failed, RequiredFailures
    <2>2. CASE ~(step < Len(ThisCheck.steps))
      <3>1. Report(Passed) /\ NextCheck(lateNow)
        BY <2>2 DEF NextStep
      <3>2. Passed \in Details
        BY DEF Details
      <3> QED BY <3>1, <3>2, ReportHits, LateMoves
    <2> QED BY <2>1, <2>2
  <1> QED BY <1>1 DEF Charged

\* What a step of a check must do about agent-stop-ok.
LEMMA AgentKept ==
    ASSUME TypeOK, InSuite, HasAgent, Progress \/ GroupFails,
           lifecycleID # None => lifecycleID' # None, Hit \subseteq Hit',
           SpawnsFirst(ThisCheck) /\ step = 1 => lifecycleID' # None \/ group \in Hit'
    PROVE  HasAgent'
  <1> SUFFICES ASSUME InSuite', NEW k \in 1..Len(Suite[group'].checks),
                      SpawnsFirst(Suite[group'].checks[k]),
                      k < check' \/ (k = check' /\ step' > 1)
               PROVE  lifecycleID' # None \/ group' \in Hit'
    BY DEF HasAgent, SpawnsFirst
  <1>1. k \in Nat /\ k >= 1
    <2>1. Len(Suite[group'].checks) \in Nat
      BY Checks DEF InSuite
    <2> QED BY <2>1
  <1>2. check \in Nat /\ step \in Nat /\ step >= 1
    BY DEF TypeOK
  <1>3. group' = group /\ (k < check \/ k = check)
    <2>1. CASE CheckGoesOn
      BY <1>1, <1>2, <2>1 DEF CheckGoesOn
    <2>2. ASSUME NEW detail \in Details, CheckEnds(detail)
          PROVE  group' = group /\ (k < check \/ k = check)
      BY <1>1, <1>2, <2>2 DEF CheckEnds
    <2>3. CASE GroupFails
      BY <1>1, <2>3 DEF GroupFails
    <2> QED BY <2>1, <2>2, <2>3 DEF Progress
  <1>4. CASE k < check \/ (k = check /\ step > 1)
    BY <1>3, <1>4 DEF HasAgent
  <1>5. CASE k = check /\ step = 1
    BY <1>3, <1>5 DEF ThisCheck
  <1> QED BY <1>2, <1>3, <1>4, <1>5

\* No required check fails for an answer, when none does in the end.
LEMMA AnswersAreRight ==
    ASSUME TypeOK, InSuite, OnlyDeadlinesFailChecks', NEW lateNow \in BOOLEAN,
           Fail("answer", lateNow)
    PROVE  ThisCheck.severity # "required"
  <1> SUFFICES ASSUME ThisCheck.severity = "required" PROVE FALSE
    OBVIOUS
  <1>1. PICK r : r = [id |-> ThisCheck.id, severity |-> "required", detail |-> "answer"]
    OBVIOUS
  <1>2. r \in Result /\ results' = Append(results, r) /\ results \in Seq(Result)
    BY <1>1, Positions DEF Fail, Report, Recorded, Result, Details, TypeOK
  <1>3. Len(results') \in Nat /\ Len(results') = Len(results) + 1 /\ Len(results) \in Nat
        /\ results'[Len(results')] = r
    BY <1>2, ResultAdded
  <1>4. Len(results') \in 1..Len(results')
    BY <1>3
  <1>5. r.severity = "required" => r.detail \in {Passed, "deadline", "no lifecycle agent"}
    BY <1>3, <1>4 DEF OnlyDeadlinesFailChecks
  <1> QED BY <1>1, <1>5 DEF Passed

\* A request that is not answered ends its check, and charges its group.
LEMMA TimesOutCharges ==
    ASSUME TypeOK, InSuite, HasAgent, NEW lateNow \in BOOLEAN, TimesOut(lateNow),
           lifecycleID' = lifecycleID
    PROVE  /\ late' => group' = group /\ lateNow
           /\ Charged' \subseteq Charged \cup {group}
           /\ HasAgent'
  <1>1. ThisStep.code # DeadlineExceeded
    BY Positions DEF ThisStep
  <1>2. Fail("deadline", lateNow) /\ "deadline" \in Details \ {Passed}
    BY <1>1 DEF TimesOut, Meets, Details, Passed
  <1>3. Progress
    BY <1>2, FailEnds
  <1>4. /\ late' => group' = group /\ lateNow
        /\ Hit' = IF ThisCheck.severity = "required" THEN Hit \cup {group} ELSE Hit
        /\ Charged' \subseteq Charged \cup {group}
    BY <1>2, FailCharges
  <1>5. HasAgent'
    <2>1. SpawnsFirst(ThisCheck) => group \in Hit'
      BY <1>4 DEF SpawnsFirst
    <2> QED BY <1>3, <1>4, <2>1, AgentKept
  <1> QED BY <1>4, <1>5

\* An answer that is right charges nobody, and the one to agent-stop-ok names its agent.
LEMMA AnsweredCharges ==
    ASSUME TypeOK, HasAgent, OnlyDeadlinesFailChecks', Answered
    PROVE  ~late' /\ Charged' \subseteq Charged /\ HasAgent'
  <1>1. InSuite /\ ~late /\ late \in BOOLEAN
    BY DEF Answered, Ready, TypeOK
  <1>2. PICK c, code, shown :
           /\ c = ThisStep.call
           /\ lifecycleID' = IF ThisCheck.id = "agent-stop-ok" /\ c.op = "SpawnAgent" /\ code = "OK"
                             THEN c.name ELSE lifecycleID
           /\ IF Meets(ThisStep, code, shown) THEN NextStep(late) ELSE Fail("answer", late)
    BY DEF Answered
  <1>3. ThisCheck.id = "agent-stop-ok" /\ c.op = "SpawnAgent" => c.name # None
    <2>1. group \in 1..Len(Suite) /\ check \in 1..Len(Suite[group].checks)
          /\ step \in 1..Len(Suite[group].checks[check].steps)
      BY <1>1, Positions DEF ThisCheck
    <2> QED BY <1>2, <2>1, DependenciesAssumption DEF ThisCheck, ThisStep
  <1>4. lifecycleID # None => lifecycleID' # None
    BY <1>2, <1>3
  <1>5. CASE Meets(ThisStep, code, shown)
    <2>1. NextStep(late) /\ code = ThisStep.code
      BY <1>2, <1>5 DEF Meets
    <2>2. (late' => late) /\ Hit' = Hit /\ Charged' \subseteq Charged
      BY <1>1, <2>1, NextStepCharges
    <2>3. Progress
      <3>1. ~silent
        BY DEF Answered
      <3> QED BY <1>1, <2>1, <3>1, NextStepMoves
    <2>4. SpawnsFirst(ThisCheck) /\ step = 1 => lifecycleID' # None
      BY <1>2, <1>3, <2>1 DEF SpawnsFirst, ThisStep
    <2> QED BY <1>1, <1>4, <2>2, <2>3, <2>4, AgentKept
  <1>6. CASE ~Meets(ThisStep, code, shown)
    <2>1. Fail("answer", late) /\ "answer" \in Details \ {Passed}
      BY <1>2, <1>6 DEF Details, Passed
    <2>2. ThisCheck.severity # "required"
      BY <1>1, <2>1, AnswersAreRight
    <2>3. (late' => late) /\ Hit' = Hit
      BY <1>1, <2>1, <2>2, FailCharges
    <2>4. Progress
      BY <1>1, <2>1, FailEnds
    <2>5. HasAgent'
      BY <1>1, <1>4, <2>2, <2>3, <2>4, AgentKept DEF SpawnsFirst
    <2> QED BY <1>1, <2>3, <2>5 DEF Charged
  <1> QED BY <1>5, <1>6

\* agent-restart-ok fails for want of an agent only in a group that has been charged, and
\* other steps that are not requests pass (checks.go:324-327, 412).
LEMMA LocalCharges ==
    ASSUME TypeOK, HasAgent, HaveLifecycleID \/ GoStopAgent
    PROVE  /\ late' => group' = group /\ late
           /\ Charged' \subseteq Charged /\ HasAgent'
  <1>1. InSuite /\ late \in BOOLEAN /\ lifecycleID' = lifecycleID /\ ThisStep.call.op \in Local
    BY DEF HaveLifecycleID, GoStopAgent, Ready, TypeOK, Local
  <1>2. ~(SpawnsFirst(ThisCheck) /\ step = 1)
    BY <1>1 DEF SpawnsFirst, ThisStep, Local
  <1>3. CASE NextStep(late)
    <2>1. (late' => group' = group /\ late) /\ Hit' = Hit /\ Charged' \subseteq Charged
      BY <1>1, <1>3, NextStepCharges
    <2>2. Progress
      BY <1>1, <1>3, LocalGoesOn, NextStepMoves
    <2> QED BY <1>1, <1>2, <2>1, <2>2, AgentKept
  <1>4. CASE ~NextStep(late)
    <2>1. /\ ThisStep.call.op = "lifecycleID" /\ lifecycleID = None
          /\ Fail("no lifecycle agent", late) /\ "no lifecycle agent" \in Details \ {Passed}
      BY <1>4 DEF HaveLifecycleID, GoStopAgent, Details, Passed
    <2>2. group \in 1..Len(Suite) /\ check \in 1..Len(Suite[group].checks) /\ Len(Suite[group].checks) \in Nat
          /\ step \in 1..Len(Suite[group].checks[check].steps)
      BY <1>1, Positions DEF ThisCheck
    <2>3. PICK j \in 1..(check - 1) : SpawnsFirst(Suite[group].checks[j])
      BY <2>1, <2>2, DependenciesAssumption DEF ThisCheck, ThisStep
    <2>4. j \in 1..Len(Suite[group].checks) /\ j < check
      BY <2>2, <2>3
    <2>5. group \in Hit
      BY <1>1, <2>1, <2>3, <2>4 DEF HasAgent
    <2>6. (late' => group' = group /\ late) /\ Hit' = Hit
      BY <1>1, <2>1, <2>5, FailCharges
    <2>7. Progress
      BY <1>1, <2>1, FailEnds
    <2>8. HasAgent'
      BY <1>1, <1>2, <2>6, <2>7, AgentKept
    <2> QED BY <2>6, <2>8 DEF Charged
  <1> QED BY <1>3, <1>4

\* A gateway that does not start fails no required check (checks.go:713-722).
LEMMA GatewayCharges ==
    ASSUME TypeOK, HasAgent, NEW id \in {"gateway-start", "gateway-connect"}, GatewayFails(id)
    PROVE  ~late' /\ Charged' \subseteq Charged /\ HasAgent'
  <1>1. PICK r : r = [id |-> id, severity |-> "recommended", detail |-> "start"]
    OBVIOUS
  <1>2. r \in Result /\ results' = Append(results, r) /\ results \in Seq(Result)
    BY <1>1 DEF GatewayFails, Recorded, Result, Details, Ids, TypeOK
  <1>3. Failed' = Failed
    BY <1>1, <1>2, FailedGrow
  <1>4. Hit' = Hit /\ ~late'
    BY <1>3 DEF Hit, GatewayFails, LeaveGroup
  <1>5. group' = group + 1 /\ check' = 1 /\ step' = 1
    BY DEF GatewayFails, LeaveGroup
  <1>6. HasAgent'
    <2> SUFFICES ASSUME InSuite', NEW k \in 1..Len(Suite[group'].checks),
                        k < check' \/ (k = check' /\ step' > 1)
                 PROVE  FALSE
      BY DEF HasAgent
    <2>1. Len(Suite[group'].checks) \in Nat
      BY Checks DEF InSuite
    <2> QED BY <1>5, <2>1
  <1> QED BY <1>4, <1>6 DEF Charged

\* Deadlines that passed pay for the groups that have a failed check: it holds at first,
LEMMA InitAccount == Init => Account
  <1> SUFFICES ASSUME Init PROVE Account
    OBVIOUS
  <1>1. ~InSuite
    BY DEF Init, InSuite
  <1>2. Charged = {}
    <2>1. RequiredFailures = {}
      BY DEF Init, RequiredFailures
    <2>2. Failed = {}
      BY <2>1 DEF Failed
    <2> QED BY <2>2 DEF Init, Charged, Hit
  <1>3. passedBy = 0 /\ Cardinality(Charged) = 0
    BY <1>2, FS_EmptySet DEF Init
  <1> QED BY <1>1, <1>3 DEF Init, Account, Paid, LateInSuite, HasAgent

\* and every step keeps it so, when no required check fails for an answer.
LEMMA NextAccount ==
    ASSUME IInv, Account, OnlyDeadlinesFailChecks', [Next]_vars
    PROVE  Account'
  <1>0. TypeOK /\ Fresh /\ Paid /\ LateInSuite /\ HasAgent
    BY DEF IInv, Account
  <1>1. CASE Answered
    <2>1. ~late' /\ Charged' \subseteq Charged /\ HasAgent'
      BY <1>0, <1>1, AnsweredCharges
    <2>2. Paid'
      BY <1>0, <1>1, <2>1, PaidKept DEF Answered
    <2> QED BY <2>1, <2>2 DEF Account, LateInSuite
  <1>2. CASE Unsent
    <2>1. InSuite /\ late /\ TimesOut(TRUE) /\ UNCHANGED <<passedBy, silent>> /\ lifecycleID' = lifecycleID
      BY <1>2 DEF Unsent, Ready
    <2>2. (late' => group' = group) /\ Charged' \subseteq Charged \cup {group} /\ HasAgent'
      BY <1>0, <2>1, TimesOutCharges
    <2>3. Charged' \subseteq Charged
      BY <2>1, <2>2 DEF Charged
    <2>4. Paid'
      BY <1>0, <2>1, <2>3, PaidKept
    <2> QED BY <1>0, <2>1, <2>2, <2>4 DEF Account, LateInSuite
  <1>3. ASSUME NEW ofGroup \in BOOLEAN, DeadlinePasses(ofGroup) PROVE Account'
    <2>1. /\ InSuite /\ TimesOut(ofGroup) /\ silent' = silent /\ lifecycleID' = lifecycleID
          /\ silent \/ passedBy' = passedBy + 1
      BY <1>3 DEF DeadlinePasses, Ready
    <2>2. (late' => group' = group) /\ Charged' \subseteq Charged \cup {group} /\ HasAgent'
      BY <1>0, <2>1, TimesOutCharges
    <2>3. Paid'
      BY <1>0, <2>1, <2>2, PaidKept
    <2>4. LateInSuite'
      BY <2>1, <2>2 DEF LateInSuite, InSuite
    <2> QED BY <2>2, <2>3, <2>4 DEF Account
  <1>4. CASE HaveLifecycleID \/ GoStopAgent
    <2>1. (late' => group' = group /\ late) /\ Charged' \subseteq Charged /\ HasAgent'
      BY <1>0, <1>4, LocalCharges
    <2>2. UNCHANGED <<passedBy, silent>>
      BY <1>4 DEF HaveLifecycleID, GoStopAgent
    <2>3. Paid'
      BY <1>0, <2>1, <2>2, PaidKept
    <2> QED BY <1>0, <2>1, <2>3 DEF Account, LateInSuite
  <1>5. ASSUME NEW id \in {"gateway-start", "gateway-connect"}, GatewayFails(id) PROVE Account'
    <2>1. ~late' /\ Charged' \subseteq Charged /\ HasAgent'
      BY <1>0, <1>5, GatewayCharges
    <2>2. Paid'
      BY <1>0, <1>5, <2>1, PaidKept DEF GatewayFails
    <2> QED BY <2>1, <2>2 DEF Account, LateInSuite
  <1>6. CASE Start
    <2>1. group = 0 /\ group' = 1 /\ check' = 1 /\ step' = 1
          /\ UNCHANGED <<late, passedBy, results, silent>>
      BY <1>0, <1>6 DEF Start, Fresh
    <2>2. ~late
      BY <1>0, <2>1, Groups DEF LateInSuite
    <2>3. Charged' = Charged
      BY <2>1, <2>2 DEF Charged, Hit, Failed, RequiredFailures
    <2>4. Paid'
      BY <1>0, <2>1, <2>3, PaidKept
    <2>5. HasAgent'
      <3> SUFFICES ASSUME NEW k \in 1..Len(Suite[group'].checks), k < check' \/ (k = check' /\ step' > 1)
                   PROVE  FALSE
        BY DEF HasAgent
      <3>1. Len(Suite[group'].checks) \in Nat
        BY <2>1, Groups, Checks
      <3> QED BY <2>1, <3>1
    <2> QED BY <2>1, <2>2, <2>4, <2>5 DEF Account, LateInSuite
  <1>7. ASSUME UNCHANGED <<group, check, step, late, passedBy, results, lifecycleID>>,
               silent' = silent \/ silent', InSuite' => InSuite
        PROVE  Account'
    <2>1. Hit' = Hit /\ Charged' = Charged
      BY <1>7 DEF Charged, Hit, Failed, RequiredFailures
    <2>2. Paid'
      BY <1>0, <1>7, <2>1, PaidKept
    <2>3. HasAgent'
      BY <1>0, <1>7, <2>1 DEF HasAgent
    <2> QED BY <1>0, <1>7, <2>2, <2>3 DEF Account, LateInSuite
  <1>8. CASE GatewayStarts \/ GoesSilent
    BY <1>7, <1>8 DEF GatewayStarts, GoesSilent, InSuite, position
  <1>9. ASSUME NEW c \in adrift, TakesEffect(c) PROVE Account'
    BY <1>7, <1>9 DEF TakesEffect, InSuite, position
  <1>10. CASE StartFails \/ Verdict \/ ReportNotWritten
    <2>1. exit = Running
      BY <1>10 DEF StartFails, Verdict, ReportNotWritten
    <2> QED BY <1>7, <1>10, <2>1 DEF StartFails, Verdict, ReportNotWritten, Exit, InSuite, position
  <1>11. CASE UNCHANGED vars
    BY <1>7, <1>11 DEF vars, position, InSuite
  <1> QED
    BY <1>1, <1>2, <1>3, <1>4, <1>5, <1>6, <1>8, <1>9, <1>10, <1>11 DEF Next, Runner

-----------------------------------------------------------------------------
(* Theorems                                                                *)

\* The runner's variables keep their types, and its position is always a step of a check.
THEOREM TypeCorrect == Spec => []TypeOK
  <1>1. IInv => TypeOK
    BY DEF IInv
  <1> QED BY <1>1, AlwaysIInv, PTL

\* The exit code 0 says that every required check of the suite ran and passed, for every
\* suite and whatever deadlines passed (main.go:33-46, harness.go:139-147).
THEOREM ZeroIsConforming == Spec => []ZeroMeansConforming
  <1>1. ASSUME IInv PROVE ZeroMeansConforming
    <2> SUFFICES ASSUME exit = 0,
                        NEW g \in 1..Len(Suite), NEW k \in 1..Len(Suite[g].checks),
                        Suite[g].checks[k].severity = "required"
                 PROVE  \E i \in 1..Len(results) :
                           results[i].id = Suite[g].checks[k].id /\ results[i].detail = Passed
      BY DEF ZeroMeansConforming
    <2>1. group = Len(Suite) + 1 /\ RequiredFailures = {}
      BY <1>1 DEF IInv, ZeroAtTheEnd
    <2>2. g < group
      BY <2>1, Groups
    <2>3. PICK i \in 1..Len(results) :
             results[i].id = Suite[g].checks[k].id /\ results[i].severity = "required"
      BY <1>1, <2>2 DEF IInv, Reported
    <2>4. results[i].detail = Passed
      BY <2>1, <2>3 DEF RequiredFailures
    <2> QED BY <2>3, <2>4
  <1> QED BY <1>1, AlwaysIInv, PTL

\* No check passes when a deadline passes, once that of its group has, or when the server is
\* silent (checks.go:775-795), for every suite whose checks end in a request and do not want
\* a deadline to pass.
THEOREM PassesNeedAnswers == Spec => PassesAreAnswered
  <1> DEFINE Answers ==
        \A i \in (Len(results) + 1)..Len(results') :
            results'[i].detail = Passed => ~late /\ ~silent
  <1>1. ASSUME TypeOK, [Next]_vars PROVE [Answers]_vars
    <2>1. ASSUME results' = results PROVE Answers
      <3>1. Len(results) \in Nat
        BY <1>1 DEF TypeOK
      <3> QED BY <2>1, <3>1
    <2>2. CASE Progress
      <3>1. CASE results' = results
        BY <3>1, <2>1
      <3>2. CASE results' # results
        <4>1. PICK detail \in Details : CheckEnds(detail) /\ (detail = Passed => ~late /\ ~silent)
          BY <2>2, <3>2 DEF Progress, CheckGoesOn
        <4>2. /\ ThisCheck.severity # "setup"
              /\ results' = Append(results, [id |-> ThisCheck.id, severity |-> ThisCheck.severity,
                                             detail |-> detail])
          BY <4>1, <3>2 DEF CheckEnds, Recorded
        <4>3. [id |-> ThisCheck.id, severity |-> ThisCheck.severity, detail |-> detail] \in Result
          BY <1>1, <4>1, <4>2, Positions DEF CheckEnds, Result
        <4>4. Len(results') = Len(results) + 1 /\ results'[Len(results) + 1].detail = detail
              /\ Len(results) \in Nat
          BY <1>1, <4>2, <4>3, ResultAdded DEF TypeOK, Result
        <4> QED BY <4>1, <4>4
      <3> QED BY <3>1, <3>2
    <2>3. CASE GroupFails
      <3>1. PICK id \in Ids :
               results' = Append(results, [id |-> id, severity |-> "recommended", detail |-> "start"])
        BY <2>3 DEF GroupFails
      <3>2. [id |-> id, severity |-> "recommended", detail |-> "start"] \in Result
        BY DEF Result, Details
      <3>3. Len(results') = Len(results) + 1 /\ results'[Len(results) + 1].detail = "start"
            /\ Len(results) \in Nat
        BY <1>1, <3>1, <3>2, ResultAdded DEF TypeOK, Result
      <3> QED BY <3>3 DEF Passed
    <2>4. CASE Standing \/ Start \/ StartFails \/ Verdict \/ ReportNotWritten
      <3>1. results' = results
        BY <2>4 DEF Standing, Start, StartFails, Verdict, ReportNotWritten, Exit
      <3> QED BY <3>1, <2>1
    <2> QED BY <1>1, <2>2, <2>3, <2>4, StepsMove
  <1> DEFINE InTime ==
        \A i \in (Len(results) + 1)..Len(results') :
            results'[i].detail = Passed => UNCHANGED passedBy
  <1>2. ASSUME TypeOK, [Next]_vars PROVE [InTime]_vars
    <2>1. CASE UNCHANGED passedBy
      BY <2>1
    <2>2. ASSUME NEW ofGroup \in BOOLEAN, DeadlinePasses(ofGroup) PROVE InTime
      <3>1. InSuite /\ TimesOut(ofGroup)
        BY <2>2 DEF DeadlinePasses, Ready, InSuite
      <3>2. Report("deadline")
        BY <1>2, <3>1, TimesOutFails DEF Fail
      <3>3. CASE results' = results
        BY <1>2, <3>3 DEF TypeOK
      <3>4. CASE results' # results
        <4>1. results' = Append(results, [id |-> ThisCheck.id, severity |-> ThisCheck.severity,
                                          detail |-> "deadline"])
              /\ ThisCheck.severity # "setup"
          BY <3>2, <3>4 DEF Report, Recorded
        <4>2. [id |-> ThisCheck.id, severity |-> ThisCheck.severity, detail |-> "deadline"] \in Result
          BY <1>2, <3>1, <4>1, Positions DEF Result, Details
        <4>3. /\ Len(results') = Len(results) + 1 /\ results'[Len(results) + 1].detail = "deadline"
              /\ Len(results) \in Nat
          BY <1>2, <4>1, <4>2, ResultAdded DEF TypeOK
        <4> QED BY <4>3 DEF Passed
      <3> QED BY <3>3, <3>4
    <2>3. UNCHANGED passedBy \/ \E ofGroup \in BOOLEAN : DeadlinePasses(ofGroup)
      BY <1>2 DEF Next, Runner, Answered, Unsent, HaveLifecycleID, GoStopAgent, GatewayFails,
        GatewayStarts, TakesEffect, GoesSilent, StartFails, Verdict, ReportNotWritten, Start, Exit, vars
    <2> QED BY <2>1, <2>2, <2>3
  <1> DEFINE Both ==
        \A i \in (Len(results) + 1)..Len(results') :
            results'[i].detail = Passed => ~late /\ ~silent /\ UNCHANGED passedBy
  <1>3. ASSUME TypeOK, [Next]_vars PROVE [Both]_vars
    BY <1>1, <1>2, <1>3, Zenon
  <1> QED BY <1>3, TypeCorrect, PTL DEF Spec, PassesAreAnswered

\* While the server answers, a deadline that passes costs the checks of one group only, for
\* every suite and however many deadlines pass: whatever requests are adrift, once no
\* required check fails for an answer.  That none does is the run's to check, for the
\* suite as it is (checks.go:56, 133, 206, 342, 450, 503, 643).
THEOREM DeadlinesCostOneGroup == Spec /\ []OnlyDeadlinesFailChecks => []OneDeadlineCostsOneGroup
  <1>1. ASSUME TypeOK, Account PROVE OneDeadlineCostsOneGroup
    <2> SUFFICES ASSUME ~silent PROVE passedBy >= Cardinality(Hit)
      BY DEF OneDeadlineCostsOneGroup, Hit
    <2>1. passedBy >= Cardinality(Charged) /\ passedBy \in Nat
      BY <1>1, MaxLateAssumption DEF Account, Paid, TypeOK
    <2>2. PICK S, T : S = Charged /\ T = Hit
      OBVIOUS
    <2>3. T \subseteq S /\ S \subseteq Hit \cup {group}
      BY <2>2 DEF Charged
    <2>4. IsFiniteSet(S) /\ Cardinality(S) \in Nat
      BY <2>3, ChargedFinite
    <2>5. Cardinality(T) <= Cardinality(S) /\ T \subseteq Hit \cup {group}
      BY <2>2, <2>3, <2>4, FS_Subset
    <2>6. Cardinality(T) \in Nat
      BY <2>5, ChargedFinite
    <2> QED BY <2>1, <2>2, <2>4, <2>5, <2>6
  <1> QED BY <1>1, InitAccount, NextAccount, AlwaysIInv, TypeCorrect, PTL DEF Spec
=============================================================================
