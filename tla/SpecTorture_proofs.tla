------------------------- MODULE SpecTorture_proofs -------------------------
(***************************************************************************)
(* Runs of any specs, however long, against any runtime, with any number   *)
(* of deaths and of other processes: the types, the verdicts, that no      *)
(* container is left, what a step is judged by and how, and what is stored *)
(* of specs and runs.                                                      *)
(*                                                                         *)
(* A verdict is as good as the loop that led to it: as long as a case goes *)
(* on, all its steps but the last have passed, and when it goes on with a  *)
(* request, the last has too.  A container is there only while its case    *)
(* is, unless its removal failed.  Of the spec that is being saved as many *)
(* cases are in the transaction as were written, of all others all.        *)
(* What a pattern matches is shown by the depth of values: a claim that    *)
(* fails of one fails of one whose parts it holds of.                      *)
(***************************************************************************)
EXTENDS SpecTortureProps, SequenceTheorems, FiniteSetTheorems, WellFoundedInduction, TLAPS

IsSeq(s) == s \in Seq(Range(s))

Exchanging == pc \in {"sent", "between", "reading"}
InCase == pc = "step" \/ pc = "created" \/ Exchanging
BeforeCases == pc \in {"idle", "saveSpec", "clearCases", "saveCases"}

Loaded == spec \in Specs
Lists == IsSeq(results) /\ IsSeq(steps)

\* Where the runner is in the spec.
Place ==
    /\ BeforeCases => results = <<>>
    /\ Len(results) <= Len(spec.cases)
    /\ InCase => Len(results) < Len(spec.cases)
    /\ pc = "step" \/ Exchanging \/ steps = <<>>
    /\ InCase => Len(steps) <= Len(Case.steps)

\* What a request in flight, or a container being started, rests on.
Going ==
    /\ Exchanging => cfg.url /\ MoreSteps
    /\ pc = "created" => ~cfg.url

PassingSoFar == \A i \in 1..(Len(steps) - 1) : steps[i].status = "pass"

Core == Loaded /\ Lists /\ Place /\ Going /\ PassingSoFar /\ VerdictsFollowSteps

-----------------------------------------------------------------------------
\* What Append makes of a sequence whatever its items are.
LEMMA Appending ==
    ASSUME NEW s, NEW e, IsSeq(s)
    PROVE  /\ IsSeq(Append(s, e))
           /\ Len(s) \in Nat
           /\ Len(Append(s, e)) = Len(s) + 1
           /\ \A i \in 1..Len(s) : Append(s, e)[i] = s[i]
           /\ Append(s, e)[Len(s) + 1] = e
           /\ DOMAIN s = 1..Len(s)
           /\ DOMAIN Append(s, e) = 1..(Len(s) + 1)
<1> DEFINE T == Range(s) \cup {e}
<1>1. s \in Seq(T)
  <2>1. s \in [1..Len(s) -> Range(s)] /\ Len(s) \in Nat
    BY DEF IsSeq
  <2>2. s \in [1..Len(s) -> T]
    BY <2>1
  <2> QED BY <2>1, <2>2
<1> HIDE DEF T
<1>2. e \in T
  BY DEF T
<1>3. /\ Append(s, e) \in Seq(T)
      /\ Len(Append(s, e)) = Len(s) + 1
      /\ \A i \in 1..Len(s) : Append(s, e)[i] = s[i]
      /\ Append(s, e)[Len(s) + 1] = e
  BY <1>1, <1>2, AppendProperties
<1>4. Len(s) \in Nat /\ DOMAIN s = 1..Len(s)
  BY <1>1
<1>5. DOMAIN Append(s, e) = 1..(Len(s) + 1)
  BY <1>3, <1>4
<1>6. IsSeq(Append(s, e))
  <2> DEFINE a == Append(s, e)
  <2>0. a \in Seq(T)
    BY <1>3
  <2> HIDE DEF a
  <2>1. a \in [1..Len(a) -> T] /\ Len(a) \in Nat /\ DOMAIN a = 1..Len(a)
    BY <2>0
  <2>2. a \in [1..Len(a) -> Range(a)]
    BY <2>1 DEF Range
  <2>3. a \in Seq(Range(a))
    BY <2>1, <2>2
  <2> QED BY <2>3 DEF a, IsSeq
<1> QED BY <1>3, <1>4, <1>5, <1>6

\* The empty sequence, and what has no items.
LEMMA Nothing ==
    /\ IsSeq(<<>>) /\ Len(<<>>) = 0
    /\ \A s : IsSeq(s) => Len(s) \in Nat /\ DOMAIN s = 1..Len(s) /\ (Len(s) = 0 => s = <<>>)
<1>1. IsSeq(<<>>) /\ Len(<<>>) = 0
  BY EmptySeq DEF IsSeq
<1>2. ASSUME NEW s, IsSeq(s)
      PROVE  Len(s) \in Nat /\ DOMAIN s = 1..Len(s) /\ (Len(s) = 0 => s = <<>>)
  BY <1>2, EmptySeq DEF IsSeq
<1> QED BY <1>1, <1>2

\* The cases of a spec and their steps (schema/spec.go).
LEMMA Files ==
    ASSUME Loaded
    PROVE  /\ Len(spec.cases) \in Nat
           /\ \A i \in 1..Len(spec.cases) : IsSeq(spec.cases[i].steps)
           /\ Lists /\ InCase /\ Place => IsSeq(Case.steps) /\ Len(Case.steps) \in Nat
<1>1. Len(spec.cases) \in Nat /\ DOMAIN spec.cases = 1..Len(spec.cases)
  BY FilesAssumption DEF Loaded
<1>2. \A i \in 1..Len(spec.cases) : IsSeq(spec.cases[i].steps)
  BY <1>1, FilesAssumption DEF Loaded, IsSeq
<1>3. Lists /\ InCase /\ Place => IsSeq(Case.steps) /\ Len(Case.steps) \in Nat
  <2> SUFFICES ASSUME Lists, InCase, Place PROVE IsSeq(Case.steps) /\ Len(Case.steps) \in Nat
    OBVIOUS
  <2>1. Len(results) \in Nat
    BY Nothing DEF Lists
  <2>2. Len(results) + 1 \in 1..Len(spec.cases)
    BY <2>1, <1>1 DEF Place
  <2> QED BY <2>2, <1>2, Nothing DEF Case
<1> QED BY <1>1, <1>2, <1>3

\* A step result that is recorded where the loop of the case goes on.
LEMMA StepDoneKeeps ==
    ASSUME Core, NEW status, NEW actual,
           pc = "step" \/ Exchanging, MoreSteps, StepDone(status, actual),
           UNCHANGED <<spec, cfg, results>>
    PROVE  Core'
<1>1. /\ Loaded /\ Lists /\ Place /\ PassingSoFar /\ VerdictsFollowSteps
      /\ pc' = "step" /\ spec' = spec /\ cfg' = cfg /\ results' = results
  BY DEF Core, StepDone
<1>2. InCase
  BY DEF InCase
<1>3. Len(Case.steps) \in Nat
  BY <1>1, <1>2, Files
<1>4. PICK r : steps' = Append(steps, r)
  BY DEF StepDone
<1>5. /\ IsSeq(steps') /\ Len(steps) \in Nat /\ Len(steps') = Len(steps) + 1
      /\ \A i \in 1..Len(steps) : steps'[i] = steps[i]
      /\ DOMAIN steps = 1..Len(steps)
  BY <1>1, <1>4, Appending DEF Lists
<1>6. Len(steps) < Len(Case.steps) /\ \A i \in 1..Len(steps) : steps[i].status = "pass"
  BY <1>5 DEF MoreSteps, Passing
<1>7. Case' = Case
  BY <1>1 DEF Case
<1>8. Loaded' /\ Lists'
  BY <1>1, <1>5 DEF Loaded, Lists
<1>9. Place'
  <2>1. Len(results) <= Len(spec.cases) /\ Len(results) < Len(spec.cases)
    BY <1>1, <1>2 DEF Place
  <2>2. Len(steps') <= Len(Case'.steps)
    BY <1>3, <1>5, <1>6, <1>7
  <2> QED BY <1>1, <2>1, <2>2 DEF Place, BeforeCases, InCase, Exchanging
<1>10. Going'
  BY <1>1 DEF Going, Exchanging
<1>11. PassingSoFar'
  <2>1. \A i \in 1..(Len(steps') - 1) : steps'[i].status = "pass"
    BY <1>5, <1>6
  <2> QED BY <2>1 DEF PassingSoFar
<1>12. VerdictsFollowSteps'
  BY <1>1 DEF VerdictsFollowSteps, Transport
<1> QED BY <1>8, <1>9, <1>10, <1>11, <1>12 DEF Core

\* What is claimed of one result (runner.go:138-151).
Sound(r, case) ==
    LET n == Len(r.steps)
    IN  /\ r.case = case.id
        /\ \A j \in 1..(n - 1) : r.steps[j].status = "pass"
        /\ n > 0 => r.status = r.steps[n].status
        /\ r.status = "pass" => n = Len(case.steps)
        /\ n = 0 => \/ r.status = "pass" /\ case.steps = <<>>
                    \/ r.status = "skip" /\ r.started = 0
                    \/ r.status = "error" /\ (~cfg.url \/ Transport = "none")

\* A case result that is recorded.
LEMMA ConcludeKeeps ==
    ASSUME Core, NEW status, NEW started, NEW r,
           pc = "case" \/ InCase, Len(results) < Len(spec.cases),
           r = [case |-> Case.id, status |-> status, steps |-> steps, started |-> started],
           Sound(r, Case), Conclude(status, started),
           UNCHANGED <<spec, cfg>>
    PROVE  Core'
<1>1. /\ Loaded /\ Lists /\ Place /\ VerdictsFollowSteps
      /\ pc' = "case" /\ spec' = spec /\ cfg' = cfg /\ steps' = <<>>
      /\ results' = Append(results, r)
  BY DEF Core, Conclude
<1>2. /\ IsSeq(results') /\ Len(results) \in Nat /\ Len(results') = Len(results) + 1
      /\ \A i \in 1..Len(results) : results'[i] = results[i]
      /\ results'[Len(results) + 1] = r
      /\ DOMAIN results = 1..Len(results)
      /\ DOMAIN results' = 1..(Len(results) + 1)
  BY <1>1, Appending DEF Lists
<1>3. Len(spec.cases) \in Nat
  BY <1>1, Files
<1>4. Loaded' /\ Lists'
  BY <1>1, <1>2, Nothing DEF Loaded, Lists
<1>5. Place'
  <2>1. Len(results') <= Len(spec.cases)
    BY <1>2, <1>3
  <2> QED BY <1>1, <2>1 DEF Place, BeforeCases, InCase, Exchanging
<1>6. Going'
  BY <1>1 DEF Going, Exchanging
<1>7. PassingSoFar'
  <2>1. Len(steps') = 0
    BY <1>1, Nothing
  <2> QED BY <2>1 DEF PassingSoFar
<1>8. VerdictsFollowSteps'
  <2>1. \A i \in 1..Len(results) : Sound(results[i], spec.cases[i])
    BY <1>1, <1>2 DEF VerdictsFollowSteps, Sound
  <2>2. Sound(r, spec.cases[Len(results) + 1])
    BY DEF Case
  <2>3. \A i \in DOMAIN results' : Sound(results'[i], spec.cases[i])
    BY <2>1, <2>2, <1>2
  <2> QED BY <2>3, <1>1 DEF VerdictsFollowSteps, Sound, Transport
<1> QED BY <1>4, <1>5, <1>6, <1>7, <1>8 DEF Core

\* What the loop of a case makes of its steps is a sound result.
LEMMA VerdictIsSound ==
    ASSUME Core, pc = "step", ~MoreSteps, NEW started
    PROVE  Sound([case |-> Case.id, status |-> Verdict, steps |-> steps, started |-> started], Case)
<1>1. Loaded /\ Lists /\ Place /\ PassingSoFar /\ InCase
  BY DEF Core, InCase
<1>2. IsSeq(Case.steps) /\ Len(Case.steps) \in Nat
  BY <1>1, Files
<1>3. Len(steps) \in Nat /\ DOMAIN steps = 1..Len(steps) /\ Len(steps) <= Len(Case.steps)
  BY <1>1, Nothing DEF Lists, Place
<1>4. \A i \in 1..(Len(steps) - 1) : steps[i].status = "pass"
  BY <1>1 DEF PassingSoFar
<1>5. CASE Passing
  <2>1. Len(steps) = Len(Case.steps) /\ Verdict = "pass"
    BY <1>5, <1>3, <1>2 DEF MoreSteps, Verdict
  <2>2. \A i \in 1..Len(steps) : steps[i].status = "pass"
    BY <1>5, <1>3 DEF Passing
  <2>3. Len(steps) = 0 => Case.steps = <<>>
    BY <2>1, <1>2, Nothing
  <2> QED BY <2>1, <2>2, <2>3, <1>3 DEF Sound
<1>6. CASE ~Passing
  <2>1. Verdict = steps[Len(steps)].status
    BY <1>6 DEF Verdict
  <2>2. PICK k \in 1..Len(steps) : steps[k].status # "pass"
    BY <1>6, <1>3 DEF Passing
  <2>3. k = Len(steps)
    BY <2>2, <1>3, <1>4
  <2>4. Len(steps) > 0 /\ Verdict # "pass"
    BY <2>1, <2>2, <2>3, <1>3
  <2> QED BY <2>1, <2>4, <1>3, <1>4 DEF Sound
<1> QED BY <1>5, <1>6

\* The runner goes from one place to another, and nothing is recorded.
LEMMA MovesKeep ==
    ASSUME Core, UNCHANGED <<spec, cfg, results, steps>>,
           BeforeCases' => BeforeCases,
           InCase' => InCase \/ (pc = "case" /\ Len(results) < Len(spec.cases)),
           (pc = "step" \/ Exchanging) => (pc = "step" \/ Exchanging)',
           Exchanging' => cfg.url /\ MoreSteps,
           (pc = "created")' => ~cfg.url
    PROVE  Core'
<1>1. /\ Loaded /\ Lists /\ Place /\ PassingSoFar /\ VerdictsFollowSteps
      /\ spec' = spec /\ cfg' = cfg /\ results' = results /\ steps' = steps
  BY DEF Core
<1>2. Case' = Case /\ (MoreSteps' <=> MoreSteps)
  BY <1>1 DEF Case, MoreSteps, Passing
<1>3. Loaded' /\ Lists' /\ PassingSoFar' /\ VerdictsFollowSteps'
  BY <1>1 DEF Loaded, Lists, PassingSoFar, VerdictsFollowSteps, Transport
<1>4. Going'
  BY <1>1, <1>2 DEF Going
<1>5. Place'
  <2>1. InCase' => Len(results) < Len(spec.cases)
    BY <1>1 DEF Place
  <2>2. (pc = "step" \/ Exchanging)' \/ steps = <<>>
    BY <1>1 DEF Place
  <2>3. InCase' => Len(steps) <= Len(Case.steps)
    <3>1. CASE InCase
      BY <1>1, <3>1 DEF Place
    <3>2. CASE pc = "case" /\ Len(results) < Len(spec.cases)
      <4>1. Len(steps) = 0
        BY <1>1, <3>2, Nothing DEF Place, Exchanging
      <4>2. Len(Case.steps) \in Nat
        <5>1. Len(results) + 1 \in 1..Len(spec.cases)
          BY <1>1, <3>2, Files, Nothing DEF Lists
        <5> QED BY <5>1, <1>1, Files, Nothing DEF Case
      <4> QED BY <4>1, <4>2
    <3> QED BY <3>1, <3>2
  <2> QED BY <1>1, <1>2, <2>1, <2>2, <2>3 DEF Place
<1> QED BY <1>3, <1>4, <1>5 DEF Core

\* A process ends, or dies.
LEMMA NoProcessKeeps ==
    ASSUME Core, NoProcess
    PROVE  Core'
<1>1. /\ Loaded /\ spec' = spec /\ cfg' = cfg
      /\ results' = <<>> /\ steps' = <<>> /\ pc' = "idle"
  BY DEF Core, NoProcess
<1>2. Loaded' /\ Lists'
  BY <1>1, Nothing DEF Loaded, Lists
<1>3. Len(results') = 0 /\ Len(steps') = 0 /\ DOMAIN results' = 1..0
  BY <1>1, Nothing
<1>4. Place'
  BY <1>1, <1>3, Files DEF Place, BeforeCases, InCase, Exchanging
<1>5. Going' /\ PassingSoFar' /\ VerdictsFollowSteps'
  BY <1>1, <1>3 DEF Going, Exchanging, PassingSoFar, VerdictsFollowSteps
<1> QED BY <1>2, <1>4, <1>5 DEF Core

\* A case that is over before its first step.
LEMMA EmptyCaseKeeps ==
    ASSUME Core, pc = "case", Len(results) < Len(spec.cases), NEW status, NEW started,
           \/ status = "skip" /\ started = 0
           \/ status = "error" /\ (~cfg.url \/ Transport = "none"),
           Conclude(status, started), UNCHANGED <<spec, cfg>>
    PROVE  Core'
<1> DEFINE r == [case |-> Case.id, status |-> status, steps |-> steps, started |-> started]
<1>1. steps = <<>>
  BY DEF Core, Place, Exchanging
<1>2. r.case = Case.id /\ r.status = status /\ r.started = started /\ Len(r.steps) = 0
  BY <1>1, Nothing
<1>3. Sound(r, Case)
  <2> HIDE DEF r
  <2> QED BY <1>2 DEF Sound
<1>4. PICK q : q = r
  OBVIOUS
<1> HIDE DEF r
<1>5. q = [case |-> Case.id, status |-> status, steps |-> steps, started |-> started]
  BY <1>4 DEF r
<1>6. Sound(q, Case)
  BY <1>3, <1>4
<1> QED BY <1>5, <1>6, ConcludeKeeps

\* A runner that has not started is at no case.
LEMMA CoreInit == Init => Core
<1> SUFFICES ASSUME Init PROVE Core
  OBVIOUS
<1>1. /\ results = <<>> /\ steps = <<>> /\ pc = "idle" /\ spec \in Specs
  BY FilesAssumption DEF Init, RunnerInit
<1>2. Loaded /\ Lists
  BY <1>1, Nothing DEF Loaded, Lists
<1>3. Len(results) = 0 /\ Len(steps) = 0 /\ DOMAIN results = 1..0
  BY <1>1, Nothing
<1>4. Place
  BY <1>1, <1>2, <1>3, Files DEF Place, BeforeCases, InCase, Exchanging
<1>5. Going /\ PassingSoFar /\ VerdictsFollowSteps
  BY <1>1, <1>3 DEF Going, Exchanging, PassingSoFar, VerdictsFollowSteps
<1> QED BY <1>2, <1>4, <1>5 DEF Core

\* The steps of runTestCaseHTTP that take none of their time from the runtime.
LEMMA CoreHTTP ==
    ASSUME Core, HTTPStep
    PROVE  Core'
<1> USE DEF BeforeCases, InCase, Exchanging
<1>1. Going
  BY DEF Core
<1>2. CASE Skip
  <2>1. pc = "case" /\ Len(results) < Len(spec.cases) /\ Conclude("skip", 0) /\ UNCHANGED <<spec, cfg>>
    BY <1>2 DEF Skip
  <2> QED BY <2>1, EmptyCaseKeeps
<1>3. CASE StartCaseHTTP
  <2>1. /\ pc = "case" /\ Len(results) < Len(spec.cases) /\ cfg.url /\ UNCHANGED <<spec, cfg>>
        /\ IF Transport = "none" THEN Conclude("error", Now)
           ELSE pc' = "step" /\ UNCHANGED <<results, steps>>
    BY <1>3 DEF StartCaseHTTP, Starting
  <2>2. CASE Transport = "none"
    BY <2>1, <2>2, EmptyCaseKeeps
  <2>3. CASE Transport # "none"
    BY <2>1, <2>3, MovesKeep
  <2> QED BY <2>2, <2>3
<1>4. CASE Deadline
  <2>1. UNCHANGED <<pc, spec, cfg, results, steps>>
    BY <1>4 DEF Deadline
  <2> QED BY <2>1, <1>1, MovesKeep DEF Going
<1>5. CASE Send
  <2>1. /\ pc = "step" /\ cfg.url /\ MoreSteps /\ UNCHANGED <<spec, cfg, results>>
        /\ \/ \E status, actual : StepDone(status, actual)
           \/ pc' = "sent" /\ UNCHANGED steps
    BY <1>5 DEF Send, AtStep
  <2>2. CASE \E status, actual : StepDone(status, actual)
    BY <2>1, <2>2, StepDoneKeeps
  <2>3. CASE pc' = "sent" /\ UNCHANGED steps
    BY <2>1, <2>3, MovesKeep
  <2> QED BY <2>1, <2>2, <2>3
<1>6. CASE PollAgain
  <2>1. pc = "between" /\ pc' = "sent" /\ UNCHANGED <<spec, cfg, results, steps>>
    BY <1>6 DEF PollAgain
  <2>2. cfg.url /\ MoreSteps
    BY <2>1, <1>1 DEF Going
  <2> QED BY <2>1, <2>2, MovesKeep
<1>7. CASE PollCancelled \/ RequestFails \/ StreamEnds \/ ReaderTimesOut
  <2>1. /\ Exchanging /\ UNCHANGED <<spec, cfg, results>>
        /\ \/ \E status, actual : StepDone(status, actual)
           \/ pc' = "between" /\ UNCHANGED steps
    BY <1>7 DEF PollCancelled, RequestFails, StreamEnds, ReaderTimesOut, EndStream
  <2>2. cfg.url /\ MoreSteps
    BY <2>1, <1>1 DEF Going
  <2>3. CASE \E status, actual : StepDone(status, actual)
    BY <2>1, <2>2, <2>3, StepDoneKeeps
  <2>4. CASE pc' = "between" /\ UNCHANGED steps
    BY <2>1, <2>2, <2>4, MovesKeep
  <2> QED BY <2>1, <2>3, <2>4
<1>8. CASE ExpectStep \/ AssertStep \/ WaitStep \/ OtherStep
  <2>1. /\ pc = "step" /\ MoreSteps /\ UNCHANGED <<spec, cfg, results>>
        /\ \E status, actual : StepDone(status, actual)
    BY <1>8 DEF ExpectStep, AssertStep, WaitStep, OtherStep, Judge, AtStep
  <2> QED BY <2>1, StepDoneKeeps
<1>9. CASE EndCaseHTTP
  <2>1. pc = "step" /\ ~MoreSteps /\ Conclude(Verdict, Now) /\ UNCHANGED <<spec, cfg>>
    BY <1>9 DEF EndCaseHTTP
  <2>2. Len(results) < Len(spec.cases)
    BY <2>1 DEF Core, Place
  <2> QED BY <2>1, <2>2, VerdictIsSound, ConcludeKeeps
<1> QED BY <1>2, <1>3, <1>4, <1>5, <1>6, <1>7, <1>8, <1>9 DEF HTTPStep

\* Nor do the services under test change where the runner is.
LEMMA CoreEnvironment ==
    ASSUME Core, HTTPEnvironment
    PROVE  Core'
<1> USE DEF BeforeCases, InCase, Exchanging
<1>1. Going
  BY DEF Core
<1>2. /\ Exchanging /\ UNCHANGED <<spec, cfg, results>>
      /\ \/ \E status, actual : StepDone(status, actual)
         \/ pc' \in {"between", "reading"} /\ UNCHANGED steps
  <2>1. ASSUME NEW wire \in Wires, Answered(wire)
        PROVE  /\ Exchanging /\ UNCHANGED <<spec, cfg, results>>
               /\ \/ \E status, actual : StepDone(status, actual)
                  \/ pc' \in {"between", "reading"} /\ UNCHANGED steps
    BY <2>1 DEF Answered
  <2>2. ASSUME NEW e \in Events, EventArrives(e)
        PROVE  Exchanging /\ UNCHANGED <<spec, cfg, results>> /\ pc' = "reading" /\ UNCHANGED steps
    BY <2>2 DEF EventArrives
  <2>3. CASE RequestFails \/ StreamEnds
    BY <2>3 DEF RequestFails, StreamEnds, EndStream
  <2> QED BY <2>1, <2>2, <2>3 DEF HTTPEnvironment
<1>3. cfg.url /\ MoreSteps
  BY <1>1, <1>2 DEF Going
<1>4. CASE \E status, actual : StepDone(status, actual)
  BY <1>2, <1>3, <1>4, StepDoneKeeps
<1>5. CASE pc' \in {"between", "reading"} /\ UNCHANGED steps
  BY <1>2, <1>3, <1>5, MovesKeep
<1> QED BY <1>2, <1>4, <1>5

\* Container steps keep the runner in step with its results.
LEMMA CoreDocker ==
    ASSUME Core, DockerStep
    PROVE  Core'
<1> USE DEF BeforeCases, InCase, Exchanging
<1>1. Going /\ Place
  BY DEF Core
<1>2. CASE DockerRefuses
  <2>1. /\ pc = "case" /\ Len(results) < Len(spec.cases) /\ ~cfg.url
        /\ Conclude("error", Now) /\ UNCHANGED <<spec, cfg>>
    BY <1>2 DEF DockerRefuses, Starting, unchangedHTTP
  <2> QED BY <2>1, EmptyCaseKeeps
<1>3. CASE CreateContainer
  <2>1. /\ pc = "case" /\ Len(results) < Len(spec.cases) /\ ~cfg.url /\ pc' = "created"
        /\ UNCHANGED <<spec, cfg, results, steps>>
    BY <1>3 DEF CreateContainer, Starting, unchangedHTTP
  <2> QED BY <2>1, MovesKeep
<1>4. CASE ContainerStarts
  <2>1. pc = "created" /\ pc' = "step" /\ UNCHANGED <<spec, cfg, results, steps>>
    BY <1>4 DEF ContainerStarts, unchangedHTTP
  <2> QED BY <2>1, MovesKeep
<1>5. CASE ContainerStartFails
  <2>1. pc = "created" /\ Conclude("error", Now) /\ UNCHANGED <<spec, cfg>>
    BY <1>5 DEF ContainerStartFails, unchangedHTTP
  <2>2. Len(results) < Len(spec.cases) /\ steps = <<>> /\ ~cfg.url
    BY <2>1, <1>1 DEF Place, Going
  <2>3. PICK r : r = [case |-> Case.id, status |-> "error", steps |-> steps, started |-> Now]
    OBVIOUS
  <2>4. Sound(r, Case)
    BY <2>2, <2>3, Nothing DEF Sound
  <2> QED BY <2>1, <2>2, <2>3, <2>4, ConcludeKeeps
<1>6. CASE LegacyStep
  <2>1. /\ pc = "step" /\ MoreSteps /\ UNCHANGED <<spec, cfg, results>>
        /\ StepDone("error", NoResponse)
    BY <1>6 DEF LegacyStep, unchangedHTTP
  <2> QED BY <2>1, StepDoneKeeps
<1>7. CASE EndCaseDocker
  <2>1. pc = "step" /\ ~MoreSteps /\ Conclude(Verdict, Now) /\ UNCHANGED <<spec, cfg>>
    BY <1>7 DEF EndCaseDocker, unchangedHTTP
  <2>2. Len(results) < Len(spec.cases)
    BY <2>1, <1>1 DEF Place
  <2> QED BY <2>1, <2>2, VerdictIsSound, ConcludeKeeps
<1> QED BY <1>2, <1>3, <1>4, <1>5, <1>6, <1>7 DEF DockerStep

\* The command before and after the run, and other processes.
LEMMA CoreStore ==
    ASSUME Core, StoreStep \/ StatementFails \/ Crash \/ (\E s \in Specs : OtherSaves(s))
    PROVE  Core'
<1> USE DEF BeforeCases, InCase, Exchanging
<1>1. Going
  BY DEF Core
<1>2. CASE NoProcess
  BY <1>2, NoProcessKeeps
<1>3. CASE /\ UNCHANGED <<spec, cfg, results, steps>>
           /\ \/ pc' = pc
              \/ pc = "saveSpec" /\ pc' = "clearCases"
              \/ pc = "clearCases" /\ pc' = "saveCases"
              \/ pc = "saveCases" /\ pc' = "case"
              \/ pc = "case" /\ pc' = "saveRun"
              \/ pc = "saveRun" /\ pc' = "saveResults"
  <2>1. CASE pc' = pc
    BY <1>3, <2>1, <1>1, MovesKeep DEF Going
  <2>2. CASE pc' # pc
    BY <1>3, <2>2, MovesKeep
  <2> QED BY <2>1, <2>2
<1>4. NoProcess \/ ( /\ UNCHANGED <<spec, cfg, results, steps>>
                     /\ \/ pc' = pc
                        \/ pc = "saveSpec" /\ pc' = "clearCases"
                        \/ pc = "clearCases" /\ pc' = "saveCases"
                        \/ pc = "saveCases" /\ pc' = "case"
                        \/ pc = "case" /\ pc' = "saveRun"
                        \/ pc = "saveRun" /\ pc' = "saveResults")
  <2>1. CASE SaveSpecRow \/ ClearCases \/ SaveCase \/ CommitSpec
    BY <2>1 DEF SaveSpecRow, ClearCases, SaveCase, CommitSpec, storeOnly
  <2>2. CASE CaseRefused \/ CommitRun \/ StatementFails \/ Crash
    BY <2>2 DEF CaseRefused, Rollback, CommitRun, StatementFails, Crash
  <2>3. CASE EndRun
    BY <2>3 DEF EndRun, storeOnly
  <2>5. CASE SaveRunRow \/ SaveResult
    BY <2>5, Zenon DEF SaveRunRow, SaveResult, storeOnly
  <2>4. ASSUME NEW s \in Specs, OtherSaves(s)
        PROVE  UNCHANGED <<spec, cfg, results, steps, pc>>
    BY <2>4, Zenon DEF OtherSaves, rvars
  <2> QED BY <2>1, <2>2, <2>3, <2>4, <2>5 DEF StoreStep
<1> QED BY <1>2, <1>3, <1>4

\* A run starts from no results.
LEMMA CoreRun ==
    ASSUME Core, NEW s \in Specs, NEW c \in Configs, Run(s, c)
    PROVE  Core'
<1>1. /\ results = <<>> /\ steps = <<>> /\ results' = results /\ steps' = steps
      /\ spec' \in Specs /\ pc' = "saveSpec"
  BY DEF Core, Place, Run, BeforeCases, Exchanging
<1>2. Loaded' /\ Lists'
  BY <1>1, Nothing DEF Loaded, Lists
<1>3. Len(results') = 0 /\ Len(steps') = 0 /\ DOMAIN results' = 1..0
  BY <1>1, Nothing
<1>4. Len(spec'.cases) \in Nat
  BY <1>1, FilesAssumption
<1>5. Place'
  BY <1>1, <1>3, <1>4 DEF Place, BeforeCases, InCase, Exchanging
<1>6. Going' /\ PassingSoFar' /\ VerdictsFollowSteps'
  BY <1>1, <1>3 DEF Going, Exchanging, PassingSoFar, VerdictsFollowSteps
<1> QED BY <1>2, <1>5, <1>6 DEF Core

\* The runner and its results stay in step.
LEMMA CoreNext == Core /\ [Next]_vars => Core'
<1> SUFFICES ASSUME Core, [Next]_vars PROVE Core'
  OBVIOUS
<1>1. CASE UNCHANGED vars
  <2>1. UNCHANGED <<pc, spec, cfg, results, steps>>
    BY <1>1 DEF vars, rvars
  <2> QED BY <2>1, MovesKeep DEF Core, Going, BeforeCases, InCase, Exchanging
<1>2. CASE RunnerStep \/ Environment
  BY <1>2, CoreHTTP, CoreDocker, CoreEnvironment DEF RunnerStep, Environment
<1> QED BY <1>1, <1>2, CoreRun, CoreStore DEF Next

\* A case passes when all its steps were taken and passed, otherwise its status
\* is that of the step that did not (runner.go:138-151): for every spec, every
\* transport and whatever the runtime answers.
THEOREM VerdictsSound == Spec => []VerdictsFollowSteps
<1>1. Core => VerdictsFollowSteps
  BY DEF Core
<1> QED BY CoreInit, CoreNext, <1>1, PTL DEF Spec

-----------------------------------------------------------------------------
\* The containers whose removal failed.
Failed == unremoved.refused \cup unremoved.died \cup unremoved.late

\* While a case runs in a container, its own may be there; no other but those.
Left ==
    /\ unremoved = [refused |-> unremoved.refused, died |-> unremoved.died,
                    late |-> unremoved.late]
    /\ InCase /\ ~cfg.url => containers \subseteq Failed \cup {Container}
    /\ ~(InCase /\ ~cfg.url) => containers \subseteq Failed

\* A container that is not removed is among them.
LEMMA LeftBehind ==
    ASSUME Left, InCase, ~cfg.url,
           Removed \/ \E why \in {"refused", "late"} : Unremoved(why)
    PROVE  /\ unremoved' = [refused |-> unremoved'.refused, died |-> unremoved'.died,
                            late |-> unremoved'.late]
           /\ containers' \subseteq Failed'
<1>1. CASE Removed
  BY <1>1 DEF Left, Removed, Failed
<1>2. CASE Unremoved("refused")
  <2>1. unremoved' = [refused |-> unremoved.refused \cup {Container}, died |-> unremoved.died,
                      late |-> unremoved.late]
    BY <1>2 DEF Left, Unremoved
  <2> QED BY <1>2, <2>1 DEF Left, Unremoved, Failed
<1>3. CASE Unremoved("late")
  <2>1. unremoved' = [refused |-> unremoved.refused, died |-> unremoved.died,
                      late |-> unremoved.late \cup {Container}]
    BY <1>3 DEF Left, Unremoved
  <2> QED BY <1>3, <2>1 DEF Left, Unremoved, Failed
<1> QED BY <1>1, <1>2, <1>3

\* A case that fails in docker leaves its remaining steps unrun.
LEMMA LeftDocker ==
    ASSUME Core, Left, DockerStep
    PROVE  Left'
<1> USE DEF InCase, Exchanging
<1>1. Going
  BY DEF Core
<1>2. CASE DockerRefuses
  <2>1. pc = "case" /\ pc' = "case" /\ UNCHANGED <<containers, unremoved>>
    BY <1>2 DEF DockerRefuses, Starting, Conclude
  <2> QED BY <2>1 DEF Left, Failed
<1>3. CASE CreateContainer
  <2>1. /\ pc = "case" /\ ~cfg.url /\ pc' = "created" /\ UNCHANGED <<cfg, unremoved, runId, results>>
        /\ containers' = containers \cup {Container}
    BY <1>3 DEF CreateContainer, Starting, unchangedHTTP
  <2> QED BY <2>1 DEF Left, Failed, Container
<1>4. CASE ContainerStarts
  <2>1. /\ pc = "created" /\ pc' = "step"
        /\ UNCHANGED <<cfg, containers, unremoved, runId, results>>
    BY <1>4 DEF ContainerStarts, unchangedHTTP
  <2> QED BY <2>1, <1>1 DEF Left, Failed, Container, Going
<1>5. CASE ContainerStartFails \/ EndCaseDocker
  <2>1. /\ InCase /\ ~cfg.url /\ pc' = "case"
        /\ Removed \/ \E why \in {"refused", "late"} : Unremoved(why)
    BY <1>5, <1>1 DEF ContainerStartFails, EndCaseDocker, Conclude, Going
  <2> QED BY <2>1, LeftBehind DEF Left, Failed
<1>6. CASE LegacyStep
  <2>1. /\ pc = "step" /\ pc' = "step" /\ UNCHANGED <<cfg, containers, unremoved, runId, results>>
    BY <1>6 DEF LegacyStep, StepDone, unchangedHTTP
  <2> QED BY <2>1 DEF Left, Failed, Container
<1> QED BY <1>2, <1>3, <1>4, <1>5, <1>6 DEF DockerStep

\* So does one that fails in an exchange.
LEMMA LeftHTTP ==
    ASSUME Core, Left, HTTPStep \/ HTTPEnvironment
    PROVE  Left'
<1> USE DEF InCase, Exchanging
<1>1. Going /\ UNCHANGED <<runId, unremoved>>
  BY DEF Core, HTTPStep, HTTPEnvironment
<1>2. CASE Skip
  <2>1. pc = "case" /\ pc' = "case" /\ UNCHANGED containers
    BY <1>2 DEF Skip, Conclude
  <2> QED BY <2>1, <1>1 DEF Left, Failed
<1>3. CASE Deadline
  <2>1. UNCHANGED <<pc, cfg, containers, results>>
    BY <1>3 DEF Deadline
  <2> QED BY <2>1, <1>1 DEF Left, Failed, Container
<1>4. CASE StartCaseHTTP \/ Send \/ ExpectStep \/ AssertStep \/ WaitStep \/ OtherStep \/ EndCaseHTTP
  <2>1. cfg.url /\ cfg' = cfg /\ UNCHANGED containers
    BY <1>4 DEF StartCaseHTTP, Send, AtStep, ExpectStep, AssertStep, WaitStep, OtherStep, Judge,
      EndCaseHTTP
  <2> QED BY <2>1, <1>1 DEF Left, Failed
<1>5. CASE \/ PollAgain \/ PollCancelled \/ RequestFails \/ StreamEnds \/ ReaderTimesOut
           \/ HTTPEnvironment
  <2>1. Exchanging /\ cfg' = cfg /\ UNCHANGED containers
    BY <1>5 DEF PollAgain, PollCancelled, RequestFails, StreamEnds, ReaderTimesOut, EndStream,
      HTTPEnvironment, Answered, EventArrives
  <2>2. cfg.url
    BY <2>1, <1>1 DEF Going
  <2> QED BY <2>1, <2>2, <1>1 DEF Left, Failed
<1> QED BY <1>2, <1>3, <1>4, <1>5 DEF HTTPStep

\* What is left of a case stays so.
LEMMA LeftNext == Core /\ Left /\ [Next]_vars => Left'
<1> SUFFICES ASSUME Core, Left, [Next]_vars PROVE Left'
  OBVIOUS
<1>1. CASE RunnerStep \/ Environment
  BY <1>1, LeftDocker, LeftHTTP DEF RunnerStep, Environment
<1> USE DEF InCase, Exchanging
<1>2. CASE UNCHANGED vars
  <2>1. UNCHANGED <<pc, cfg, results, containers, runId, unremoved>>
    BY <1>2 DEF vars, rvars
  <2> QED BY <2>1 DEF Left, Failed, Container
<1>3. CASE StoreStep \/ StatementFails
  <2>1. ~InCase /\ ~InCase' /\ UNCHANGED <<containers, unremoved>>
    BY <1>3 DEF StoreStep, SaveSpecRow, ClearCases, SaveCase, CommitSpec, CaseRefused, EndRun,
      SaveRunRow, SaveResult, CommitRun, StatementFails, Rollback, NoProcess, storeOnly
  <2> QED BY <2>1 DEF Left, Failed
<1>4. ASSUME NEW s \in Specs, NEW c \in Configs, Run(s, c) PROVE Left'
  <2>1. ~InCase /\ ~InCase' /\ UNCHANGED <<containers, unremoved>>
    BY <1>4 DEF Run
  <2> QED BY <2>1 DEF Left, Failed
<1>5. CASE Crash
  <2>1. /\ ~InCase' /\ containers' = containers
        /\ unremoved' = [unremoved EXCEPT !.died = @ \cup containers]
    BY <1>5 DEF Crash, NoProcess
  <2>2. unremoved' = [refused |-> unremoved.refused, died |-> unremoved.died \cup containers,
                      late |-> unremoved.late]
    BY <2>1 DEF Left
  <2> QED BY <2>1, <2>2 DEF Left, Failed
<1>6. ASSUME NEW s \in Specs, OtherSaves(s) PROVE Left'
  <2>1. UNCHANGED <<pc, cfg, results, containers, runId, unremoved>>
    BY <1>6 DEF OtherSaves, rvars
  <2> QED BY <2>1 DEF Left, Failed, Container
<1> QED BY <1>1, <1>2, <1>3, <1>4, <1>5, <1>6 DEF Next

\* In every run, the containers left by cases that are over are those docker refused to
\* remove, those of processes that died, and those whose case met its deadline while
\* they were starting (runner.go:203, docker.go:80-82).
THEOREM ContainersRemoved == Spec => []NoContainerLeft
<1>1. Init => Left
  BY DEF Init, RunnerInit, Left, InCase, Exchanging
<1>2. Core /\ Left => NoContainerLeft
  BY DEF Left, Failed, InCase, Exchanging, NoContainerLeft
<1> QED BY CoreInit, CoreNext, LeftNext, <1>1, <1>2, PTL DEF Spec

-----------------------------------------------------------------------------
\* The types, part by part.
Flags ==
    /\ cfg \in Configs /\ expired \in BOOLEAN /\ runId \in 0..MaxRuns
    /\ pc \in {"idle", "saveSpec", "clearCases", "saveCases", "case", "step", "sent", "between",
               "reading", "created", "saveRun", "saveResults"}

StepStatuses == \A i \in DOMAIN steps : steps[i].status \in Statuses
CaseStatuses == \A i \in DOMAIN results : results[i].status \in Statuses

\* An attempt that is not the last leaves another to be made.
Attempts ==
    /\ pc = "sent" => attempt \in 1..(IF Polling THEN Poll(Step) ELSE 1)
    /\ pc = "between" => Polling /\ attempt \in 1..(Poll(Step) - 1)

\* Tables that hold finitely many results.
Table(t) ==
    /\ DOMAIN t = {"specs", "cases", "runs", "results"}
    /\ IsFiniteSet(t.results)
    /\ \A r \in t.results : r.status \in Statuses
Stored == Table(db) /\ Table(tx)

Types == Flags /\ StepStatuses /\ CaseStatuses /\ Attempts /\ Stored

\* The number of attempts of the step the runner is at.
LEMMA PollIsNat ==
    ASSUME Core, InCase, MoreSteps
    PROVE  Poll(Step) \in Nat
<1>1. Loaded /\ Lists /\ Place
  BY DEF Core
<1>2. /\ Len(results) \in Nat /\ Len(steps) \in Nat /\ Len(spec.cases) \in Nat
      /\ Len(results) + 1 \in 1..Len(spec.cases)
  BY <1>1, Nothing, Files DEF Lists, Place
<1>3. IsSeq(Case.steps) /\ Len(Case.steps) \in Nat /\ DOMAIN Case.steps = 1..Len(Case.steps)
  BY <1>1, Files, Nothing
<1>4. Len(steps) + 1 \in DOMAIN Case.steps
  BY <1>2, <1>3 DEF MoreSteps
<1>5. Len(results) + 1 \in DOMAIN spec.cases
  BY <1>1, <1>2, FilesAssumption DEF Loaded
<1>6. Step.poll \in Nat
  BY <1>1, <1>4, <1>5, FilesAssumption DEF Loaded, Case, Step
<1> QED BY <1>6 DEF Poll, NoPoll

\* The verdict of a case is a status.
LEMMA VerdictTyped ==
    ASSUME Core, StepStatuses
    PROVE  Verdict \in Statuses
<1>1. Len(steps) \in Nat /\ DOMAIN steps = 1..Len(steps)
  BY Nothing DEF Core, Lists
<1>2. CASE Passing
  BY <1>2 DEF Verdict, Statuses
<1>3. CASE ~Passing
  <2>1. Len(steps) \in DOMAIN steps
    BY <1>1, <1>3 DEF Passing
  <2> QED BY <1>3, <2>1 DEF Verdict, StepStatuses
<1> QED BY <1>2, <1>3

\* Recording a step or a case adds one status.
LEMMA RecordedStatuses ==
    ASSUME Core, StepStatuses, CaseStatuses, NEW status \in Statuses
    PROVE  /\ \A actual : StepDone(status, actual) => StepStatuses'
           /\ \A started : Conclude(status, started) => CaseStatuses' /\ StepStatuses'
<1>1. Lists
  BY DEF Core
<1>2. ASSUME NEW actual, StepDone(status, actual) PROVE StepStatuses'
  <2>1. PICK r : steps' = Append(steps, r) /\ r.status = status
    BY <1>2 DEF StepDone
  <2>2. /\ \A i \in 1..Len(steps) : steps'[i] = steps[i]
        /\ steps'[Len(steps) + 1] = r /\ Len(steps) \in Nat
        /\ DOMAIN steps = 1..Len(steps) /\ DOMAIN steps' = 1..(Len(steps) + 1)
    BY <1>1, <2>1, Appending DEF Lists
  <2> QED BY <2>1, <2>2 DEF StepStatuses
<1>3. ASSUME NEW started, Conclude(status, started) PROVE CaseStatuses' /\ StepStatuses'
  <2>1. PICK r : results' = Append(results, r) /\ r.status = status
    BY <1>3 DEF Conclude
  <2>2. /\ \A i \in 1..Len(results) : results'[i] = results[i]
        /\ results'[Len(results) + 1] = r /\ Len(results) \in Nat
        /\ DOMAIN results = 1..Len(results) /\ DOMAIN results' = 1..(Len(results) + 1)
    BY <1>1, <2>1, Appending DEF Lists
  <2>3. steps' = <<>> /\ DOMAIN <<>> = 1..0
    BY <1>3, Nothing DEF Conclude
  <2> QED BY <2>1, <2>2, <2>3 DEF CaseStatuses, StepStatuses
<1> QED BY <1>2, <1>3

\* Exchanges record statuses only.
LEMMA TypesHTTP ==
    ASSUME Core, Types, HTTPStep \/ HTTPEnvironment
    PROVE  StepStatuses' /\ CaseStatuses'
<1>1. StepStatuses /\ CaseStatuses /\ Verdict \in Statuses
  BY VerdictTyped DEF Types
<1>2. CASE UNCHANGED <<steps, results>>
  BY <1>1, <1>2 DEF StepStatuses, CaseStatuses
<1>3. CASE UNCHANGED results /\ \E status \in Statuses : \E actual : StepDone(status, actual)
  BY <1>1, <1>3, RecordedStatuses DEF CaseStatuses
<1>4. CASE \E status \in Statuses : \E started : Conclude(status, started)
  BY <1>1, <1>4, RecordedStatuses
<1>5. \/ UNCHANGED <<steps, results>>
      \/ UNCHANGED results /\ \E status \in Statuses : \E actual : StepDone(status, actual)
      \/ \E status \in Statuses : \E started : Conclude(status, started)
  <2>0. {"pass", "fail", "error", "skip", "timeout"} = Statuses
    BY DEF Statuses
  <2>1. CASE Skip \/ StartCaseHTTP \/ EndCaseHTTP
    BY <2>0, <2>1, <1>1 DEF Skip, StartCaseHTTP, EndCaseHTTP
  <2>2. CASE Deadline \/ PollAgain \/ (\E e \in Events : EventArrives(e))
    BY <2>2 DEF Deadline, PollAgain, EventArrives
  <2>3. CASE Send \/ PollCancelled \/ RequestFails
    BY <2>0, <2>3 DEF Send, PollCancelled, RequestFails
  <2>4. CASE StreamEnds \/ ReaderTimesOut
    BY <2>0, <2>4 DEF StreamEnds, ReaderTimesOut, EndStream
  <2>5. CASE ExpectStep \/ AssertStep
    BY <2>0, <2>5 DEF ExpectStep, AssertStep, Judge
  <2>6. CASE WaitStep \/ OtherStep
    BY <2>0, <2>6 DEF WaitStep, OtherStep
  <2>7. ASSUME NEW wire \in Wires, Answered(wire)
        PROVE  /\ UNCHANGED results
               /\ UNCHANGED steps \/ \E actual : StepDone("pass", actual)
    BY <2>7 DEF Answered
  <2> QED BY <2>0, <2>1, <2>2, <2>3, <2>4, <2>5, <2>6, <2>7 DEF HTTPStep, HTTPEnvironment
<1> QED BY <1>2, <1>3, <1>4, <1>5

\* So do container steps.
LEMMA TypesDocker ==
    ASSUME Core, Types, DockerStep
    PROVE  StepStatuses' /\ CaseStatuses'
<1>1. /\ StepStatuses /\ CaseStatuses /\ Verdict \in Statuses
      /\ "error" \in Statuses
  BY VerdictTyped DEF Types, Statuses
<1>2. CASE CreateContainer \/ ContainerStarts
  <2>1. UNCHANGED <<steps, results>>
    BY <1>2 DEF CreateContainer, ContainerStarts
  <2> QED BY <1>1, <2>1 DEF StepStatuses, CaseStatuses
<1>3. CASE LegacyStep
  <2>1. UNCHANGED results /\ StepDone("error", NoResponse)
    BY <1>3 DEF LegacyStep
  <2> QED BY <1>1, <2>1, RecordedStatuses DEF CaseStatuses
<1>4. CASE DockerRefuses \/ ContainerStartFails \/ EndCaseDocker
  <2>1. \E status \in Statuses : \E started : Conclude(status, started)
    BY <1>1, <1>4 DEF DockerRefuses, ContainerStartFails, EndCaseDocker
  <2> QED BY <1>1, <2>1, RecordedStatuses
<1> QED BY <1>2, <1>3, <1>4 DEF DockerStep

\* Between the saves the runner stays with its cases.
LEMMA RunnerMoves ==
    ASSUME RunnerStep \/ Environment
    PROVE  pc' \in {"case", "step", "sent", "between", "reading", "created"}
<1>1. CASE HTTPStep
  <2>1. CASE Skip \/ StartCaseHTTP \/ Deadline \/ Send \/ PollAgain \/ PollCancelled
    BY <2>1 DEF Skip, StartCaseHTTP, Starting, Deadline, Send, AtStep, PollAgain, PollCancelled,
      StepDone, Conclude
  <2>2. CASE RequestFails \/ StreamEnds \/ ReaderTimesOut
    BY <2>2 DEF RequestFails, StreamEnds, ReaderTimesOut, EndStream, StepDone
  <2>3. CASE ExpectStep \/ AssertStep \/ WaitStep \/ OtherStep \/ EndCaseHTTP
    BY <2>3 DEF ExpectStep, AssertStep, WaitStep, OtherStep, Judge, EndCaseHTTP, StepDone, Conclude
  <2> QED BY <1>1, <2>1, <2>2, <2>3 DEF HTTPStep
<1>2. CASE DockerStep
  BY <1>2 DEF DockerStep, DockerRefuses, CreateContainer, ContainerStarts, ContainerStartFails,
    LegacyStep, EndCaseDocker, StepDone, Conclude
<1>3. CASE HTTPEnvironment
  <2>1. ASSUME NEW wire \in Wires, Answered(wire) PROVE pc' \in {"reading", "between", "step"}
    BY <2>1 DEF Answered, StepDone
  <2>2. ASSUME NEW e \in Events, EventArrives(e) PROVE pc' = "reading"
    BY <2>2 DEF EventArrives
  <2>3. CASE RequestFails \/ StreamEnds
    BY <2>3 DEF RequestFails, StreamEnds, EndStream, StepDone
  <2> QED BY <1>3, <2>1, <2>2, <2>3 DEF HTTPEnvironment
<1> QED BY <1>1, <1>2, <1>3 DEF RunnerStep, Environment

\* Where the runner may be next, and the deadline.
LEMMA FlagsNext ==
    ASSUME Core, Types, [Next]_vars
    PROVE  Flags'
<1>1. cfg \in Configs /\ expired \in BOOLEAN /\ runId \in 0..MaxRuns /\ Flags
  BY DEF Types, Flags
<1>2. CASE RunnerStep \/ Environment
  <2>1. UNCHANGED <<cfg, runId>> /\ expired' \in {expired, TRUE, FALSE}
    BY <1>2 DEF RunnerStep, Environment, HTTPStep, HTTPEnvironment, DockerStep, Skip,
      StartCaseHTTP, Deadline, Send, PollAgain, PollCancelled, RequestFails, StreamEnds,
      ReaderTimesOut, EndStream, ExpectStep, AssertStep, Judge, WaitStep, OtherStep, EndCaseHTTP,
      Answered, EventArrives, DockerRefuses, CreateContainer, ContainerStarts,
      ContainerStartFails, LegacyStep, EndCaseDocker, unchangedHTTP
  <2>2. pc' \in {"case", "step", "sent", "between", "reading", "created"}
    BY <1>2, RunnerMoves
  <2>3. expired' \in BOOLEAN
    BY <2>1, <1>1
  <2> QED BY <2>1, <2>2, <2>3, <1>1 DEF Flags
<1>3. ASSUME NEW s \in Specs, NEW c \in Configs, Run(s, c) PROVE Flags'
  <2>1. cfg' \in Configs /\ pc' = "saveSpec" /\ runId' = runId + 1 /\ runId < MaxRuns
    BY <1>3 DEF Run
  <2>2. expired' = expired
    BY <1>3 DEF Run
  <2>3. runId' \in 0..MaxRuns
    BY <1>1, <2>1, RunsAssumption
  <2> QED BY <1>1, <2>1, <2>2, <2>3 DEF Flags
<1>4. CASE StoreStep \/ StatementFails \/ Crash \/ UNCHANGED vars \/ (\E s \in Specs : OtherSaves(s))
  <2>1. UNCHANGED <<cfg, runId>> /\ expired' \in {expired, FALSE}
    BY <1>4, Zenon DEF StoreStep, SaveSpecRow, ClearCases, SaveCase, CommitSpec, CaseRefused, EndRun,
      SaveRunRow, SaveResult, CommitRun, StatementFails, Rollback, NoProcess, Crash, OtherSaves,
      storeOnly, vars, rvars
  <2>2. pc' \in {pc, "idle", "clearCases", "saveCases", "case", "saveRun", "saveResults"}
    BY <1>4, Zenon DEF StoreStep, SaveSpecRow, ClearCases, SaveCase, CommitSpec, CaseRefused, EndRun,
      SaveRunRow, SaveResult, CommitRun, StatementFails, Rollback, NoProcess, Crash, OtherSaves,
      storeOnly, vars, rvars
  <2>3. expired' \in BOOLEAN
    BY <2>1, <1>1
  <2> QED BY <2>1, <2>2, <2>3, <1>1 DEF Flags
<1> QED BY <1>2, <1>3, <1>4 DEF Next

\* A poll goes on only while attempts are left (http_runner.go:153-221).
LEMMA AttemptsNext ==
    ASSUME Core, Types, [Next]_vars
    PROVE  Attempts'
<1>1. Attempts /\ Going
  BY DEF Types, Core
<1>2. CASE pc' \notin {"sent", "between"}
  BY <1>2 DEF Attempts
<1>3. CASE UNCHANGED <<pc, attempt, spec, results, steps>>
  BY <1>1, <1>3 DEF Attempts, Polling, Poll, Step, Case, Transport
<1>4. ASSUME UNCHANGED <<spec, results, steps>>
      PROVE  Step' = Step /\ (Polling' <=> Polling) /\ Poll(Step)' = Poll(Step)
  BY <1>4 DEF Polling, Poll, Step, Case, Transport
<1>5. CASE Send /\ pc' = "sent"
  <2>1. /\ UNCHANGED <<spec, results>> /\ attempt' = 1 /\ InCase /\ MoreSteps
        /\ UNCHANGED steps /\ Poll(Step) # 0
    BY <1>5 DEF Send, AtStep, StepDone, InCase
  <2>2. Poll(Step) \in Nat
    BY <2>1, PollIsNat
  <2>3. attempt' \in 1..(IF Polling THEN Poll(Step) ELSE 1)
    BY <2>1, <2>2
  <2>4. (IF Polling THEN Poll(Step) ELSE 1)' = IF Polling THEN Poll(Step) ELSE 1
    BY <1>4, <2>1
  <2> QED BY <1>5, <2>3, <2>4 DEF Attempts
<1>6. ASSUME UNCHANGED <<spec, results, steps, attempt>>, pc = "sent", pc' = "between",
             Polling, attempt < Poll(Step)
      PROVE  Attempts'
  <2>1. InCase /\ MoreSteps
    BY <1>1, <1>6 DEF InCase, Exchanging, Going
  <2>2. Poll(Step) \in Nat
    BY <2>1, PollIsNat
  <2>3. attempt \in 1..(Poll(Step) - 1)
    BY <1>1, <1>6, <2>2 DEF Attempts
  <2>4. Polling' /\ (Poll(Step) - 1)' = Poll(Step) - 1
    BY <1>4, <1>6
  <2>5. attempt' \in 1..((Poll(Step) - 1)')
    BY <2>3, <2>4, <1>6
  <2> QED BY <1>6, <2>4, <2>5 DEF Attempts
<1>7. ASSUME NEW wire \in Wires, Answered(wire), pc' = "between" PROVE Attempts'
  <2>1. /\ UNCHANGED <<spec, results, attempt>> /\ pc = "sent"
        /\ UNCHANGED steps /\ Polling /\ attempt < Poll(Step)
    BY <1>7 DEF Answered, StepDone
  <2> QED BY <2>1, <1>6, <1>7
<1>8. CASE RequestFails /\ pc' = "between"
  <2>1. /\ UNCHANGED <<spec, results, attempt>> /\ pc = "sent"
        /\ UNCHANGED steps /\ Polling /\ attempt < Poll(Step)
    BY <1>8 DEF RequestFails, StepDone
  <2> QED BY <2>1, <1>6, <1>8
<1>9. CASE PollAgain
  <2>1. /\ pc = "between" /\ pc' = "sent" /\ attempt' = attempt + 1
        /\ UNCHANGED <<spec, results, steps>>
    BY <1>9 DEF PollAgain
  <2>2. InCase /\ MoreSteps
    BY <1>1, <2>1 DEF InCase, Exchanging, Going
  <2>3. Poll(Step) \in Nat
    BY <2>2, PollIsNat
  <2>4. Polling /\ attempt' \in 1..Poll(Step)
    BY <1>1, <2>1, <2>3 DEF Attempts
  <2>5. (IF Polling THEN Poll(Step) ELSE 1)' = Poll(Step)
    BY <1>4, <2>1, <2>4
  <2> QED BY <2>1, <2>4, <2>5 DEF Attempts
<1>10. CASE HTTPStep \/ HTTPEnvironment
  <2>1. \/ pc' \notin {"sent", "between"}
        \/ UNCHANGED <<pc, attempt, spec, results, steps>>
        \/ Send /\ pc' = "sent"
        \/ RequestFails /\ pc' = "between"
        \/ PollAgain
        \/ \E wire \in Wires : Answered(wire) /\ pc' = "between"
    <3>1. CASE Skip \/ StartCaseHTTP \/ EndCaseHTTP
      <4>1. pc' \in {"case", "step"}
        BY <3>1 DEF Skip, StartCaseHTTP, EndCaseHTTP, Conclude
      <4> QED BY <4>1
    <3>2. CASE Deadline \/ (\E e \in Events : EventArrives(e))
      <4>1. UNCHANGED <<pc, attempt, spec, results, steps>>
        BY <3>2 DEF Deadline, EventArrives
      <4> QED BY <4>1
    <3>3. CASE Send
      BY <3>3 DEF Send, StepDone
    <3>4. CASE PollCancelled \/ StreamEnds \/ ReaderTimesOut
      BY <3>4 DEF PollCancelled, StreamEnds, ReaderTimesOut, EndStream, StepDone
    <3>5. CASE ExpectStep \/ AssertStep \/ WaitStep \/ OtherStep
      BY <3>5 DEF ExpectStep, AssertStep, WaitStep, OtherStep, Judge, StepDone
    <3>6. CASE RequestFails
      BY <3>6 DEF RequestFails, StepDone
    <3>7. ASSUME NEW wire \in Wires, Answered(wire)
          PROVE  pc' = "between" \/ pc' \notin {"sent", "between"}
      BY <3>7 DEF Answered, StepDone
    <3> QED BY <1>10, <3>1, <3>2, <3>3, <3>4, <3>5, <3>6, <3>7 DEF HTTPStep, HTTPEnvironment
  <2> QED BY <2>1, <1>2, <1>3, <1>5, <1>7, <1>8, <1>9
<1>11. CASE DockerStep
  <2>1. pc' \in {"case", "created", "step"}
    BY <1>11 DEF DockerStep, DockerRefuses, CreateContainer, ContainerStarts,
      ContainerStartFails, LegacyStep, EndCaseDocker, StepDone, Conclude
  <2> QED BY <2>1, <1>2
<1>12. CASE StoreStep \/ StatementFails \/ Crash
  <2>1. pc' \notin {"sent", "between"}
    BY <1>12 DEF StoreStep, SaveSpecRow, ClearCases, SaveCase, CommitSpec, CaseRefused, EndRun,
      SaveRunRow, SaveResult, CommitRun, StatementFails, Rollback, NoProcess, Crash
  <2> QED BY <2>1, <1>2
<1>13. ASSUME NEW s \in Specs, OtherSaves(s) \/ \E c \in Configs : Run(s, c) PROVE Attempts'
  <2>1. pc' = "saveSpec" \/ UNCHANGED <<pc, attempt, spec, results, steps>>
    BY <1>13 DEF OtherSaves, Run, rvars
  <2> QED BY <2>1, <1>2, <1>3
<1>14. CASE UNCHANGED vars
  BY <1>14, <1>3 DEF vars, rvars
<1> QED BY <1>10, <1>11, <1>12, <1>13, <1>14 DEF Next, RunnerStep, Environment

\* The results that are stored are those of the run (store.go:161-196).
LEMMA StoredNext ==
    ASSUME Core, Types, [Next]_vars
    PROVE  Stored'
<1>1. Table(db) /\ Table(tx) /\ CaseStatuses
  BY DEF Types, Stored
<1>2. Table(Tables)
  BY FS_EmptySet DEF Table, Tables
<1>3. CASE db' \in {db, tx} /\ tx' \in {tx, db, Tables}
  <2>1. Table(db') /\ Table(tx')
    BY <1>1, <1>2, <1>3
  <2> QED BY <2>1 DEF Stored, Table
<1>4. CASE SaveSpecRow \/ ClearCases \/ SaveCase
  <2>1. db' = db /\ DOMAIN tx' = {"specs", "cases", "runs", "results"}
    BY <1>1, <1>4 DEF SaveSpecRow, ClearCases, SaveCase, Table
  <2>2. tx'.results \in {tx.results, db.results}
    BY <1>1, <1>4 DEF SaveSpecRow, ClearCases, SaveCase, Table
  <2>3. Table(tx')
    BY <1>1, <2>1, <2>2 DEF Table
  <2> QED BY <1>1, <2>1, <2>3 DEF Stored, Table
<1>5. CASE SaveRunRow
  <2>1. db' = db /\ DOMAIN tx' = {"specs", "cases", "runs", "results"} /\ tx'.results = db.results
    BY <1>1, <1>5 DEF SaveRunRow, Table
  <2>2. Table(tx')
    BY <1>1, <2>1 DEF Table
  <2> QED BY <1>1, <2>1, <2>2 DEF Stored, Table
<1>6. CASE SaveResult
  <2>1. /\ db' = db /\ Saved < Len(results)
        /\ DOMAIN tx' = {"specs", "cases", "runs", "results"}
        /\ tx'.results = tx.results \cup {Row(Saved + 1)}
    BY <1>1, <1>6 DEF SaveResult, Table
  <2>2. IsFiniteSet({r \in tx.results : r.run = runId})
    BY <1>1, FS_Subset DEF Table
  <2>3. Saved \in Nat
    BY <2>2, FS_CardinalityType DEF Saved
  <2>4. Saved + 1 \in DOMAIN results
    BY <2>1, <2>3, Nothing DEF Core, Lists
  <2>5. Row(Saved + 1).status \in Statuses
    BY <1>1, <2>4 DEF Row, CaseStatuses
  <2>6. IsFiniteSet(tx'.results)
    BY <1>1, <2>1, FS_AddElement DEF Table
  <2>7. Table(tx')
    BY <1>1, <2>1, <2>5, <2>6 DEF Table
  <2> QED BY <1>1, <2>1, <2>7 DEF Stored, Table
<1>7. ASSUME NEW s \in Specs, OtherSaves(s) PROVE Stored'
  <2>1. /\ tx' = tx /\ DOMAIN db' = {"specs", "cases", "runs", "results"}
        /\ db'.results = db.results
    BY <1>1, <1>7 DEF OtherSaves, Table
  <2>2. Table(db')
    BY <1>1, <2>1 DEF Table
  <2> QED BY <1>1, <2>1, <2>2 DEF Stored, Table
<1>8. CASE CommitSpec \/ CaseRefused \/ CommitRun \/ EndRun
  BY <1>3, <1>8 DEF CommitSpec, CaseRefused, CommitRun, EndRun, Rollback, NoProcess
<1>9. CASE StatementFails \/ Crash \/ UNCHANGED vars
  BY <1>3, <1>9 DEF StatementFails, Rollback, NoProcess, Crash, vars
<1>10. CASE RunnerStep \/ Environment
  BY <1>3, <1>10 DEF RunnerStep, Environment
<1>11. ASSUME NEW s \in Specs, NEW c \in Configs, Run(s, c) PROVE Stored'
  BY <1>3, <1>11 DEF Run
<1> QED BY <1>4, <1>5, <1>6, <1>7, <1>8, <1>9, <1>10, <1>11 DEF Next, StoreStep

\* Nothing has been recorded at the start.
LEMMA TypesInit == Init => Types
<1> SUFFICES ASSUME Init PROVE Types
  OBVIOUS
<1>1. Flags /\ Attempts
  <2>1. pc = "idle" /\ expired = FALSE /\ runId = 0
    BY DEF Init, RunnerInit
  <2>2. cfg \in Configs
    BY FilesAssumption DEF Init
  <2>3. runId \in 0..MaxRuns
    BY <2>1, RunsAssumption
  <2>4. Attempts
    BY <2>1 DEF Attempts
  <2> QED BY <2>1, <2>2, <2>3, <2>4 DEF Flags
<1>2. DOMAIN <<>> = 1..0
  BY Nothing
<1>3. StepStatuses /\ CaseStatuses
  BY <1>2 DEF Init, RunnerInit, StepStatuses, CaseStatuses
<1>4. Table(Tables)
  BY FS_EmptySet DEF Table, Tables
<1>5. Stored
  BY <1>4 DEF Init, Stored
<1> QED BY <1>1, <1>3, <1>5 DEF Types

\* Every variable keeps its type.
LEMMA TypesNext == Core /\ Types /\ [Next]_vars => Types'
<1> SUFFICES ASSUME Core, Types, [Next]_vars PROVE Types'
  OBVIOUS
<1>1. StepStatuses' /\ CaseStatuses'
  <2>1. CASE RunnerStep \/ Environment
    BY <2>1, TypesHTTP, TypesDocker DEF RunnerStep, Environment
  <2>2. CASE UNCHANGED <<steps, results>>
    BY <2>2 DEF Types, StepStatuses, CaseStatuses
  <2>3. CASE NoProcess
    <3>1. DOMAIN <<>> = 1..0
      BY Nothing
    <3> QED BY <2>3, <3>1 DEF NoProcess, StepStatuses, CaseStatuses
  <2>4. CASE StoreStep \/ StatementFails \/ Crash \/ UNCHANGED vars
    <3>1. NoProcess \/ UNCHANGED <<steps, results>>
      BY <2>4 DEF StoreStep, SaveSpecRow, ClearCases, SaveCase, CommitSpec, CaseRefused, EndRun,
        SaveRunRow, SaveResult, CommitRun, StatementFails, Rollback, Crash, storeOnly, vars, rvars
    <3> QED BY <3>1, <2>2, <2>3
  <2>5. ASSUME NEW s \in Specs, OtherSaves(s) \/ \E c \in Configs : Run(s, c)
        PROVE  UNCHANGED <<steps, results>>
    BY <2>5 DEF OtherSaves, Run, rvars
  <2> QED BY <2>1, <2>2, <2>4, <2>5 DEF Next
<1> QED BY <1>1, FlagsNext, AttemptsNext, StoredNext DEF Types

\* The types, with two facts in them: no poll makes more attempts than it is
\* allowed (http_runner.go:153), and nothing is recorded of a case that is not
\* in the spec.
THEOREM TypeCorrect == Spec => []TypeOK
<1>1. Init => Types
  BY TypesInit
<1>2. Core /\ Types => TypeOK
  <2> SUFFICES ASSUME Core, Types PROVE TypeOK
    OBVIOUS
  <2>1. /\ Loaded /\ Lists /\ Place /\ Going /\ Flags /\ StepStatuses /\ CaseStatuses
        /\ Attempts /\ Table(db) /\ Table(tx)
    BY DEF Core, Types, Stored
  <2>2. pc \in {"sent", "between"} => attempt \in 1..(IF Polling THEN Poll(Step) ELSE 1)
    <3>1. CASE pc = "sent"
      BY <2>1, <3>1 DEF Attempts
    <3>2. CASE pc = "between"
      <4>1. InCase /\ MoreSteps
        BY <2>1, <3>2 DEF InCase, Exchanging, Going
      <4>2. Poll(Step) \in Nat
        BY <4>1, PollIsNat
      <4>3. Polling /\ attempt \in 1..(Poll(Step) - 1)
        BY <2>1, <3>2 DEF Attempts
      <4>4. attempt \in 1..Poll(Step)
        BY <4>2, <4>3
      <4> QED BY <4>3, <4>4
    <3> QED BY <3>1, <3>2
  <2>3. steps # <<>> => Len(results) < Len(spec.cases) /\ Len(steps) <= Len(Case.steps)
    BY <2>1 DEF Place, InCase
  <2>4. \A r \in db.results \union tx.results : r.status \in Statuses
    BY <2>1 DEF Table
  <2>5. /\ spec \in Specs /\ cfg \in Configs /\ expired \in BOOLEAN /\ runId \in 0..MaxRuns
        /\ pc \in {"idle", "saveSpec", "clearCases", "saveCases", "case", "step", "sent", "between",
                   "reading", "created", "saveRun", "saveResults"}
    BY <2>1 DEF Loaded, Flags
  <2>6. /\ Len(results) <= Len(spec.cases)
        /\ \A i \in DOMAIN results : results[i].status \in Statuses
        /\ \A i \in DOMAIN steps : steps[i].status \in Statuses
    BY <2>1 DEF Place, StepStatuses, CaseStatuses
  <2> QED BY <2>2, <2>3, <2>4, <2>5, <2>6 DEF TypeOK
<1> QED BY CoreInit, CoreNext, TypesNext, <1>1, <1>2, PTL DEF Spec

-----------------------------------------------------------------------------
\* What is stored of a spec, row by row.
RowOf(s, i) == [spec |-> s.id, version |-> s.version, id |-> s.cases[i].id]
CasesOf(t, id) == {c \in t.cases : c.spec = id}

Owned(t) == \A c \in t.cases : \E x \in t.specs : x.id = c.spec
WholeSpec(t, x) ==
    \E s \in Specs : /\ s.id = x.id /\ s.version = x.version
                     /\ CasesOf(t, x.id) = {RowOf(s, i) : i \in DOMAIN s.cases}
WholeTables(t) == Owned(t) /\ \A x \in t.specs : WholeSpec(t, x)

\* The transaction of SaveSpec: all but the spec that is saved is whole, and of
\* that one as many cases are there as were written.
SpecRows ==
    /\ Owned(tx)
    /\ \E x \in tx.specs : x.id = spec.id
    /\ \A x \in tx.specs : IF x.id = spec.id THEN x.version = spec.version ELSE WholeSpec(tx, x)

WrittenCases ==
    /\ IsFiniteSet(CaseRows(tx, spec))
    /\ NextCase <= Len(spec.cases) + 1
    /\ CasesOf(tx, spec.id) = {RowOf(spec, i) : i \in 1..(NextCase - 1)}

\* Nobody writes while a transaction is open.
SpecStore ==
    /\ WholeTables(db)
    /\ pc \in {"clearCases", "saveCases"} => SpecRows
    /\ pc = "saveCases" => WrittenCases
    /\ pc = "saveResults" => tx.specs = db.specs /\ tx.cases = db.cases

\* Whole is a matter of the specs and the cases, not of the runs.
LEMMA SameSpecs ==
    ASSUME NEW t, NEW u, u.specs = t.specs, u.cases = t.cases, WholeTables(t)
    PROVE  WholeTables(u)
<1>1. \A id : CasesOf(u, id) = CasesOf(t, id)
  BY DEF CasesOf
<1>2. Owned(u)
  BY DEF WholeTables, Owned
<1>3. ASSUME NEW x \in u.specs PROVE WholeSpec(u, x)
  <2>1. WholeSpec(t, x)
    BY <1>3 DEF WholeTables
  <2> QED BY <1>1, <2>1 DEF WholeSpec
<1> QED BY <1>2, <1>3 DEF WholeTables

\* Only the cases of the spec at hand are touched.
LEMMA OthersStayWhole ==
    ASSUME NEW t, NEW u, NEW x, WholeSpec(t, x), CasesOf(u, x.id) = CasesOf(t, x.id)
    PROVE  WholeSpec(u, x)
BY DEF WholeSpec

\* Saving the row of a spec keeps its cases whole.
LEMMA SaveSpecRowKeeps ==
    ASSUME Types, SpecStore, SaveSpecRow
    PROVE  SpecStore'
<1> DEFINE row == [id |-> spec.id, version |-> spec.version]
<1>1. /\ pc' = "clearCases" /\ db' = db /\ spec' = spec
      /\ tx' = [db EXCEPT !.specs = {s \in @ : s.id # spec.id} \union {row}]
  BY DEF SaveSpecRow, storeOnly
<1>2. row.id = spec.id /\ row.version = spec.version
  OBVIOUS
<1> HIDE DEF row
<1>3. tx'.specs = {s \in db.specs : s.id # spec.id} \union {row} /\ tx'.cases = db.cases
  BY <1>1 DEF Types, Stored, Table
<1>4. Owned(tx)'
  BY <1>2, <1>3 DEF SpecStore, WholeTables, Owned
<1>5. ASSUME NEW x \in tx'.specs, x.id # spec.id PROVE WholeSpec(tx', x)
  <2>1. WholeSpec(db, x)
    BY <1>2, <1>3, <1>5 DEF SpecStore, WholeTables
  <2>2. CasesOf(tx', x.id) = CasesOf(db, x.id)
    BY <1>3 DEF CasesOf
  <2> QED BY <2>1, <2>2, OthersStayWhole
<1>6. \A x \in tx'.specs : IF x.id = spec.id THEN x.version = spec.version ELSE WholeSpec(tx', x)
  BY <1>2, <1>3, <1>5
<1>7. SpecRows'
  BY <1>1, <1>2, <1>3, <1>4, <1>6 DEF SpecRows, WholeSpec, CasesOf
<1> QED BY <1>1, <1>7 DEF SpecStore, WholeTables, Owned, WholeSpec, CasesOf

\* Clearing the cases of a spec happens in the transaction only.
LEMMA ClearCasesKeeps ==
    ASSUME Core, Types, SpecStore, ClearCases
    PROVE  SpecStore'
<1>1. /\ pc = "clearCases" /\ pc' = "saveCases" /\ db' = db /\ spec' = spec
      /\ tx' = [tx EXCEPT !.cases = {c \in @ : c.spec # spec.id}]
  BY DEF ClearCases, storeOnly
<1>2. tx'.specs = tx.specs /\ tx'.cases = {c \in tx.cases : c.spec # spec.id}
  BY <1>1 DEF Types, Stored, Table
<1>3. SpecRows
  BY <1>1 DEF SpecStore
<1>4. Owned(tx)'
  BY <1>2, <1>3 DEF SpecRows, Owned
<1>5. ASSUME NEW x \in tx.specs, x.id # spec.id PROVE WholeSpec(tx', x)
  <2>1. WholeSpec(tx, x)
    BY <1>3, <1>5 DEF SpecRows
  <2>2. CasesOf(tx', x.id) = CasesOf(tx, x.id)
    BY <1>2, <1>5 DEF CasesOf
  <2> QED BY <2>1, <2>2, OthersStayWhole
<1>6. \A x \in tx'.specs : IF x.id = spec.id THEN x.version = spec.version ELSE WholeSpec(tx', x)
  BY <1>2, <1>3, <1>5 DEF SpecRows
<1>7. SpecRows'
  BY <1>1, <1>2, <1>3, <1>4, <1>6 DEF SpecRows, WholeSpec, CasesOf
<1>8. CasesOf(tx', spec.id) = {} /\ CaseRows(tx', spec) = {}
  BY <1>2 DEF CasesOf, CaseRows
<1>9. CaseRows(tx, spec)' = {} /\ NextCase' = 1
  BY <1>1, <1>8, FS_EmptySet DEF NextCase, CaseRows
<1>10. WrittenCases'
  <2>1. Len(spec.cases) \in Nat
    BY Files DEF Core
  <2>2. IsFiniteSet(CaseRows(tx, spec)') /\ NextCase' <= Len(spec.cases) + 1
    BY <1>9, <2>1, FS_EmptySet
  <2>3. {RowOf(spec, i) : i \in 1..(NextCase' - 1)} = {}
    BY <1>9
  <2> QED BY <1>1, <1>8, <2>2, <2>3 DEF WrittenCases, CasesOf, RowOf, CaseRows
<1> QED BY <1>1, <1>7, <1>10 DEF SpecStore, WholeTables, Owned, WholeSpec, CasesOf

\* Saving a case adds to the transaction only.
LEMMA SaveCaseKeeps ==
    ASSUME Core, Types, SpecStore, SaveCase
    PROVE  SpecStore'
<1> DEFINE row == RowOf(spec, NextCase)
<1>1. /\ pc = "saveCases" /\ pc' = "saveCases" /\ db' = db /\ spec' = spec
      /\ tx' = [tx EXCEPT !.cases = @ \union {row}]
      /\ NextCase <= Len(spec.cases) /\ ~Taken(spec.cases[NextCase].id)
  BY DEF SaveCase, storeOnly, RowOf
<1>2. row.spec = spec.id /\ row.version = spec.version /\ row.id = spec.cases[NextCase].id
  BY DEF RowOf
<1>3. PICK r : r = row
  OBVIOUS
<1> HIDE DEF row
<1>4. tx'.specs = tx.specs /\ tx'.cases = tx.cases \union {r}
  BY <1>1, <1>3 DEF Types, Stored, Table
<1>5. SpecRows /\ WrittenCases
  BY <1>1 DEF SpecStore
<1>6. Owned(tx)'
  BY <1>2, <1>3, <1>4, <1>5 DEF SpecRows, Owned
<1>7. ASSUME NEW x \in tx.specs, x.id # spec.id PROVE WholeSpec(tx', x)
  <2>1. WholeSpec(tx, x)
    BY <1>5, <1>7 DEF SpecRows
  <2>2. CasesOf(tx', x.id) = CasesOf(tx, x.id)
    BY <1>2, <1>3, <1>4, <1>7 DEF CasesOf
  <2> QED BY <2>1, <2>2, OthersStayWhole
<1>8. \A x \in tx'.specs : IF x.id = spec.id THEN x.version = spec.version ELSE WholeSpec(tx', x)
  BY <1>4, <1>5, <1>7 DEF SpecRows
<1>9. SpecRows'
  BY <1>1, <1>4, <1>5, <1>6, <1>8 DEF SpecRows, WholeSpec, CasesOf
<1>10. CaseRows(tx', spec) = CaseRows(tx, spec) \union {r} /\ r \notin CaseRows(tx, spec)
  <2>1. CaseRows(tx', spec) = CaseRows(tx, spec) \union {r}
    BY <1>2, <1>3, <1>4 DEF CaseRows
  <2>2. r \notin tx.cases
    BY <1>1, <1>2, <1>3 DEF Taken
  <2> QED BY <2>1, <2>2 DEF CaseRows
<1>11. /\ IsFiniteSet(CaseRows(tx', spec)) /\ NextCase \in Nat
       /\ Cardinality(CaseRows(tx', spec)) = NextCase
  BY <1>5, <1>10, FS_AddElement, FS_CardinalityType DEF WrittenCases, NextCase
<1>12. NextCase' = NextCase + 1 /\ CaseRows(tx, spec)' = CaseRows(tx', spec)
  BY <1>1, <1>11 DEF NextCase, CaseRows
<1>13. CasesOf(tx', spec.id) = {RowOf(spec, i) : i \in 1..NextCase}
  <2>1. CasesOf(tx', spec.id) = CasesOf(tx, spec.id) \union {r}
    BY <1>2, <1>3, <1>4 DEF CasesOf
  <2>2. CasesOf(tx, spec.id) = {RowOf(spec, i) : i \in 1..(NextCase - 1)}
    BY <1>5 DEF WrittenCases
  <2>3. NextCase > 0
    <3>1. Cardinality(CaseRows(tx, spec)) \in Nat
      BY <1>5, FS_CardinalityType DEF WrittenCases
    <3> QED BY <3>1 DEF NextCase
  <2>4. 1..NextCase = (1..(NextCase - 1)) \union {NextCase}
    BY <1>11, <2>3
  <2>5. r = RowOf(spec, NextCase)
    BY <1>3 DEF row
  <2> QED BY <2>1, <2>2, <2>4, <2>5
<1>14. WrittenCases'
  <2>1. Len(spec.cases) \in Nat
    BY Files DEF Core
  <2>2. NextCase' <= Len(spec.cases) + 1 /\ NextCase' - 1 = NextCase
    BY <1>1, <1>11, <1>12, <2>1
  <2>3. CasesOf(tx', spec.id) = {RowOf(spec, i) : i \in 1..(NextCase' - 1)}
    BY <1>13, <2>2
  <2> QED BY <1>1, <1>11, <1>12, <2>2, <2>3 DEF WrittenCases, CasesOf, RowOf
<1> QED BY <1>1, <1>9, <1>14 DEF SpecStore, WholeTables, Owned, WholeSpec, CasesOf

\* The commit makes all cases of the spec visible at once.
LEMMA CommitSpecKeeps ==
    ASSUME Core, Types, SpecStore, CommitSpec
    PROVE  SpecStore'
<1>1. pc = "saveCases" /\ pc' = "case" /\ db' = tx /\ NextCase > Len(spec.cases)
  BY DEF CommitSpec
<1>2. SpecRows /\ WrittenCases /\ Loaded
  BY <1>1 DEF SpecStore, Core
<1>3. Len(spec.cases) \in Nat /\ DOMAIN spec.cases = 1..Len(spec.cases)
  BY <1>2, FilesAssumption DEF Loaded
<1>4. Cardinality(CaseRows(tx, spec)) \in Nat
  BY <1>2, FS_CardinalityType DEF WrittenCases
<1>5. NextCase - 1 = Len(spec.cases)
  BY <1>1, <1>2, <1>3, <1>4 DEF WrittenCases, NextCase
<1>6. CasesOf(tx, spec.id) = {RowOf(spec, i) : i \in DOMAIN spec.cases}
  BY <1>2, <1>3, <1>5 DEF WrittenCases
<1>7. ASSUME NEW x \in tx.specs PROVE WholeSpec(tx, x)
  <2>1. CASE x.id = spec.id
    <3>1. x.version = spec.version /\ spec \in Specs
      BY <1>2, <2>1 DEF SpecRows, Loaded
    <3> QED BY <1>6, <2>1, <3>1 DEF WholeSpec
  <2>2. CASE x.id # spec.id
    BY <1>2, <2>2 DEF SpecRows
  <2> QED BY <2>1, <2>2
<1>8. WholeTables(tx)
  BY <1>2, <1>7 DEF WholeTables, SpecRows
<1> QED BY <1>1, <1>8 DEF SpecStore, WholeTables, Owned, WholeSpec, CasesOf

\* Another process commits a whole spec.
LEMMA OtherSavesKeeps ==
    ASSUME Types, SpecStore, NEW s \in Specs, OtherSaves(s)
    PROVE  SpecStore'
<1> DEFINE row == [id |-> s.id, version |-> s.version]
           rows == {RowOf(s, i) : i \in DOMAIN s.cases}
<1>1. /\ pc' = pc /\ spec' = spec /\ tx' = tx /\ ~Writing
      /\ db' = [db EXCEPT !.specs = {x \in @ : x.id # s.id} \union {row},
                          !.cases = {c \in @ : c.spec # s.id} \union rows]
  BY DEF OtherSaves, rvars, RowOf
<1>2. row.id = s.id /\ row.version = s.version
  OBVIOUS
<1>3. \A c \in rows : c.spec = s.id
  BY DEF RowOf
<1>4. rows = {RowOf(s, i) : i \in DOMAIN s.cases}
  OBVIOUS
<1> HIDE DEF row, rows
<1>5. /\ db'.specs = {x \in db.specs : x.id # s.id} \union {row}
      /\ db'.cases = {c \in db.cases : c.spec # s.id} \union rows
  BY <1>1 DEF Types, Stored, Table
<1>6. Owned(db)'
  BY <1>2, <1>3, <1>5 DEF SpecStore, WholeTables, Owned
<1>7. ASSUME NEW x \in db'.specs PROVE WholeSpec(db', x)
  <2>1. CASE x.id # s.id
    <3>1. WholeSpec(db, x)
      BY <1>2, <1>5, <2>1 DEF SpecStore, WholeTables
    <3>2. CasesOf(db', x.id) = CasesOf(db, x.id)
      BY <1>3, <1>5, <2>1 DEF CasesOf
    <3> QED BY <3>1, <3>2, OthersStayWhole
  <2>2. CASE x.id = s.id
    <3>1. x.version = s.version
      BY <1>2, <1>5, <2>2
    <3>2. CasesOf(db', x.id) = rows
      BY <1>3, <1>5, <2>2 DEF CasesOf
    <3> QED BY <1>4, <2>2, <3>1, <3>2 DEF WholeSpec
  <2> QED BY <2>1, <2>2
<1>8. WholeTables(db)'
  BY <1>6, <1>7 DEF WholeTables, WholeSpec, CasesOf
<1>9. pc' \notin {"clearCases", "saveCases", "saveResults"}
  BY <1>1 DEF Writing
<1> QED BY <1>8, <1>9 DEF SpecStore

\* The store holds whole specs.
LEMMA SpecStoreNext == Core /\ Types /\ SpecStore /\ [Next]_vars => SpecStore'
<1> SUFFICES ASSUME Core, Types, SpecStore, [Next]_vars PROVE SpecStore'
  OBVIOUS
<1>1. WholeTables(db)
  BY DEF SpecStore
<1>2. ASSUME db' = db, pc' \notin {"clearCases", "saveCases", "saveResults"} PROVE SpecStore'
  BY <1>1, <1>2 DEF SpecStore, WholeTables, Owned, WholeSpec, CasesOf
<1>3. CASE RunnerStep \/ Environment
  <2>1. db' = db
    BY <1>3 DEF RunnerStep, Environment
  <2> QED BY <1>2, <1>3, <2>1, RunnerMoves
<1>4. CASE StatementFails \/ CaseRefused \/ Crash \/ EndRun
  <2>1. db' = db /\ pc' \in {"idle", "saveRun"}
    BY <1>4 DEF StatementFails, CaseRefused, Rollback, NoProcess, Crash, EndRun
  <2> QED BY <1>2, <2>1
<1>5. ASSUME NEW s \in Specs, NEW c \in Configs, Run(s, c) PROVE SpecStore'
  <2>1. db' = db /\ pc' = "saveSpec"
    BY <1>5 DEF Run
  <2> QED BY <1>2, <2>1
<1>6. CASE SaveRunRow
  <2>1. /\ pc' = "saveResults" /\ db' = db
        /\ tx'.specs = db.specs /\ tx'.cases = db.cases
    BY <1>6 DEF SaveRunRow, Types, Stored, Table
  <2>2. WholeTables(db')
    BY <1>1, <2>1
  <2> QED BY <2>1, <2>2 DEF SpecStore
<1>7. CASE SaveResult
  <2>1. /\ pc = "saveResults" /\ pc' = pc /\ db' = db
        /\ tx'.specs = tx.specs /\ tx'.cases = tx.cases
    BY <1>7 DEF SaveResult, Types, Stored, Table
  <2>2. tx'.specs = db'.specs /\ tx'.cases = db'.cases
    BY <2>1 DEF SpecStore
  <2>3. WholeTables(db')
    BY <1>1, <2>1
  <2> QED BY <2>1, <2>2, <2>3 DEF SpecStore
<1>8. CASE CommitRun
  <2>1. pc = "saveResults" /\ pc' = "idle" /\ db' = tx
    BY <1>8 DEF CommitRun, NoProcess
  <2>2. db'.specs = db.specs /\ db'.cases = db.cases
    BY <2>1 DEF SpecStore
  <2>3. WholeTables(db')
    BY <1>1, <2>2, SameSpecs
  <2> QED BY <2>1, <2>3 DEF SpecStore
<1>9. CASE UNCHANGED vars
  <2>1. UNCHANGED <<pc, db, tx, spec>>
    BY <1>9 DEF vars, rvars
  <2>2. SpecRows => SpecRows'
    BY <2>1 DEF SpecRows, Owned, WholeSpec, CasesOf, RowOf
  <2>3. WrittenCases => WrittenCases'
    BY <2>1 DEF WrittenCases, NextCase, CaseRows, CasesOf, RowOf
  <2>4. WholeTables(db)'
    BY <1>1, <2>1 DEF WholeTables, Owned, WholeSpec, CasesOf, RowOf
  <2> QED BY <2>1, <2>2, <2>3, <2>4 DEF SpecStore
<1> QED BY <1>3, <1>4, <1>5, <1>6, <1>7, <1>8, <1>9, SaveSpecRowKeeps, ClearCasesKeeps,
  SaveCaseKeeps, CommitSpecKeeps, OtherSavesKeeps DEF Next, StoreStep

\* The cases stored for a spec are those of its stored version, all of them:
\* for any number of processes that save it, and of deaths between any two
\* statements (store.go:101-139).
THEOREM StoredSpecsWhole == Spec => []StoredSpecsAreWhole
<1>1. Init => SpecStore
  BY DEF Init, Tables, SpecStore, WholeTables, Owned
<1>2. Init => Types
  BY TypesInit
<1>3. SpecStore => StoredSpecsAreWhole
  BY DEF SpecStore, StoredSpecsAreWhole, WholeTables, Owned, WholeSpec, CasesOf, RowOf
<1> QED BY CoreInit, CoreNext, TypesNext, SpecStoreNext, <1>1, <1>2, <1>3, PTL DEF Spec

\* No case of a spec that Validate accepts is refused by the store
\* (spec.go:62, store.go:133), whatever was stored under its id before.
THEOREM ValidSpecsSaved == Spec => []ValidSpecsAreSaved
<1>1. Init => SpecStore
  BY DEF Init, Tables, SpecStore, WholeTables, Owned
<1>2. Init => Types
  BY TypesInit
<1>3. Core /\ SpecStore => ValidSpecsAreSaved
  <2> SUFFICES ASSUME Core, SpecStore, pc = "saveCases", NextCase <= Len(spec.cases),
                      Validate(spec), Taken(spec.cases[NextCase].id)
               PROVE  FALSE
    BY DEF ValidSpecsAreSaved
  <2>1. WrittenCases /\ Loaded
    BY DEF SpecStore, Core
  <2>2. DOMAIN spec.cases = 1..Len(spec.cases) /\ Len(spec.cases) \in Nat
    BY <2>1, FilesAssumption DEF Loaded
  <2>3. Cardinality(CaseRows(tx, spec)) \in Nat
    BY <2>1, FS_CardinalityType DEF WrittenCases
  <2>4. NextCase \in 1..Len(spec.cases)
    BY <2>2, <2>3 DEF NextCase
  <2>5. PICK c \in tx.cases : c.spec = spec.id /\ c.id = spec.cases[NextCase].id
    BY DEF Taken
  <2>6. PICK i \in 1..(NextCase - 1) : c = RowOf(spec, i)
    BY <2>1, <2>5 DEF WrittenCases, CasesOf
  <2>7. spec.cases[i].id = spec.cases[NextCase].id
    BY <2>5, <2>6 DEF RowOf
  <2>8. i # NextCase /\ i \in DOMAIN spec.cases /\ NextCase \in DOMAIN spec.cases
    BY <2>2, <2>4, <2>6
  <2> QED BY <2>7, <2>8 DEF Validate, DuplicateCase
<1> QED BY CoreInit, CoreNext, TypesNext, SpecStoreNext, <1>1, <1>2, <1>3, PTL DEF Spec

-----------------------------------------------------------------------------
\* What the runner has heard and what it makes of it.  The steps of a case over HTTP are
\* judged by what was heard before them; what is heard is of the step that is going on.
AtWork == cfg.url /\ (pc = "step" \/ Exchanging)

\* A response has the fields of NoResponse, and its events are a sequence.
Response(r) ==
    /\ r = [status |-> r.status, headers |-> r.headers, body |-> r.body, array |-> r.array,
            raw |-> r.raw, events |-> r.events, rpc |-> r.rpc]
    /\ IsSeq(r.events)

Hearing(h) == h = [step |-> h.step, resp |-> h.resp] /\ h.step \in Nat /\ Response(h.resp)

Heard == IsSeq(heard) /\ \A k \in 1..Len(heard) : Hearing(heard[k])

\* Nothing was heard of steps to come.
HeardInTime ==
    AtWork => \A k \in 1..Len(heard) :
        heard[k].step <= IF pc = "step" THEN Len(steps) ELSE Len(steps) + 1

\* Only sends wait for an answer; the events are those of the answer being read.
Asking ==
    /\ Exchanging => Step.action \in {"send", "mcp_tool_call"}
    /\ pc = "reading" =>
          /\ Len(heard) > 0 /\ heard[Len(heard)].step = Len(steps) + 1
          /\ heard[Len(heard)].resp.events = events

\* The response the transport keeps is the latest one heard in the case.
KeepsLatest ==
    AtWork /\ pc # "reading" /\ last # NoResponse =>
        Len(heard) > 0 /\ From(last, heard[Len(heard)].resp)

\* k is the latest answer before step i.
Latest(k, i) == k \in 1..Len(heard) /\ heard[k].step < i
                /\ \A j \in 1..Len(heard) : heard[j].step < i => j <= k

Own(i) ==
    steps[i].actual # NoResponse =>
        IF steps[i].action \in {"expect", "assert"}
        THEN \E k \in 1..Len(heard) : Latest(k, i) /\ From(steps[i].actual, heard[k].resp)
        ELSE \E k \in 1..Len(heard) : heard[k].step = i /\ From(steps[i].actual, heard[k].resp)

AllOwn == \A i \in 1..Len(steps) : Own(i)

Hears == Heard /\ HeardInTime /\ Asking /\ KeepsLatest /\ AllOwn

\* A beginning of a sequence, and the whole of it.
LEMMA Beginnings ==
    ASSUME NEW s, IsSeq(s), NEW n \in 0..Len(s)
    PROVE  /\ IsSeq(SubSeq(s, 1, n)) /\ Len(SubSeq(s, 1, n)) = n
           /\ SubSeq(s, 1, Len(s)) = s
<1>1. s \in Seq(Range(s)) /\ Len(s) \in Nat
  BY DEF IsSeq
<1> DEFINE b == SubSeq(s, 1, n)
<1>2. \A i \in 1..n : s[i] \in Range(s)
  BY <1>1
<1>3. b \in Seq(Range(s)) /\ Len(b) = n
  BY <1>1, <1>2, SubSeqProperties
<1> HIDE DEF b
<1>4. b \in Seq(Range(b))
  <2>1. b \in [1..Len(b) -> Range(s)] /\ Len(b) \in Nat
    BY <1>3
  <2>2. b \in [1..Len(b) -> Range(b)]
    BY <2>1 DEF Range
  <2> QED BY <2>1, <2>2
<1>5. SubSeq(s, 1, Len(s)) = s
  BY <1>1, SubSeqFull
<1> QED BY <1>3, <1>4, <1>5 DEF b, IsSeq

\* A sequence one item of which is replaced.
WithItem(s, k, e) == [s EXCEPT ![k] = e]

\* It is a sequence of the same length, with the other items as they were.
LEMMA Replacing ==
    ASSUME NEW s, IsSeq(s), NEW k \in 1..Len(s), NEW e
    PROVE  /\ IsSeq(WithItem(s, k, e)) /\ Len(WithItem(s, k, e)) = Len(s)
           /\ \A j \in 1..Len(s) : WithItem(s, k, e)[j] = IF j = k THEN e ELSE s[j]
<1> DEFINE T == Range(s) \cup {e}
           t == [s EXCEPT ![k] = e]
<1>1. s \in Seq(Range(s)) /\ Len(s) \in Nat /\ DOMAIN s = 1..Len(s)
  BY DEF IsSeq
<1>2. s \in [1..Len(s) -> Range(s)]
  BY <1>1
<1>3. s \in [1..Len(s) -> T]
  BY <1>2
<1>4. s \in Seq(T)
  BY <1>1, <1>3
<1>5. e \in T
  OBVIOUS
<1> HIDE DEF T
<1>6. t \in Seq(T) /\ Len(t) = Len(s) /\ \A j \in 1..Len(s) : t[j] = IF j = k THEN e ELSE s[j]
  BY <1>4, <1>5, ExceptSeq
<1> HIDE DEF t
<1>7. t \in Seq(Range(t))
  <2>1. t \in [1..Len(t) -> T] /\ Len(t) \in Nat
    BY <1>6
  <2>2. t \in [1..Len(t) -> Range(t)]
    BY <2>1 DEF Range
  <2> QED BY <2>1, <2>2
<1>8. t = WithItem(s, k, e)
  BY DEF t, WithItem
<1> QED BY <1>6, <1>7, <1>8 DEF IsSeq

\* A response by its fields, and one that has another field.
Fields(a, b, c, d, e, f, g) ==
    [status |-> a, headers |-> b, body |-> c, array |-> d, raw |-> e, events |-> f, rpc |-> g]

WithStatus(r, x) == [r EXCEPT !.status = x]
WithHeaders(r, x) == [r EXCEPT !.headers = x]
WithBody(r, x) == [r EXCEPT !.body = x]
WithArray(r, x) == [r EXCEPT !.array = x]
WithRaw(r, x) == [r EXCEPT !.raw = x]
WithEvents(r, x) == [r EXCEPT !.events = x]
WithRPC(r, x) == [r EXCEPT !.rpc = x]

\* The other fields stay as they were.
LEMMA Replaced ==
    ASSUME NEW a, NEW b, NEW c, NEW d, NEW e, NEW f, NEW g, NEW x
    PROVE  /\ WithStatus(Fields(a, b, c, d, e, f, g), x) = Fields(x, b, c, d, e, f, g)
           /\ WithHeaders(Fields(a, b, c, d, e, f, g), x) = Fields(a, x, c, d, e, f, g)
           /\ WithBody(Fields(a, b, c, d, e, f, g), x) = Fields(a, b, x, d, e, f, g)
           /\ WithArray(Fields(a, b, c, d, e, f, g), x) = Fields(a, b, c, x, e, f, g)
           /\ WithRaw(Fields(a, b, c, d, e, f, g), x) = Fields(a, b, c, d, x, f, g)
           /\ WithEvents(Fields(a, b, c, d, e, f, g), x) = Fields(a, b, c, d, e, x, g)
           /\ WithRPC(Fields(a, b, c, d, e, f, g), x) = Fields(a, b, c, d, e, f, x)
           /\ Fields(a, b, c, d, e, f, g).events = f
<1>1. WithStatus(Fields(a, b, c, d, e, f, g), x) = Fields(x, b, c, d, e, f, g)
  BY DEF Fields, WithStatus
<1>2. WithHeaders(Fields(a, b, c, d, e, f, g), x) = Fields(a, x, c, d, e, f, g)
  BY DEF Fields, WithHeaders
<1>3. WithBody(Fields(a, b, c, d, e, f, g), x) = Fields(a, b, x, d, e, f, g)
  BY DEF Fields, WithBody
<1>4. WithArray(Fields(a, b, c, d, e, f, g), x) = Fields(a, b, c, x, e, f, g)
  BY DEF Fields, WithArray
<1>5. WithRaw(Fields(a, b, c, d, e, f, g), x) = Fields(a, b, c, d, x, f, g)
  BY DEF Fields, WithRaw
<1>6. WithEvents(Fields(a, b, c, d, e, f, g), x) = Fields(a, b, c, d, e, x, g)
  BY DEF Fields, WithEvents
<1>7. WithRPC(Fields(a, b, c, d, e, f, g), x) = Fields(a, b, c, d, e, f, x)
  BY DEF Fields, WithRPC
<1>8. Fields(a, b, c, d, e, f, g).events = f
  BY DEF Fields
<1> QED BY <1>1, <1>2, <1>3, <1>4, <1>5, <1>6, <1>7, <1>8

\* A response is given by its fields, of which the events are a sequence.
LEMMA ByFields ==
    /\ \A a, b, c, d, e, f, g : IsSeq(f) => Response(Fields(a, b, c, d, e, f, g))
    /\ \A r : Response(r) =>
          \E a, b, c, d, e, f, g : r = Fields(a, b, c, d, e, f, g) /\ IsSeq(f) /\ f = r.events
<1>1. ASSUME NEW a, NEW b, NEW c, NEW d, NEW e, NEW f, NEW g, IsSeq(f)
      PROVE  Response(Fields(a, b, c, d, e, f, g))
  BY <1>1 DEF Response, Fields
<1>2. ASSUME NEW r, Response(r)
      PROVE  \E a, b, c, d, e, f, g : r = Fields(a, b, c, d, e, f, g) /\ IsSeq(f) /\ f = r.events
  <2>1. r = Fields(r.status, r.headers, r.body, r.array, r.raw, r.events, r.rpc)
    BY <1>2, Zenon DEF Response, Fields
  <2>2. IsSeq(r.events)
    BY <1>2 DEF Response
  <2> QED BY <2>1, <2>2, Zenon
<1> QED BY <1>1, <1>2

\* Other events make another response of one.
LEMMA OtherEvents ==
    ASSUME NEW r, Response(r), NEW ev, IsSeq(ev), NEW q, q = [r EXCEPT !.events = ev]
    PROVE  /\ Response(q) /\ q.events = ev
           /\ [q EXCEPT !.events = <<>>] = [r EXCEPT !.events = <<>>]
<1>1. PICK a, b, c, d, e, f, g : r = Fields(a, b, c, d, e, f, g)
  BY ByFields
<1>2. PICK none : none = <<>>
  OBVIOUS
<1>3. q = WithEvents(r, ev)
  BY Zenon DEF WithEvents
<1>4. q = Fields(a, b, c, d, e, ev, g)
  BY <1>1, <1>3, Replaced
<1>5. WithEvents(q, none) = WithEvents(r, none)
  BY <1>1, <1>4, Replaced
<1>6. Response(q) /\ q.events = ev
  BY <1>4, ByFields, Replaced
<1> QED BY <1>2, <1>5, <1>6, Zenon DEF WithEvents

\* A response is one of its own beginnings.
LEMMA FromItself ==
    ASSUME NEW r, Response(r)
    PROVE  From(r, r)
<1>1. IsSeq(r.events) /\ Len(r.events) \in 0..Len(r.events)
  BY Nothing DEF Response
<1>2. r.events = SubSeq(r.events, 1, Len(r.events))
  BY <1>1, Beginnings
<1> QED BY <1>2 DEF From

\* What the transports make of an answer (http_runner.go, jsonrpc_runner.go).
LEMMA Readings ==
    ASSUME NEW wire, NEW kind
    PROVE  /\ Response(Received(kind, wire)) /\ Response(Streamed(wire))
           /\ Streamed(wire).events = <<>>
<1>1. PICK none : none = <<>> /\ IsSeq(none)
  BY Nothing
<1>0. PICK no : no = FALSE
  BY Zenon
<1>2. StatusLine(wire) = Fields(wire.status, wire.headers, Nil, Nil, no, none, Nil)
  <2>1. NoResponse = Fields("0", NoKids, Nil, Nil, no, none, Nil)
    BY <1>1, <1>0, Zenon DEF NoResponse, Fields
  <2>2. StatusLine(wire) = WithHeaders(WithStatus(NoResponse, wire.status), wire.headers)
    BY Zenon DEF StatusLine, WithHeaders, WithStatus
  <2> QED BY <2>1, <2>2, Replaced
<1>3. \E a, b, c, d, e, g : ReadPlain(wire) = Fields(a, b, c, d, e, none, g)
  <2>1. PICK raw : raw = (wire.content.text # "")
    BY Zenon
  <2>2. PICK base : base = WithRaw(StatusLine(wire), raw)
    BY Zenon
  <2>3. base = Fields(wire.status, wire.headers, Nil, Nil, raw, none, Nil)
    BY <2>2, <1>2, Replaced
  <2>4. \/ ReadPlain(wire) = base
        \/ ReadPlain(wire) = WithBody(base, wire.content)
        \/ ReadPlain(wire) = WithArray(base, wire.content)
    BY <2>1, <2>2, Zenon DEF ReadPlain, WithRaw, WithBody, WithArray
  <2> QED BY <2>3, <2>4, Replaced
<1>4. \E a, b, c, d, e, g : Received(kind, wire) = Fields(a, b, c, d, e, none, g)
  <2>1. PICK a, b, c, d, e, g : ReadPlain(wire) = Fields(a, b, c, d, e, none, g)
    BY <1>3
  <2>2. PICK body : body = NoResponse.body
    BY Zenon
  <2>3. \/ ReadRPC(wire) = ReadPlain(wire)
        \/ ReadRPC(wire) = WithBody(WithRPC(ReadPlain(wire), wire.content), body)
    BY <2>2, Zenon DEF ReadRPC, WithBody, WithRPC
  <2>4. WithBody(WithRPC(ReadPlain(wire), wire.content), body)
          = Fields(a, b, body, d, e, none, wire.content)
    BY <2>1, Replaced
  <2>5. Received(kind, wire) = ReadPlain(wire) \/ Received(kind, wire) = ReadRPC(wire)
    BY Zenon DEF Received
  <2> QED BY <2>1, <2>3, <2>4, <2>5
<1>5. Response(Received(kind, wire))
  BY <1>1, <1>4, ByFields
<1>6. Response(Streamed(wire)) /\ Streamed(wire).events = none
  <2>1. Streamed(wire) = Fields(wire.status, wire.headers, Nil, Nil, no, none, Nil)
    BY <1>2 DEF Streamed
  <2>2. Response(Streamed(wire))
    BY <2>1, <1>1, ByFields
  <2>3. Streamed(wire).events = none
    BY <2>1 DEF Fields
  <2> QED BY <2>2, <2>3
<1> QED BY <1>1, <1>5, <1>6, Zenon

\* What is heard is of a step, and is a response.
LEMMA HeardOf ==
    ASSUME Heard, NEW k \in 1..Len(heard)
    PROVE  heard[k].step \in Nat /\ Response(heard[k].resp)
<1>1. Hearing(heard[k])
  BY DEF Heard
<1> QED BY <1>1, Zenon DEF Hearing

\* What was heard stays what it was, but for the answer to the step that is going on.
Grows ==
    /\ Len(heard) <= Len(heard')
    /\ \A k \in 1..Len(heard) :
          heard'[k].step = heard[k].step /\ (heard[k].step <= Len(steps) => heard'[k] = heard[k])
    /\ \A k \in 1..Len(heard') : k > Len(heard) => heard'[k].step = Len(steps) + 1

\* What a step was judged by is not changed by what is heard after it.
LEMMA OwnKept ==
    ASSUME Lists, Heard, Heard', Grows, AllOwn, NEW i \in 1..Len(steps), steps'[i] = steps[i]
    PROVE  Own(i)'
<1>1. Len(steps) \in Nat /\ Len(heard) \in Nat /\ Len(heard') \in Nat
  BY Nothing DEF Lists, Heard
<1>2. Own(i)
  BY DEF AllOwn
<1>3. \A k \in 1..Len(heard) : heard[k].step \in Nat
  BY HeardOf
<1>4. ASSUME NEW k, Latest(k, i)
      PROVE  Latest(k, i)' /\ heard'[k] = heard[k]
  <2>1. k \in 1..Len(heard) /\ heard[k].step < i
    BY <1>4 DEF Latest
  <2>2. heard'[k] = heard[k] /\ k \in 1..Len(heard')
    BY <2>1, <1>1, <1>3 DEF Grows
  <2>3. ASSUME NEW j \in 1..Len(heard'), heard'[j].step < i
        PROVE  j <= k
    <3>1. j <= Len(heard)
      BY <2>3, <1>1 DEF Grows
    <3>2. j \in 1..Len(heard) /\ heard[j].step < i
      BY <3>1, <2>3, <1>1 DEF Grows
    <3> QED BY <3>2, <1>4 DEF Latest
  <2> QED BY <2>1, <2>2, <2>3 DEF Latest
<1>5. CASE steps[i].actual = NoResponse
  BY <1>5 DEF Own
<1>6. CASE steps[i].actual # NoResponse /\ steps[i].action \in {"expect", "assert"}
  <2>1. PICK k : Latest(k, i) /\ From(steps[i].actual, heard[k].resp)
    BY <1>2, <1>6 DEF Own
  <2>2. Latest(k, i)' /\ From(steps'[i].actual, heard'[k].resp) /\ k \in 1..Len(heard')
    BY <2>1, <1>4 DEF Latest
  <2> QED BY <2>2, <1>6 DEF Own
<1>7. CASE steps[i].actual # NoResponse /\ steps[i].action \notin {"expect", "assert"}
  <2>1. PICK k \in 1..Len(heard) : heard[k].step = i /\ From(steps[i].actual, heard[k].resp)
    BY <1>2, <1>7 DEF Own
  <2>2. heard'[k] = heard[k] /\ k \in 1..Len(heard')
    BY <2>1, <1>1 DEF Grows
  <2> QED BY <2>1, <2>2, <1>7 DEF Own
<1> QED BY <1>5, <1>6, <1>7

\* A step is recorded, whose response is its own.
LEMMA Recorded ==
    ASSUME Lists, Hears, UNCHANGED cfg, pc = "step" \/ Exchanging, Heard', Grows, KeepsLatest',
           NEW r, steps' = Append(steps, r), pc' = "step",
           NEW n, n = Len(steps) + 1,
           r.actual # NoResponse =>
             IF r.action \in {"expect", "assert"}
             THEN \E k \in 1..Len(heard') : Latest(k, n)' /\ From(r.actual, heard'[k].resp)
             ELSE \E k \in 1..Len(heard') : heard'[k].step = n /\ From(r.actual, heard'[k].resp)
    PROVE  Hears'
<1>1. /\ Len(steps') = n /\ Len(steps) \in Nat /\ steps'[n] = r
      /\ \A i \in 1..Len(steps) : steps'[i] = steps[i]
  BY Appending DEF Lists
<1>2. Len(heard) \in Nat /\ Len(heard') \in Nat
  BY Nothing DEF Hears, Heard
<1>3. Heard /\ HeardInTime /\ AllOwn
  BY DEF Hears
<1>4. HeardInTime'
  <2> SUFFICES ASSUME AtWork', NEW k \in 1..Len(heard') PROVE heard'[k].step <= n
    BY <1>1 DEF HeardInTime
  <2>1. AtWork
    BY DEF AtWork
  <2>2. CASE k <= Len(heard)
    <3>1. k \in 1..Len(heard) /\ heard[k].step \in Nat
      BY <2>2, <1>2, <1>3, HeardOf
    <3>2. heard[k].step <= Len(steps) \/ heard[k].step <= Len(steps) + 1
      <4>1. heard[k].step <= IF pc = "step" THEN Len(steps) ELSE Len(steps) + 1
        BY <3>1, <2>1, <1>3 DEF HeardInTime
      <4> QED BY <4>1
    <3> QED BY <3>1, <3>2, <1>1 DEF Grows
  <2>3. CASE k > Len(heard)
    BY <2>3, <1>1 DEF Grows
  <2> QED BY <2>2, <2>3, <1>2
<1>5. Asking'
  BY DEF Asking, Exchanging
<1>6. Own(n)'
  BY <1>1 DEF Own
<1>7. AllOwn'
  <2> SUFFICES ASSUME NEW i \in 1..Len(steps') PROVE Own(i)'
    BY DEF AllOwn
  <2>1. i \in 1..Len(steps) \/ i = n
    BY <1>1
  <2>2. CASE i = n
    BY <2>2, <1>6
  <2>3. CASE i \in 1..Len(steps)
    BY <2>3, <1>1, <1>3, OwnKept
  <2> QED BY <2>1, <2>2, <2>3
<1> QED BY <1>4, <1>5, <1>7 DEF Hears

\* A step without a response is recorded.
LEMMA Unanswered ==
    ASSUME Lists, Hears, UNCHANGED <<cfg, heard, last>>, pc = "step" \/ Exchanging,
           pc # "reading", NEW status, StepDone(status, NoResponse)
    PROVE  Hears'
<1>1. PICK r : steps' = Append(steps, r) /\ r.actual = NoResponse
  BY DEF StepDone
<1>2. Heard /\ Heard' /\ KeepsLatest
  BY DEF Hears, Heard
<1>3. Len(heard) \in Nat
  BY <1>2, Nothing DEF Heard
<1>4. Grows
  BY <1>3 DEF Grows
<1>5. pc' = "step"
  BY DEF StepDone
<1>6. KeepsLatest'
  BY <1>2, <1>5 DEF KeepsLatest, AtWork
<1> QED BY <1>1, <1>2, <1>4, <1>5, <1>6, Recorded

\* The runner goes on without having heard anything.
LEMMA Silence ==
    ASSUME Lists, Hears, UNCHANGED <<steps, heard, last>>, Asking',
           AtWork' => /\ AtWork
                      /\ pc' = "reading" <=> pc = "reading"
                      /\ pc' = "step" => pc = "step"
    PROVE  Hears'
<1>1. Heard /\ HeardInTime /\ KeepsLatest /\ AllOwn /\ Heard'
  BY DEF Hears, Heard
<1>2. Len(heard) \in Nat /\ Len(steps) \in Nat
  BY <1>1, Nothing DEF Heard, Lists
<1>3. HeardInTime'
  <2> SUFFICES ASSUME AtWork', NEW k \in 1..Len(heard)
               PROVE  heard[k].step <= IF pc' = "step" THEN Len(steps) ELSE Len(steps) + 1
    BY DEF HeardInTime
  <2>1. heard[k].step <= IF pc = "step" THEN Len(steps) ELSE Len(steps) + 1
    BY <1>1 DEF HeardInTime
  <2>2. heard[k].step \in Nat
    BY <1>1, HeardOf
  <2> QED BY <2>1, <2>2, <1>2
<1>4. KeepsLatest'
  BY <1>1 DEF KeepsLatest
<1>5. AllOwn'
  <2>1. Grows
    BY <1>2 DEF Grows
  <2>2. \A i \in 1..Len(steps) : Own(i)'
    BY <1>1, <2>1, OwnKept
  <2> QED BY <2>2 DEF AllOwn
<1> QED BY <1>1, <1>3, <1>4, <1>5 DEF Hears

\* The case is over, or another begins.
LEMMA Leaving ==
    ASSUME Hears, steps' = <<>>, heard' \in {heard, <<>>}, ~Exchanging',
           AtWork' => heard' = <<>> /\ last' = NoResponse
    PROVE  Hears'
<1>1. Len(steps') = 0 /\ (heard' = <<>> => Len(heard') = 0)
  BY Nothing
<1>2. Heard'
  <2>1. CASE heard' = heard
    BY <2>1 DEF Hears, Heard
  <2>2. CASE heard' = <<>>
    BY <2>2, <1>1, Nothing DEF Heard
  <2> QED BY <2>1, <2>2
<1>3. HeardInTime'
  BY <1>1 DEF HeardInTime
<1>4. Asking' /\ KeepsLatest'
  BY DEF Asking, KeepsLatest, Exchanging
<1>5. AllOwn'
  BY <1>1 DEF AllOwn
<1> QED BY <1>2, <1>3, <1>4, <1>5 DEF Hears

\* The next step is the same as long as none is recorded.
LEMMA SameStep ==
    ASSUME UNCHANGED <<spec, results, steps>>
    PROVE  Step' = Step
BY DEF Step, Case

\* A step judges what was heard last.
LEMMA JudgeHears ==
    ASSUME Lists, Hears, pc = "step", cfg.url, Step.action \in {"expect", "assert"},
           NEW passes, Judge(passes)
    PROVE  Hears'
<1>1. /\ UNCHANGED <<cfg, heard, last>> /\ Heard /\ HeardInTime /\ KeepsLatest
  BY DEF Judge, Hears
<1>2. CASE last = NoResponse
  <2>1. StepDone("error", NoResponse)
    BY <1>2 DEF Judge
  <2> QED BY <1>1, <2>1, Unanswered
<1>3. CASE last # NoResponse
  <2>1. PICK status : StepDone(status, last)
    BY <1>3 DEF Judge
  <2>2. PICK r : steps' = Append(steps, r) /\ r.action = Step.action /\ r.actual = last
    BY <2>1 DEF StepDone
  <2>3. PICK n : n = Len(steps) + 1
    OBVIOUS
  <2>4. Len(heard) \in Nat /\ Len(steps) \in Nat
    BY <1>1, Nothing DEF Heard, Lists
  <2>5. AtWork /\ pc' = "step"
    BY <2>1 DEF AtWork, StepDone
  <2>6. PICK k : k = Len(heard)
    OBVIOUS
  <2>7. k > 0 /\ From(last, heard[k].resp)
    BY <1>1, <1>3, <2>5, <2>6 DEF KeepsLatest
  <2>8. heard[k].step < n
    <3>1. heard[k].step <= IF pc = "step" THEN Len(steps) ELSE Len(steps) + 1
      BY <1>1, <2>4, <2>5, <2>6, <2>7 DEF HeardInTime
    <3>2. heard[k].step \in Nat
      BY <1>1, <2>4, <2>6, <2>7, HeardOf
    <3> QED BY <3>1, <3>2, <2>3, <2>4
  <2>9. k \in 1..Len(heard') /\ Latest(k, n)' /\ From(r.actual, heard'[k].resp)
    BY <1>1, <2>2, <2>4, <2>6, <2>7, <2>8 DEF Latest
  <2>10. Heard' /\ Grows /\ KeepsLatest'
    BY <1>1, <2>4, <2>5 DEF Heard, Grows, KeepsLatest, AtWork
  <2>11. r.action \in {"expect", "assert"}
    BY <2>2
  <2> QED BY <1>1, <2>2, <2>3, <2>5, <2>9, <2>10, <2>11, Recorded
<1> QED BY <1>2, <1>3

\* An answer is heard after the others.
LEMMA Hearkening ==
    ASSUME Lists, Heard, NEW resp, Response(resp),
           heard' = Append(heard, [step |-> Len(steps) + 1, resp |-> resp])
    PROVE  /\ Heard' /\ Grows
           /\ Len(heard) \in Nat /\ Len(heard') = Len(heard) + 1
           /\ heard'[Len(heard')].step = Len(steps) + 1
           /\ heard'[Len(heard')].resp = resp
<1>1. PICK h : h = [step |-> Len(steps) + 1, resp |-> resp]
  OBVIOUS
<1>2. Len(steps) \in Nat
  BY Nothing DEF Lists
<1>3. h.step = Len(steps) + 1 /\ h.resp = resp
  BY <1>1
<1>4. Hearing(h)
  BY <1>1, <1>2, <1>3 DEF Hearing
<1>5. /\ IsSeq(heard') /\ Len(heard) \in Nat /\ Len(heard') = Len(heard) + 1
      /\ \A k \in 1..Len(heard) : heard'[k] = heard[k]
      /\ heard'[Len(heard) + 1] = h
  BY <1>1, Appending DEF Heard
<1>6. Heard'
  BY <1>4, <1>5 DEF Heard
<1>7. Grows
  BY <1>3, <1>5 DEF Grows
<1> QED BY <1>3, <1>5, <1>6, <1>7

\* Nothing heard is of a later step than the one that is going on.
LEMMA InTime ==
    ASSUME Lists, Heard, Heard', HeardInTime, Grows, UNCHANGED steps, AtWork, pc' # "step"
    PROVE  HeardInTime'
<1>1. Len(heard) \in Nat /\ Len(heard') \in Nat /\ Len(steps) \in Nat
  BY Nothing DEF Heard, Lists
<1>2. ASSUME NEW k \in 1..Len(heard')
      PROVE  heard'[k].step <= Len(steps) + 1
  <2>1. CASE k <= Len(heard)
    <3>1. k \in 1..Len(heard) /\ heard[k].step \in Nat
      BY <2>1, <1>1, HeardOf
    <3>2. heard[k].step <= IF pc = "step" THEN Len(steps) ELSE Len(steps) + 1
      BY <3>1 DEF HeardInTime
    <3>3. heard[k].step <= Len(steps) + 1
      BY <3>1, <3>2, <1>1
    <3> QED BY <3>1, <3>3 DEF Grows
  <2>2. CASE k > Len(heard)
    BY <2>2, <1>1 DEF Grows
  <2> QED BY <2>1, <2>2, <1>1
<1> QED BY <1>2 DEF HeardInTime

\* An answer that is no stream ends the step or the attempt; of a stream the
\* first line is heard.
LEMMA AnsweredHears ==
    ASSUME Core, Hears, NEW wire \in Wires, Answered(wire)
    PROVE  Hears'
<1>1. /\ Lists /\ Heard /\ HeardInTime /\ AllOwn
      /\ cfg.url /\ Step.action \notin {"expect", "assert"}
      /\ pc = "sent" /\ AtWork /\ UNCHANGED <<spec, cfg, results>>
  BY DEF Core, Going, Hears, Asking, AtWork, Exchanging, Answered
<1>2. CASE Kind(Step) = "stream" /\ wire.type = "text/event-stream"
  <2>1. PICK resp : resp = Streamed(wire)
    OBVIOUS
  <2>2. /\ pc' = "reading" /\ events' = <<>> /\ UNCHANGED <<steps, last>>
        /\ heard' = Append(heard, [step |-> Len(steps) + 1, resp |-> resp])
    BY <1>2, <2>1 DEF Answered
  <2>3. Response(resp) /\ resp.events = <<>>
    BY <2>1, Readings
  <2>4. /\ Heard' /\ Grows /\ Len(heard) \in Nat /\ Len(heard') = Len(heard) + 1
        /\ heard'[Len(heard')].step = Len(steps) + 1
        /\ heard'[Len(heard')].resp = resp
    BY <1>1, <2>2, <2>3, Hearkening
  <2>5. Step' = Step
    BY <1>1, <2>2, SameStep
  <2>6. Asking'
    BY <1>1, <2>2, <2>3, <2>4, <2>5 DEF Asking, Hears, Exchanging
  <2>7. KeepsLatest'
    BY <2>2 DEF KeepsLatest
  <2>8. HeardInTime'
    BY <1>1, <2>2, <2>4, InTime
  <2>9. AllOwn'
    BY <1>1, <2>2, <2>4, OwnKept DEF AllOwn
  <2> QED BY <2>4, <2>6, <2>7, <2>8, <2>9 DEF Hears
<1>3. CASE ~(Kind(Step) = "stream" /\ wire.type = "text/event-stream")
  <2>1. PICK resp : resp = Received(Kind(Step), wire)
    OBVIOUS
  <2>2. /\ last' = resp
        /\ heard' = Append(heard, [step |-> Len(steps) + 1, resp |-> resp])
        /\ \/ pc' = "between" /\ UNCHANGED steps
           \/ StepDone("pass", resp)
    BY <1>3, <2>1 DEF Answered, Keep
  <2>3. Response(resp) /\ From(resp, resp)
    BY <2>1, Readings, FromItself
  <2>4. /\ Heard' /\ Grows /\ Len(heard) \in Nat /\ Len(heard') = Len(heard) + 1
        /\ heard'[Len(heard')].step = Len(steps) + 1
        /\ heard'[Len(heard')].resp = resp
    BY <1>1, <2>2, <2>3, Hearkening
  <2>5. KeepsLatest'
    BY <2>2, <2>3, <2>4 DEF KeepsLatest
  <2>6. CASE pc' = "between" /\ UNCHANGED steps
    <3>1. Step' = Step
      BY <1>1, <2>6, SameStep
    <3>2. Asking'
      BY <1>1, <2>6, <3>1 DEF Asking, Hears, Exchanging
    <3>3. HeardInTime'
      BY <1>1, <2>6, <2>4, InTime
    <3>4. AllOwn'
      BY <1>1, <2>6, <2>4, OwnKept DEF AllOwn
    <3> QED BY <2>4, <2>5, <3>2, <3>3, <3>4 DEF Hears
  <2>7. CASE StepDone("pass", resp)
    <3>1. PICK r : steps' = Append(steps, r) /\ r.action = Step.action /\ r.actual = resp
      BY <2>7 DEF StepDone
    <3>2. PICK n : n = Len(steps) + 1
      OBVIOUS
    <3>3. PICK k : k = Len(heard')
      OBVIOUS
    <3>4. k \in 1..Len(heard') /\ heard'[k].step = n /\ From(r.actual, heard'[k].resp)
      BY <2>3, <2>4, <3>1, <3>2, <3>3
    <3>5. r.action \notin {"expect", "assert"} /\ pc' = "step" /\ (pc = "step" \/ Exchanging)
      BY <1>1, <2>7, <3>1 DEF StepDone, Exchanging
    <3> QED BY <1>1, <2>4, <2>5, <3>1, <3>2, <3>4, <3>5, Recorded
  <2> QED BY <2>2, <2>6, <2>7
<1> QED BY <1>2, <1>3

\* An event is appended to the events of the answer that is being read.
LEMMA EventHears ==
    ASSUME Core, Hears, NEW e \in Events, EventArrives(e)
    PROVE  Hears'
<1>1. /\ Lists /\ Heard /\ HeardInTime /\ AllOwn
      /\ cfg.url /\ Step.action \in {"send", "mcp_tool_call"}
      /\ pc = "reading" /\ AtWork /\ UNCHANGED <<spec, cfg, pc, results, steps, last>>
      /\ Len(heard) > 0 /\ heard[Len(heard)].step = Len(steps) + 1
      /\ heard[Len(heard)].resp.events = events
  BY DEF Core, Going, Hears, Asking, AtWork, Exchanging, EventArrives
<1>2. PICK l : l = Len(heard) /\ l \in 1..Len(heard) /\ l \in Nat
  BY <1>1, Nothing DEF Heard
<1>3. Hearing(heard[l]) /\ Len(steps) \in Nat
  BY <1>1, <1>2, Nothing DEF Heard, Lists
<1>4. PICK r : r = heard[l].resp /\ Response(r) /\ r.events = events
  BY <1>1, <1>2, HeardOf
<1>5. IsSeq(events')
  <2>1. IsSeq(events)
    BY <1>4 DEF Response
  <2>2. IsSeq(Append(events, e))
    BY <2>1, Appending
  <2> QED BY <2>1, <2>2 DEF EventArrives
<1>6. PICK q : q = [r EXCEPT !.events = events']
  OBVIOUS
<1>7. Response(q) /\ q.events = events'
  BY <1>4, <1>5, <1>6, OtherEvents
<1>8. PICK h : h = [step |-> Len(steps) + 1, resp |-> q]
  OBVIOUS
<1>9. heard' = WithItem(heard, l, h)
  <2>1. heard[l] = [step |-> Len(steps) + 1, resp |-> r]
    BY <1>1, <1>2, <1>3, <1>4, Zenon DEF Hearing
  <2>2. heard' = [heard EXCEPT
                    ![l] = [heard[l] EXCEPT !.resp = [heard[l].resp EXCEPT !.events = events']]]
    BY <1>2 DEF EventArrives
  <2>3. heard' = [heard EXCEPT ![l] = [heard[l] EXCEPT !.resp = q]]
    BY <2>2, <1>4, <1>6
  <2>4. [heard[l] EXCEPT !.resp = q] = h
    BY <2>1, <1>8
  <2> QED BY <2>3, <2>4, Zenon DEF WithItem
<1>10. h.step = Len(steps) + 1 /\ h.resp = q /\ Hearing(h)
  BY <1>3, <1>7, <1>8 DEF Hearing
<1>11. /\ IsSeq(heard') /\ Len(heard') = l
       /\ \A j \in 1..l : heard'[j] = IF j = l THEN h ELSE heard[j]
  <2>1. IsSeq(heard) /\ l \in 1..Len(heard)
    BY <1>1, <1>2 DEF Heard
  <2>2. /\ IsSeq(heard') /\ Len(heard') = Len(heard)
        /\ \A j \in 1..Len(heard) : heard'[j] = IF j = l THEN h ELSE heard[j]
    BY <2>1, <1>9, Replacing
  <2> QED BY <2>2, <1>2
<1>12. Heard'
  BY <1>1, <1>2, <1>10, <1>11 DEF Heard
<1>13. Grows
  BY <1>1, <1>2, <1>3, <1>10, <1>11 DEF Grows
<1>14. Step' = Step
  BY <1>1, SameStep
<1>15. Asking'
  BY <1>1, <1>2, <1>7, <1>10, <1>11, <1>14 DEF Asking
<1>16. HeardInTime' /\ KeepsLatest'
  BY <1>1, <1>12, <1>13, InTime DEF KeepsLatest
<1>17. AllOwn'
  BY <1>1, <1>12, <1>13, OwnKept DEF AllOwn
<1> QED BY <1>12, <1>15, <1>16, <1>17 DEF Hears

\* A stream that is over, or given up, is as much of the answer as was read.
LEMMA EndHears ==
    ASSUME Core, Hears, pc = "reading", NEW m \in 0..Len(events), EndStream(SubSeq(events, 1, m))
    PROVE  Hears'
<1>1. /\ Lists /\ Heard /\ cfg.url /\ Step.action \notin {"expect", "assert"}
      /\ UNCHANGED <<cfg, heard>>
      /\ Len(heard) > 0 /\ heard[Len(heard)].step = Len(steps) + 1
      /\ heard[Len(heard)].resp.events = events
  BY DEF Core, Going, Hears, Asking, Exchanging, EndStream
<1>2. PICK l : l = Len(heard) /\ l \in 1..Len(heard) /\ l \in Nat
  BY <1>1, Nothing DEF Heard
<1>3. PICK a : a = heard[l].resp /\ Response(a) /\ a.events = events
  BY <1>1, <1>2, HeardOf
<1>4. PICK received : received = SubSeq(events, 1, m)
  OBVIOUS
<1>5. IsSeq(received) /\ Len(received) = m
  BY <1>3, <1>4, Beginnings DEF Response
<1>6. PICK resp : resp = [a EXCEPT !.events = received]
  OBVIOUS
<1>7. resp.events = received /\ [resp EXCEPT !.events = <<>>] = [a EXCEPT !.events = <<>>]
  BY <1>3, <1>5, <1>6, OtherEvents
<1>8. From(resp, a)
  BY <1>3, <1>4, <1>5, <1>7 DEF From
<1>9. last' = resp /\ StepDone("pass", resp)
  BY <1>2, <1>3, <1>4, <1>6, Zenon DEF EndStream
<1>10. PICK r : steps' = Append(steps, r) /\ r.action = Step.action /\ r.actual = resp
  BY <1>9 DEF StepDone
<1>11. PICK n : n = Len(steps) + 1
  OBVIOUS
<1>12. l \in 1..Len(heard') /\ heard'[l].step = n /\ From(r.actual, heard'[l].resp)
  BY <1>1, <1>2, <1>3, <1>8, <1>10, <1>11
<1>13. Heard' /\ Grows
  BY <1>1, <1>2 DEF Heard, Grows
<1>14. KeepsLatest'
  BY <1>1, <1>2, <1>3, <1>8, <1>9 DEF KeepsLatest
<1>15. r.action \notin {"expect", "assert"} /\ pc' = "step" /\ (pc = "step" \/ Exchanging)
  BY <1>1, <1>9, <1>10 DEF StepDone, Exchanging
<1> QED BY <1>1, <1>10, <1>11, <1>12, <1>13, <1>14, <1>15, Recorded

\* No process, a case that is over: nothing is heard of.
LEMMA NoProcessHears ==
    ASSUME Hears, NoProcess
    PROVE  Hears'
<1>1. steps' = <<>> /\ heard' = <<>> /\ pc' = "idle"
  BY DEF NoProcess
<1> QED BY <1>1, Leaving DEF AtWork, Exchanging

\* A case result is recorded, and its steps are put away.
LEMMA ConcludeHears ==
    ASSUME Hears, NEW status, NEW started, Conclude(status, started), heard' \in {heard, <<>>}
    PROVE  Hears'
<1>1. steps' = <<>> /\ pc' = "case"
  BY DEF Conclude
<1> QED BY <1>1, Leaving DEF AtWork, Exchanging

\* A request that fails is no answer.
LEMMA FailsHears ==
    ASSUME Core, Hears, RequestFails
    PROVE  Hears'
<1>1. Lists /\ Asking
  BY DEF Core, Hears
<1>2. /\ pc = "sent" /\ UNCHANGED <<spec, cfg, results, last, heard>>
      /\ \/ StepDone("error", NoResponse)
         \/ pc' = "between" /\ UNCHANGED steps
  BY DEF RequestFails
<1>3. CASE StepDone("error", NoResponse)
  BY <1>1, <1>2, <1>3, Unanswered DEF Exchanging
<1>4. CASE pc' = "between" /\ UNCHANGED steps
  <2>1. Step' = Step
    BY <1>2, <1>4, SameStep
  <2>2. Asking'
    BY <1>1, <1>2, <1>4, <2>1 DEF Asking, Exchanging
  <2> QED BY <1>1, <1>2, <1>4, <2>2, Silence DEF AtWork, Exchanging
<1> QED BY <1>2, <1>3, <1>4

\* The end of a stream, whoever makes it.
LEMMA EndsHears ==
    ASSUME Core, Hears, StreamEnds \/ ReaderTimesOut
    PROVE  Hears'
<1>1. pc = "reading"
  BY DEF StreamEnds, ReaderTimesOut
<1>2. IsSeq(events)
  <2>1. Len(heard) \in 1..Len(heard) /\ heard[Len(heard)].resp.events = events
    BY <1>1, Nothing DEF Asking, Hears, Heard
  <2>2. Response(heard[Len(heard)].resp)
    BY <2>1, HeardOf DEF Hears
  <2> QED BY <2>1, <2>2 DEF Response
<1>3. Len(events) \in 0..Len(events) /\ SubSeq(events, 1, Len(events)) = events
  <2>1. Len(events) \in 0..Len(events)
    BY <1>2, Nothing
  <2> QED BY <1>2, <2>1, Beginnings
<1>4. PICK m \in 0..Len(events) : EndStream(SubSeq(events, 1, m))
  <2>1. CASE StreamEnds
    BY <2>1, <1>3, Zenon DEF StreamEnds
  <2>2. CASE ReaderTimesOut
    BY <2>2, Zenon DEF ReaderTimesOut
  <2> QED BY <2>1, <2>2
<1> QED BY <1>1, <1>4, EndHears

\* What the transports and the judges do.
LEMMA HearsHTTP ==
    ASSUME Core, Hears, HTTPStep
    PROVE  Hears'
<1>1. Lists /\ Place /\ Going /\ Asking
  BY DEF Core, Hears
<1>2. CASE Skip \/ EndCaseHTTP
  <2>1. (\E status, started : Conclude(status, started)) /\ heard' = heard
    BY <1>2 DEF Skip, EndCaseHTTP
  <2> QED BY <2>1, ConcludeHears
<1>3. CASE StartCaseHTTP
  <2>1. /\ pc = "case" /\ heard' = <<>> /\ last' = NoResponse
        /\ \/ \E status, started : Conclude(status, started)
           \/ pc' = "step" /\ UNCHANGED steps
    BY <1>3 DEF StartCaseHTTP, Starting
  <2>2. steps = <<>>
    BY <1>1, <2>1 DEF Place, Exchanging
  <2>3. CASE pc' = "step" /\ UNCHANGED steps
    BY <2>1, <2>2, <2>3, Leaving DEF Exchanging
  <2> QED BY <2>1, <2>3, ConcludeHears
<1>4. CASE Deadline
  <2>1. UNCHANGED <<spec, cfg, pc, results, steps, last, events, heard>>
    BY <1>4 DEF Deadline
  <2>2. Step' = Step
    BY <2>1, SameStep
  <2>3. Asking'
    BY <1>1, <2>1, <2>2 DEF Asking, Exchanging
  <2> QED BY <1>1, <2>1, <2>3, Silence DEF AtWork, Exchanging
<1>5. CASE Send
  <2>1. /\ pc = "step" /\ cfg.url /\ Step.action \in {"send", "mcp_tool_call"}
        /\ UNCHANGED <<spec, cfg, results, last, heard>>
        /\ \/ \E status : StepDone(status, NoResponse)
           \/ pc' = "sent" /\ UNCHANGED steps
    BY <1>5, Zenon DEF Send, AtStep
  <2>2. CASE \E status : StepDone(status, NoResponse)
    BY <1>1, <2>1, <2>2, Unanswered
  <2>3. CASE pc' = "sent" /\ UNCHANGED steps
    <3>1. Step' = Step
      BY <2>1, <2>3, SameStep
    <3>2. Asking'
      BY <2>1, <2>3, <3>1 DEF Asking, Exchanging
    <3> QED BY <1>1, <2>1, <2>3, <3>2, Silence DEF AtWork, Exchanging
  <2> QED BY <2>1, <2>2, <2>3
<1>6. CASE PollAgain
  <2>1. pc = "between" /\ pc' = "sent" /\ UNCHANGED <<spec, cfg, results, steps, last, heard>>
    BY <1>6 DEF PollAgain
  <2>2. Step' = Step
    BY <2>1, SameStep
  <2>3. Asking'
    BY <1>1, <2>1, <2>2 DEF Asking, Exchanging
  <2> QED BY <1>1, <2>1, <2>3, Silence DEF AtWork, Exchanging
<1>7. CASE PollCancelled
  <2>1. /\ pc = "between" /\ UNCHANGED <<cfg, last, heard>> /\ StepDone("error", NoResponse)
    BY <1>7 DEF PollCancelled
  <2> QED BY <1>1, <2>1, Unanswered DEF Exchanging
<1>8. CASE RequestFails \/ StreamEnds \/ ReaderTimesOut
  BY <1>8, FailsHears, EndsHears
<1>10. CASE ExpectStep \/ AssertStep
  <2>1. /\ pc = "step" /\ cfg.url /\ Step.action \in {"expect", "assert"}
        /\ \E passes : Judge(passes)
    BY <1>10 DEF ExpectStep, AssertStep, AtStep
  <2> QED BY <1>1, <2>1, JudgeHears
<1>11. CASE WaitStep \/ OtherStep
  <2>1. /\ pc = "step" /\ UNCHANGED <<cfg, last, heard>>
        /\ \E status : StepDone(status, NoResponse)
    BY <1>11 DEF WaitStep, OtherStep, AtStep
  <2> QED BY <1>1, <2>1, Unanswered
<1> QED BY <1>2, <1>3, <1>4, <1>5, <1>6, <1>7, <1>8, <1>10, <1>11 DEF HTTPStep

\* What the runtime does.
LEMMA HearsEnvironment ==
    ASSUME Core, Hears, HTTPEnvironment
    PROVE  Hears'
<1>1. CASE \E wire \in Wires : Answered(wire)
  BY <1>1, AnsweredHears
<1>2. CASE \E e \in Events : EventArrives(e)
  BY <1>2, EventHears
<1>3. CASE RequestFails \/ StreamEnds
  BY <1>3, FailsHears, EndsHears
<1> QED BY <1>1, <1>2, <1>3 DEF HTTPEnvironment

\* In a container nothing is heard.
LEMMA HearsDocker ==
    ASSUME Core, Hears, DockerStep
    PROVE  Hears'
<1>1. Lists /\ Asking /\ Going /\ UNCHANGED <<cfg, last, heard>>
  BY DEF Core, Hears, DockerStep, DockerRefuses, CreateContainer, ContainerStarts,
    ContainerStartFails, LegacyStep, EndCaseDocker, unchangedHTTP
<1>2. CASE DockerRefuses \/ ContainerStartFails \/ EndCaseDocker
  <2>1. \E status, started : Conclude(status, started)
    BY <1>2 DEF DockerRefuses, ContainerStartFails, EndCaseDocker
  <2> QED BY <2>1, <1>1, ConcludeHears
<1>3. CASE CreateContainer \/ ContainerStarts
  <2>1. UNCHANGED steps /\ pc' \in {"created", "step"} /\ ~cfg.url
    BY <1>1, <1>3 DEF CreateContainer, ContainerStarts, Starting, Going
  <2>2. Asking'
    BY <2>1 DEF Asking, Exchanging
  <2> QED BY <1>1, <2>1, <2>2, Silence DEF AtWork
<1>4. CASE LegacyStep
  <2>1. pc = "step" /\ StepDone("error", NoResponse)
    BY <1>4 DEF LegacyStep
  <2> QED BY <1>1, <2>1, Unanswered
<1> QED BY <1>2, <1>3, <1>4 DEF DockerStep

\* The command before and after the run, and other processes.
LEMMA HearsStore ==
    ASSUME Core, Hears,
           \/ StoreStep \/ StatementFails \/ Crash
           \/ \E s \in Specs : OtherSaves(s)
           \/ \E s \in Specs, c \in Configs : Run(s, c)
    PROVE  Hears'
<1>1. Lists /\ Asking
  BY DEF Core, Hears
<1>2. CASE NoProcess
  BY <1>2, NoProcessHears
<1>3. CASE /\ UNCHANGED <<steps, heard, last>>
           /\ pc' \in {"saveSpec", "clearCases", "saveCases", "case", "saveRun", "saveResults"}
  <2>1. Asking'
    BY <1>3 DEF Asking, Exchanging
  <2> QED BY <1>1, <1>3, <2>1, Silence DEF AtWork, Exchanging
<1>4. CASE \E s \in Specs : OtherSaves(s)
  <2>1. UNCHANGED <<spec, cfg, pc, results, steps, last, events, heard>>
    BY <1>4, Zenon DEF OtherSaves, rvars
  <2>2. Step' = Step
    BY <2>1, SameStep
  <2>3. Asking'
    BY <1>1, <2>1, <2>2 DEF Asking, Exchanging
  <2> QED BY <1>1, <2>1, <2>3, Silence DEF AtWork, Exchanging
<1>5. CASE StoreStep
  <2>1. CASE SaveSpecRow \/ ClearCases \/ SaveCase \/ CommitSpec \/ EndRun
    BY <2>1, <1>3 DEF SaveSpecRow, ClearCases, SaveCase, CommitSpec, EndRun, storeOnly
  <2>2. CASE SaveRunRow \/ SaveResult
    <3>1. UNCHANGED <<steps, heard, last>> /\ pc' = "saveResults"
      BY <2>2, Zenon DEF SaveRunRow, SaveResult, storeOnly
    <3> QED BY <3>1, <1>3
  <2>3. CASE CaseRefused \/ CommitRun
    BY <2>3, <1>2 DEF CaseRefused, CommitRun, Rollback
  <2> QED BY <1>5, <2>1, <2>2, <2>3 DEF StoreStep
<1>6. CASE StatementFails \/ Crash
  BY <1>6, <1>2 DEF StatementFails, Crash, Rollback
<1>7. CASE \E s \in Specs, c \in Configs : Run(s, c)
  BY <1>7, <1>3 DEF Run
<1> QED BY <1>4, <1>5, <1>6, <1>7

\* Nothing has been heard at first.
LEMMA HearsInit == Init => Hears
<1> SUFFICES ASSUME Init PROVE Hears
  OBVIOUS
<1>1. steps = <<>> /\ heard = <<>> /\ pc = "idle"
  BY DEF Init, RunnerInit
<1>2. Len(steps) = 0 /\ Len(heard) = 0 /\ IsSeq(heard)
  BY <1>1, Nothing
<1> QED BY <1>1, <1>2 DEF Hears, Heard, HeardInTime, Asking, KeepsLatest, AllOwn, AtWork, Exchanging

\* What is heard and what is made of it stay in step.
LEMMA HearsNext == Core /\ Hears /\ [Next]_vars => Hears'
<1> SUFFICES ASSUME Core, Hears, [Next]_vars PROVE Hears'
  OBVIOUS
<1>1. CASE UNCHANGED vars
  <2>1. UNCHANGED <<spec, cfg, pc, results, steps, last, events, heard>>
    BY <1>1 DEF vars, rvars
  <2>2. Step' = Step
    BY <2>1, SameStep
  <2>3. Asking' /\ Lists
    BY <2>1, <2>2 DEF Hears, Core, Asking, Exchanging
  <2> QED BY <2>1, <2>3, Silence DEF AtWork, Exchanging
<1>2. CASE RunnerStep \/ Environment
  BY <1>2, HearsHTTP, HearsDocker, HearsEnvironment DEF RunnerStep, Environment
<1> QED BY <1>1, <1>2, HearsStore DEF Next

\* The answers the claim speaks of are the latest ones.
LEMMA OwnIsClaimed == Core /\ Hears => AnswersAreTheirOwn
<1> SUFFICES ASSUME Core, Hears, NEW i \in DOMAIN steps, steps[i].actual # NoResponse
             PROVE  IF steps[i].action \in {"expect", "assert"}
                    THEN /\ Before(i) # {}
                         /\ From(steps[i].actual,
                                 heard[CHOOSE k \in Before(i) : \A j \in Before(i) : j <= k].resp)
                    ELSE \E k \in DOMAIN heard :
                            heard[k].step = i /\ From(steps[i].actual, heard[k].resp)
  BY DEF AnswersAreTheirOwn
<1>1. Own(i) /\ DOMAIN heard = 1..Len(heard) /\ Len(heard) \in Nat
  BY Nothing DEF Hears, Heard, AllOwn, Core, Lists
<1>2. CASE steps[i].action \in {"expect", "assert"}
  <2>1. PICK k : Latest(k, i) /\ From(steps[i].actual, heard[k].resp)
    BY <1>1, <1>2 DEF Own
  <2>2. k \in Before(i) /\ \A j \in Before(i) : j <= k
    BY <1>1, <2>1 DEF Latest, Before
  <2>3. PICK c : c = CHOOSE b \in Before(i) : \A j \in Before(i) : j <= b
    OBVIOUS
  <2>4. c \in Before(i) /\ \A j \in Before(i) : j <= c
    BY <2>2, <2>3
  <2>5. c = k
    BY <1>1, <2>2, <2>4 DEF Before
  <2> QED BY <1>2, <2>1, <2>2, <2>3, <2>5
<1>3. CASE steps[i].action \notin {"expect", "assert"}
  BY <1>1, <1>3 DEF Own
<1> QED BY <1>2, <1>3

\* A step judges the latest answer of its own case, and a send passes with an answer to
\* its own request (http_runner.go:153): for every spec and timing of the runtime.
THEOREM AnswersOwn == Spec => []AnswersAreTheirOwn
<1> QED BY CoreInit, CoreNext, HearsInit, HearsNext, OwnIsClaimed, PTL DEF Spec

-----------------------------------------------------------------------------
\* What is stored of a run.  Its id is new, its rows go into one transaction, one after
\* the other, and there are as many as there are cases when it is committed.

\* The rows of the first n results.
RowsTo(n) == {Row(i) : i \in 1..n}

RowsIn(t, id) == {r \in t.results : r.run = id}

\* A run and its rows as they are to be stored.
WholeRun(run, rows) ==
    /\ \E s \in Specs :
          /\ s.id = run.spec /\ Cardinality(rows) = Len(s.cases)
          /\ \A r \in rows : r.case = s.cases[r.id].id
    /\ run.summary.total = Cardinality(rows)
    /\ \A status \in Statuses :
          run.summary.counts[status] = Cardinality({r \in rows : r.status = status})
    /\ \A p, q \in rows :
          p.started < q.started => q.started # 0 /\ (p.started = 0 \/ p.id < q.id)

\* A result is stored for a run, and the run that is going on has none.
RunsOfResults ==
    /\ \A r \in db.results : \E run \in db.runs : run.id = r.run
    /\ \A run \in db.runs : run.id \in Nat /\ run.id <= runId /\ (pc # "idle" => run.id < runId)

RunsWhole == \A run \in db.runs : WholeRun(run, RowsIn(db, run.id))

\* Cases that were started bear their time, in the order of the cases.
Times == \A i \in 1..Len(results) : results[i].started \in {0, i}

RunRow == [id |-> runId, spec |-> spec.id, summary |-> ComputeSummary(results)]

\* The transaction so far.
Transaction ==
    /\ pc \in {"saveRun", "saveResults"} => Len(results) = Len(spec.cases)
    /\ pc \in {"clearCases", "saveCases"} => tx.runs = db.runs /\ tx.results = db.results
    /\ pc = "saveResults" =>
          /\ tx.runs = db.runs \cup {RunRow}
          /\ \E n \in 0..Len(results) : tx.results = db.results \cup RowsTo(n)

RunStore == RunsOfResults /\ RunsWhole /\ Times /\ Transaction

\* The rows of some results are as many as the results.
LEMMA RowsCounted ==
    ASSUME NEW I, IsFiniteSet(I)
    PROVE  /\ IsFiniteSet({Row(i) : i \in I})
           /\ Cardinality({Row(i) : i \in I}) = Cardinality(I)
<1> DEFINE T == {Row(i) : i \in I}
           f == [i \in I |-> Row(i)]
<1>1. \A i \in I : Row(i).id = i
  BY DEF Row
<1>2. f \in [I -> T] /\ \A i \in I : f[i] = Row(i)
  OBVIOUS
<1>3. \A r \in T : \E i \in I : r = Row(i)
  OBVIOUS
<1> HIDE DEF f, T
<1>4. \A i, j \in I : f[i] = f[j] => i = j
  BY <1>1, <1>2
<1>5. \A r \in T : \E i \in I : f[i] = r
  BY <1>2, <1>3
<1>6. f \in Bijection(I, T)
  BY <1>2, <1>4, <1>5 DEF Bijection, Injection, Surjection, IsInjective
<1>7. ExistsBijection(I, T)
  BY <1>6 DEF ExistsBijection
<1>8. IsFiniteSet(T) /\ Cardinality(T) = Cardinality(I)
  BY <1>7, FS_Bijection
<1> QED BY <1>8 DEF T

\* Of the first n results.
LEMMA RowsToCounted ==
    ASSUME NEW n \in Nat
    PROVE  IsFiniteSet(RowsTo(n)) /\ Cardinality(RowsTo(n)) = n
<1>1. IsFiniteSet(1..n) /\ Cardinality(1..n) = n
  BY FS_Interval
<1>2. PICK I : I = 1..n
  OBVIOUS
<1>3. /\ IsFiniteSet({Row(i) : i \in I})
      /\ Cardinality({Row(i) : i \in I}) = Cardinality(I)
  BY <1>1, <1>2, RowsCounted
<1> QED BY <1>1, <1>2, <1>3 DEF RowsTo

\* What the rows say of the results.
LEMMA RowsSay ==
    ASSUME NEW r, NEW n, r \in RowsTo(n)
    PROVE  /\ r.run = runId /\ r.id \in 1..n
           /\ r.case = results[r.id].case /\ r.status = results[r.id].status
           /\ r.started = results[r.id].started
<1>1. PICK i \in 1..n : r = Row(i)
  BY DEF RowsTo
<1> QED BY <1>1 DEF Row

\* The rows of a run that is over are whole (schema: ComputeSummary).
LEMMA RowsAreWhole ==
    ASSUME Core, Times, Len(results) = Len(spec.cases), NEW run, run = RunRow
    PROVE  WholeRun(run, RowsTo(Len(results)))
<1>1. PICK n : n = Len(results) /\ n \in Nat /\ DOMAIN results = 1..n
  BY Nothing DEF Core, Lists
<1>2. PICK rows : rows = RowsTo(n)
  OBVIOUS
<1>3. Cardinality(rows) = n
  BY <1>1, <1>2, RowsToCounted
<1>4. PICK summary : summary = ComputeSummary(results)
  OBVIOUS
<1>5. run.spec = spec.id /\ run.summary = summary
  BY <1>4 DEF RunRow
<1>6. /\ summary.total = n
      /\ \A status \in Statuses :
            summary.counts[status] = Cardinality({i \in 1..n : results[i].status = status})
  BY <1>1, <1>4 DEF ComputeSummary
<1>7. \A r \in rows : r.case = spec.cases[r.id].id
  BY <1>1, <1>2, RowsSay DEF Core, VerdictsFollowSteps
<1>8. ASSUME NEW status \in Statuses
      PROVE  summary.counts[status] = Cardinality({r \in rows : r.status = status})
  <2>1. PICK I : I = {i \in 1..n : results[i].status = status}
    OBVIOUS
  <2>2. IsFiniteSet(I)
    <3>1. IsFiniteSet(1..n) /\ I \subseteq 1..n
      BY <1>1, <2>1, FS_Interval
    <3> QED BY <3>1, FS_Subset
  <2>3. {r \in rows : r.status = status} = {Row(i) : i \in I}
    <3>1. \A i \in 1..n : Row(i).status = results[i].status
      BY DEF Row
    <3> QED BY <1>2, <2>1, <3>1 DEF RowsTo
  <2>4. Cardinality({Row(i) : i \in I}) = Cardinality(I)
    BY <2>2, RowsCounted
  <2> QED BY <1>6, <2>1, <2>3, <2>4
<1>9. ASSUME NEW p \in rows, NEW q \in rows, p.started < q.started
      PROVE  q.started # 0 /\ (p.started = 0 \/ p.id < q.id)
  <2>1. p.id \in 1..n /\ p.started \in {0, p.id} /\ q.id \in 1..n /\ q.started \in {0, q.id}
    BY <1>1, <1>2, RowsSay DEF Times
  <2> QED BY <1>9, <2>1, <1>1
<1>10. spec \in Specs /\ Cardinality(rows) = Len(spec.cases)
  BY <1>1, <1>3 DEF Core, Loaded
<1>11. WholeRun(run, rows)
  BY <1>3, <1>5, <1>6, <1>7, <1>8, <1>9, <1>10 DEF WholeRun
<1> QED BY <1>1, <1>2, <1>11

\* A case that is recorded bears its own time or none (runner.go:138).
LEMMA TimesNext ==
    ASSUME Core, Times, [Next]_vars
    PROVE  Times'
<1>1. CASE UNCHANGED results
  BY <1>1 DEF Times
<1>2. CASE results' = <<>>
  BY <1>2, Nothing DEF Times
<1>3. CASE \E status : \E started \in {0, Now} : Conclude(status, started)
  <2>1. PICK r : results' = Append(results, r) /\ r.started \in {0, Len(results) + 1}
    BY <1>3 DEF Conclude, Now
  <2>2. /\ Len(results) \in Nat /\ Len(results') = Len(results) + 1
        /\ \A i \in 1..Len(results) : results'[i] = results[i]
        /\ results'[Len(results) + 1] = r
    BY <2>1, Appending DEF Core, Lists
  <2> QED BY <2>1, <2>2 DEF Times
<1>4. \/ UNCHANGED results \/ results' = <<>>
      \/ \E status : \E started \in {0, Now} : Conclude(status, started)
  <2>1. CASE HTTPStep
    <3>1. CASE Skip \/ StartCaseHTTP \/ EndCaseHTTP
      BY <3>1 DEF Skip, StartCaseHTTP, EndCaseHTTP
    <3>2. CASE Deadline \/ Send \/ PollAgain \/ PollCancelled \/ RequestFails
      BY <3>2 DEF Deadline, Send, PollAgain, PollCancelled, RequestFails
    <3>3. CASE StreamEnds \/ ReaderTimesOut
      BY <3>3 DEF StreamEnds, ReaderTimesOut, EndStream
    <3>4. CASE ExpectStep \/ AssertStep \/ WaitStep \/ OtherStep
      BY <3>4 DEF ExpectStep, AssertStep, WaitStep, OtherStep, Judge
    <3> QED BY <2>1, <3>1, <3>2, <3>3, <3>4 DEF HTTPStep
  <2>2. CASE DockerStep
    BY <2>2 DEF DockerStep, DockerRefuses, CreateContainer, ContainerStarts, ContainerStartFails,
      LegacyStep, EndCaseDocker
  <2>3. CASE HTTPEnvironment
    BY <2>3 DEF HTTPEnvironment, Answered, EventArrives, RequestFails, StreamEnds, EndStream
  <2>4. CASE StoreStep \/ StatementFails \/ Crash \/ UNCHANGED vars
    BY <2>4 DEF StoreStep, SaveSpecRow, ClearCases, SaveCase, CommitSpec, CaseRefused, EndRun,
      SaveRunRow, SaveResult, CommitRun, StatementFails, Rollback, Crash, NoProcess, storeOnly,
      vars, rvars
  <2>5. ASSUME NEW s \in Specs, OtherSaves(s) \/ \E c \in Configs : Run(s, c)
        PROVE  UNCHANGED results
    BY <2>5 DEF OtherSaves, Run, rvars
  <2> QED BY <2>1, <2>2, <2>3, <2>4, <2>5 DEF Next, RunnerStep, Environment
<1> QED BY <1>1, <1>2, <1>3, <1>4

\* The runs stay as they are stored, while no transaction is open.
LEMMA RunsUntouched ==
    ASSUME RunsOfResults, RunsWhole, db'.runs = db.runs, db'.results = db.results,
           runId \in Nat, runId' \in Nat, runId <= runId',
           pc' # "idle" /\ runId' = runId => pc # "idle"
    PROVE  RunsOfResults' /\ RunsWhole'
<1>1. RunsOfResults'
  BY DEF RunsOfResults
<1>2. ASSUME NEW run \in db'.runs
      PROVE  WholeRun(run, RowsIn(db', run.id))
  <2>1. RowsIn(db', run.id) = RowsIn(db, run.id)
    BY DEF RowsIn
  <2> QED BY <2>1 DEF RunsWhole
<1>3. \A run \in db'.runs : WholeRun(run, RowsIn(db', run.id))
  BY <1>2
<1> QED BY <1>1, <1>3 DEF RunsWhole, RowsIn, WholeRun

\* A run is committed with all its rows.
LEMMA CommitRunKeeps ==
    ASSUME Core, Types, RunStore, CommitRun
    PROVE  RunsOfResults' /\ RunsWhole'
<1>1. /\ pc = "saveResults" /\ db' = tx /\ pc' = "idle" /\ runId' = runId
      /\ Saved = Len(results) /\ runId \in Nat
  BY RunsAssumption DEF CommitRun, NoProcess, Types, Flags
<1>2. /\ Len(results) = Len(spec.cases) /\ tx.runs = db.runs \cup {RunRow}
      /\ RunsOfResults /\ RunsWhole /\ Times
  BY <1>1 DEF RunStore, Transaction
<1>3. PICK n \in 0..Len(results) : tx.results = db.results \cup RowsTo(n)
  BY <1>1 DEF RunStore, Transaction
<1>4. \A run \in db.runs : run.id \in Nat /\ run.id < runId
  BY <1>1, <1>2 DEF RunsOfResults
<1>5. \A r \in db.results : r.run # runId
  BY <1>1, <1>2, <1>4 DEF RunsOfResults
<1>6. \A r \in RowsTo(n) : r.run = runId
  BY RowsSay
<1>7. RowsIn(tx, runId) = RowsTo(n)
  BY <1>3, <1>5, <1>6 DEF RowsIn
<1>8. n = Len(results) /\ n \in Nat
  <2>1. Len(results) \in Nat
    BY Nothing DEF Core, Lists
  <2>2. Cardinality(RowsTo(n)) = n
    BY <2>1, RowsToCounted
  <2> QED BY <1>1, <1>7, <2>1, <2>2 DEF Saved, RowsIn
<1>9. PICK row : row = RunRow
  OBVIOUS
<1>10. row.id = runId
  BY <1>9 DEF RunRow
<1>11. WholeRun(row, RowsIn(tx, row.id))
  BY <1>2, <1>7, <1>8, <1>9, <1>10, RowsAreWhole
<1>12. ASSUME NEW run \in db.runs
       PROVE  WholeRun(run, RowsIn(tx, run.id))
  <2>1. RowsIn(tx, run.id) = RowsIn(db, run.id)
    BY <1>1, <1>3, <1>4, <1>6 DEF RowsIn
  <2> QED BY <2>1, <1>2 DEF RunsWhole
<1>13. \A run \in tx.runs : WholeRun(run, RowsIn(tx, run.id))
  BY <1>2, <1>9, <1>11, <1>12
<1>14. RunsOfResults'
  <2>1. \A r \in tx.results : \E run \in tx.runs : run.id = r.run
    BY <1>2, <1>3, <1>6, <1>9, <1>10 DEF RunsOfResults
  <2>2. \A run \in tx.runs : run.id \in Nat /\ run.id <= runId
    BY <1>1, <1>2, <1>4, <1>9, <1>10
  <2> QED BY <1>1, <2>1, <2>2 DEF RunsOfResults
<1> QED BY <1>1, <1>13, <1>14 DEF RunsWhole, RowsIn, WholeRun

\* The rows of a run are written one after the other.
LEMMA SaveResultKeeps ==
    ASSUME Core, Types, RunStore, SaveResult
    PROVE  Transaction'
<1>1. /\ pc = "saveResults" /\ pc' = pc /\ UNCHANGED <<db, spec, results, runId>>
      /\ Saved < Len(results)
      /\ tx'.results = tx.results \cup {Row(Saved + 1)} /\ tx'.runs = tx.runs
  BY DEF SaveResult, storeOnly, Types, Stored, Table
<1>2. /\ Len(results) = Len(spec.cases) /\ tx.runs = db.runs \cup {RunRow}
      /\ RunsOfResults /\ Len(results) \in Nat
  BY <1>1, Nothing DEF RunStore, Transaction, Core, Lists
<1>3. PICK n \in 0..Len(results) : tx.results = db.results \cup RowsTo(n)
  BY <1>1 DEF RunStore, Transaction
<1>4. \A r \in db.results : r.run # runId
  BY <1>1, <1>2, RunsAssumption DEF RunsOfResults, Types, Flags
<1>5. \A r \in RowsTo(n) : r.run = runId
  BY RowsSay
<1>6. RowsIn(tx, runId) = RowsTo(n)
  BY <1>3, <1>4, <1>5 DEF RowsIn
<1>7. Saved = n
  <2>1. n \in Nat
    BY <1>2
  <2>2. Saved = Cardinality(RowsIn(tx, runId))
    BY DEF Saved, RowsIn
  <2> QED BY <1>6, <2>1, <2>2, RowsToCounted
<1>8. RowsTo(n + 1) = RowsTo(n) \cup {Row(n + 1)}
  <2>1. 1..(n + 1) = (1..n) \cup {n + 1}
    BY <1>2
  <2> QED BY <2>1 DEF RowsTo
<1>9. n + 1 \in 0..Len(results) /\ tx'.results = db.results \cup RowsTo(n + 1)
  BY <1>1, <1>2, <1>3, <1>7, <1>8
<1>10. /\ RunRow' = RunRow /\ \A i : RowsTo(i)' = RowsTo(i)
  BY <1>1 DEF RunRow, RowsTo, Row
<1> QED BY <1>1, <1>2, <1>9, <1>10 DEF Transaction

\* The runner takes its steps between the saves.
LEMMA RunnerAtWork ==
    ASSUME Core, RunnerStep \/ Environment
    PROVE  pc # "idle" /\ UNCHANGED <<runId, db, tx>>
<1>1. UNCHANGED <<db, tx>>
  BY DEF RunnerStep, Environment
<1>2. CASE HTTPStep
  BY <1>1, <1>2 DEF HTTPStep, Skip, StartCaseHTTP, Starting, Deadline, Send, AtStep, PollAgain,
    PollCancelled, RequestFails, StreamEnds, ReaderTimesOut, ExpectStep, AssertStep, WaitStep,
    OtherStep, EndCaseHTTP
<1>3. CASE DockerStep
  BY <1>1, <1>3 DEF DockerStep, DockerRefuses, CreateContainer, ContainerStarts, ContainerStartFails,
    LegacyStep, EndCaseDocker, Starting
<1>4. CASE HTTPEnvironment
  BY <1>1, <1>4 DEF HTTPEnvironment, Answered, EventArrives, RequestFails, StreamEnds
<1> QED BY <1>1, <1>2, <1>3, <1>4 DEF RunnerStep, Environment

\* The store holds whole runs.
LEMMA RunStoreNext == Core /\ Types /\ RunStore /\ [Next]_vars => RunStore'
<1> SUFFICES ASSUME Core, Types, RunStore, [Next]_vars PROVE RunStore'
  OBVIOUS
<1>1. Times'
  BY TimesNext DEF RunStore
<1>2. RunsOfResults /\ RunsWhole /\ Transaction /\ runId \in Nat
  BY RunsAssumption DEF RunStore, Types, Flags
<1>3. ASSUME db'.runs = db.runs, db'.results = db.results, runId' = runId,
             pc' = "idle" \/ pc # "idle",
             pc' \notin {"clearCases", "saveCases", "saveRun", "saveResults"}
      PROVE  RunStore'
  <2>1. Transaction'
    BY <1>3 DEF Transaction
  <2>2. RunsOfResults' /\ RunsWhole'
    BY <1>2, <1>3, RunsUntouched
  <2> QED BY <1>1, <2>1, <2>2 DEF RunStore
<1>4. CASE RunnerStep \/ Environment
  <2>1. pc # "idle" /\ UNCHANGED <<runId, db>>
    BY <1>4, RunnerAtWork
  <2>2. pc' \in {"case", "step", "sent", "between", "reading", "created"}
    BY <1>4, RunnerMoves
  <2> QED BY <2>1, <2>2, <1>3
<1>5. CASE StatementFails \/ CaseRefused \/ Crash
  <2>1. db' = db /\ pc' = "idle" /\ runId' = runId
    BY <1>5 DEF StatementFails, CaseRefused, Rollback, NoProcess, Crash
  <2> QED BY <2>1, <1>3
<1>6. CASE SaveSpecRow \/ ClearCases \/ SaveCase
  <2>1. /\ UNCHANGED <<db, runId>> /\ pc # "idle" /\ pc' \in {"clearCases", "saveCases"}
        /\ tx'.runs = db.runs /\ tx'.results = db.results
    BY <1>2, <1>6 DEF SaveSpecRow, ClearCases, SaveCase, storeOnly, Types, Stored, Table, Transaction
  <2>2. Transaction'
    BY <2>1 DEF Transaction
  <2>3. RunsOfResults' /\ RunsWhole'
    BY <1>2, <2>1, RunsUntouched
  <2> QED BY <1>1, <2>2, <2>3 DEF RunStore
<1>7. CASE CommitSpec
  <2>1. /\ pc = "saveCases" /\ db' = tx /\ pc' = "case" /\ runId' = runId
        /\ db'.runs = db.runs /\ db'.results = db.results
    BY <1>2, <1>7 DEF CommitSpec, storeOnly, Transaction
  <2> QED BY <2>1, <1>3
<1>8. CASE EndRun
  <2>1. /\ pc # "idle" /\ pc' = "saveRun" /\ UNCHANGED <<db, runId, results, spec>>
        /\ Len(results) = Len(spec.cases)
    BY <1>8 DEF EndRun, storeOnly
  <2>2. Transaction'
    BY <2>1 DEF Transaction
  <2>3. RunsOfResults' /\ RunsWhole'
    BY <1>2, <2>1, RunsUntouched
  <2> QED BY <1>1, <2>2, <2>3 DEF RunStore
<1>9. CASE SaveRunRow
  <2>1. /\ pc = "saveRun" /\ pc' = "saveResults" /\ UNCHANGED <<db, runId, results, spec>>
        /\ tx'.runs = db.runs \cup {RunRow} /\ tx'.results = db.results
    BY <1>9 DEF SaveRunRow, storeOnly, RunRow, Types, Stored, Table
  <2>2. Len(results) \in Nat /\ Len(results) = Len(spec.cases)
    BY <1>2, <2>1, Nothing DEF Transaction, Core, Lists
  <2>3. RunRow' = RunRow /\ \A i : RowsTo(i)' = RowsTo(i)
    BY <2>1 DEF RunRow, RowsTo, Row
  <2>4. RowsTo(0) = {} /\ 0 \in 0..Len(results)
    BY <2>2 DEF RowsTo
  <2>5. Transaction'
    BY <2>1, <2>2, <2>3, <2>4 DEF Transaction
  <2>6. RunsOfResults' /\ RunsWhole'
    BY <1>2, <2>1, RunsUntouched
  <2> QED BY <1>1, <2>5, <2>6 DEF RunStore
<1>10. CASE SaveResult
  <2>1. pc = "saveResults" /\ pc' = pc /\ UNCHANGED <<db, runId>>
    BY <1>10 DEF SaveResult, storeOnly
  <2>2. RunsOfResults' /\ RunsWhole'
    BY <1>2, <2>1, RunsUntouched
  <2> QED BY <1>1, <1>10, <2>2, SaveResultKeeps DEF RunStore
<1>11. CASE CommitRun
  <2>1. pc' = "idle"
    BY <1>11 DEF CommitRun, NoProcess
  <2>2. Transaction'
    BY <2>1 DEF Transaction
  <2> QED BY <1>1, <1>11, <2>2, CommitRunKeeps DEF RunStore
<1>12. ASSUME NEW s \in Specs, NEW c \in Configs, Run(s, c) PROVE RunStore'
  <2>1. db' = db /\ runId' = runId + 1 /\ pc' = "saveSpec"
    BY <1>12 DEF Run
  <2>2. Transaction'
    BY <2>1 DEF Transaction
  <2>3. RunsOfResults' /\ RunsWhole'
    BY <1>2, <2>1, RunsUntouched
  <2> QED BY <1>1, <2>2, <2>3 DEF RunStore
<1>13. ASSUME NEW s \in Specs, OtherSaves(s) PROVE RunStore'
  <2>1. /\ UNCHANGED <<pc, runId, results, spec, tx>> /\ ~Writing
        /\ db'.runs = db.runs /\ db'.results = db.results
    BY <1>13 DEF OtherSaves, rvars, Types, Stored, Table
  <2>2. Transaction'
    BY <1>2, <2>1 DEF Transaction, Writing
  <2>3. RunsOfResults' /\ RunsWhole'
    BY <1>2, <2>1, RunsUntouched
  <2> QED BY <1>1, <2>2, <2>3 DEF RunStore
<1>14. CASE UNCHANGED vars
  <2>1. UNCHANGED <<pc, runId, results, spec, tx, db>>
    BY <1>14 DEF vars, rvars
  <2>2. RunRow' = RunRow /\ \A i : RowsTo(i)' = RowsTo(i)
    BY <2>1 DEF RunRow, RowsTo, Row
  <2>3. Transaction'
    BY <1>2, <2>1, <2>2 DEF Transaction
  <2>4. RunsOfResults' /\ RunsWhole'
    BY <1>2, <2>1, RunsUntouched
  <2> QED BY <1>1, <2>3, <2>4 DEF RunStore
<1> QED BY <1>4, <1>5, <1>6, <1>7, <1>8, <1>9, <1>10, <1>11, <1>12, <1>13, <1>14 DEF Next, StoreStep

\* Nothing is stored at first.
LEMMA RunStoreInit == Init => RunStore
<1> SUFFICES ASSUME Init PROVE RunStore
  OBVIOUS
<1>1. /\ db.runs = {} /\ db.results = {} /\ pc = "idle" /\ results = <<>>
  BY DEF Init, RunnerInit, Tables
<1> QED BY <1>1, Nothing DEF RunStore, RunsOfResults, RunsWhole, Times, Transaction

\* A stored run has one result for each case of its spec, and its summary counts
\* them; a death between any two statements leaves nothing of it (store.go:161-196).
THEOREM StoredRunsWhole == Spec => []StoredRunsAreWhole
<1>1. RunStore => StoredRunsAreWhole
  <2> SUFFICES ASSUME RunStore PROVE StoredRunsAreWhole
    OBVIOUS
  <2>1. \A r \in db.results : \E run \in db.runs : run.id = r.run
    BY DEF RunStore, RunsOfResults
  <2>2. ASSUME NEW run \in db.runs
        PROVE  WholeRun(run, Rows(run))
    BY DEF RunStore, RunsWhole, Rows, RowsIn
  <2>3. ASSUME NEW run \in db.runs, NEW p \in GetTestRun(run.id).before
        PROVE  p[2].started # 0 /\ (p[1].started = 0 \/ p[1].id < p[2].id)
    <3>1. p \in {q \in Rows(run) \X Rows(run) : q[1].started < q[2].started}
      BY <2>3 DEF GetTestRun, Rows
    <3>2. p[1] \in Rows(run) /\ p[2] \in Rows(run) /\ p[1].started < p[2].started
      BY <3>1
    <3> QED BY <2>2, <3>2 DEF WholeRun
  <2>4. ASSUME NEW run \in db.runs
        PROVE  /\ \E s \in Specs :
                     /\ s.id = run.spec /\ Cardinality(Rows(run)) = Len(s.cases)
                     /\ \A r \in Rows(run) : r.case = s.cases[r.id].id
               /\ run.summary.total = Cardinality(Rows(run))
               /\ \A status \in Statuses :
                     run.summary.counts[status]
                       = Cardinality({r \in Rows(run) : r.status = status})
    BY <2>2 DEF WholeRun
  <2> QED BY <2>1, <2>3, <2>4 DEF StoredRunsAreWhole
<1> QED BY CoreInit, CoreNext, TypesInit, TypesNext, RunStoreInit, RunStoreNext, <1>1, PTL DEF Spec
-----------------------------------------------------------------------------
\* Tool calls.  What the table of routes, the argument in the path and the sub-action
\* make together is a path of the daemon's, and it leads to the operation of that name.

\* What two sequences make together.
LEMMA JoinedAre ==
    ASSUME NEW S, NEW s \in Seq(S), NEW e \in Seq(S), NEW u \in Seq(S),
           Len(e) = 1, Len(u) = Len(s) + 1,
           \A i \in 1 .. Len(s) : u[i] = s[i], u[Len(s) + 1] = e[1]
    PROVE  s \o e = u
<1>1. PICK st : st = s \o e
  OBVIOUS
<1>2. /\ st \in Seq(S)
      /\ Len(st) = Len(s) + Len(e)
      /\ \A i \in 1 .. Len(s) + Len(e) : st[i] = IF i <= Len(s) THEN s[i] ELSE e[i - Len(s)]
  BY <1>1, ConcatProperties
<1>3. \A i \in 1 .. Len(st) : st[i] = u[i]
  BY <1>2
<1>4. st = u
  BY <1>2, <1>3, SeqEqual
<1> QED BY <1>1, <1>4

\* A path of two segments, and one more.
LEMMA PathAndOne ==
    ASSUME NEW a, NEW b, NEW v
    PROVE  <<a, b>> \o <<v>> = <<a, b, v>>
<1>1. PICK s : s = <<a, b>>
  OBVIOUS
<1>2. s \in Seq({a, b, v}) /\ Len(s) = 2 /\ s[1] = a /\ s[2] = b
  BY <1>1
<1>3. PICK e : e = <<v>>
  OBVIOUS
<1>4. e \in Seq({a, b, v}) /\ Len(e) = 1 /\ e[1] = v
  BY <1>3
<1>5. PICK u : u = <<a, b, v>>
  OBVIOUS
<1>6. u \in Seq({a, b, v}) /\ Len(u) = 3 /\ u[1] = a /\ u[2] = b /\ u[3] = v
  BY <1>5
<1>7. s \o e = u
  <2>1. s \in Seq({a, b, v}) /\ e \in Seq({a, b, v}) /\ u \in Seq({a, b, v})
    BY <1>2, <1>4, <1>6, Zenon
  <2>2. Len(e) = 1 /\ Len(u) = Len(s) + 1 /\ u[Len(s) + 1] = e[1]
    BY <1>2, <1>4, <1>6
  <2>3. \A i \in 1 .. Len(s) : u[i] = s[i]
    BY <1>2, <1>6
  <2> QED BY <2>1, <2>2, <2>3, JoinedAre
<1> QED BY <1>1, <1>3, <1>5, <1>7

\* A path of three segments, and one more.
LEMMA PathAndTwo ==
    ASSUME NEW a, NEW b, NEW v, NEW c
    PROVE  <<a, b, v>> \o <<c>> = <<a, b, v, c>>
<1>1. PICK s : s = <<a, b, v>>
  OBVIOUS
<1>2. s \in Seq({a, b, v, c}) /\ Len(s) = 3 /\ s[1] = a /\ s[2] = b /\ s[3] = v
  BY <1>1
<1>3. PICK e : e = <<c>>
  OBVIOUS
<1>4. e \in Seq({a, b, v, c}) /\ Len(e) = 1 /\ e[1] = c
  BY <1>3
<1>5. PICK u : u = <<a, b, v, c>>
  OBVIOUS
<1>6. u \in Seq({a, b, v, c}) /\ Len(u) = 4 /\ u[1] = a /\ u[2] = b /\ u[3] = v /\ u[4] = c
  BY <1>5
<1>7. s \o e = u
  <2>1. s \in Seq({a, b, v, c}) /\ e \in Seq({a, b, v, c}) /\ u \in Seq({a, b, v, c})
    BY <1>2, <1>4, <1>6, Zenon
  <2>2. Len(e) = 1 /\ Len(u) = Len(s) + 1 /\ u[Len(s) + 1] = e[1]
    BY <1>2, <1>4, <1>6
  <2>3. \A i \in 1 .. Len(s) : u[i] = s[i]
    BY <1>2, <1>6
  <2> QED BY <2>1, <2>2, <2>3, JoinedAre
<1> QED BY <1>1, <1>3, <1>5, <1>7

\* A path put together of its pieces: without an argument, and with one and what
\* is done to it (mcp_translator.go:132-151).
LEMMA PathsAre ==
    ASSUME NEW a, NEW b, NEW v, NEW c
    PROVE  /\ <<a, b>> \o <<>> = <<a, b>>
           /\ <<a, b>> \o <<v>> \o <<c>> = <<a, b, v, c>>
<1>1. <<a, b>> \o <<>> = <<a, b>>
  OBVIOUS
<1>2. <<a, b>> \o <<v>> = <<a, b, v>>
  BY PathAndOne
<1>3. <<a, b, v>> \o <<c>> = <<a, b, v, c>>
  BY PathAndTwo
<1>4. <<a, b>> \o <<v>> \o <<c>> = <<a, b, v, c>>
  BY <1>2, <1>3, Zenon
<1> QED BY <1>1, <1>4, Zenon

\* The last element of a sequence, and what follows it.
LEMMA Slices ==
    ASSUME NEW s, NEW n \in Nat
    PROVE  SubSeq(s, n, n) = <<s[n]>> /\ SubSeq(s, n + 1, n) = <<>>
<1>1. PICK st : st = SubSeq(s, n, n)
  OBVIOUS
<1>2. PICK u : u = <<s[n]>>
  OBVIOUS
<1>3. \A i \in n .. n : s[i] \in {s[n]}
  OBVIOUS
<1>4. st \in Seq({s[n]}) /\ Len(st) = 1 /\ st[1] = s[n]
  BY <1>1, <1>3, SubSeqProperties
<1>5. u \in Seq({s[n]}) /\ Len(u) = 1 /\ u[1] = s[n]
  BY <1>2
<1>6. st = u
  BY <1>4, <1>5, SeqEqual
<1>7. SubSeq(s, n + 1, n) = <<>>
  BY SubSeqEmpty
<1> QED BY <1>1, <1>2, <1>6, <1>7

\* A path that is written as it should be.
LEMMA CleanIs ==
    ASSUME NEW S, S \intersect {"", ".", ".."} = {}, NEW path \in Seq(S)
    PROVE  Clean(path)
<1>1. ASSUME NEW i \in DOMAIN path
      PROVE  path[i] \in S
  <2>1. DOMAIN path = 1 .. Len(path)
    BY LenProperties
  <2> QED BY <2>1, ElementOfSeq
<1>2. \A i \in DOMAIN path : path[i] \notin {"", ".", ".."}
  BY <1>1
<1>3. \A i \in DOMAIN path : path[i] \notin {".", ".."} /\ path[i] # ""
  BY <1>2
<1> QED BY <1>3, Zenon DEF Clean

\* The collections of the daemon (arp_lifecycle.go).
LEMMA OfCollection ==
    ASSUME NEW req, NEW x \in {"projects", "workspaces", "agents"}, req.path = <<"api", x>>
    PROVE  Outcomes(req) = {Does(Dispatch(Collections[x], req.method), <<>>)}
<1>1. PICK path : path = req.path
  OBVIOUS
<1>2. path[1] = "api" /\ path[2] = x /\ Len(path) = 2
  BY <1>1
<1>3. DOMAIN Collections = {"projects", "workspaces", "agents"}
  BY DEF Collections
<1>4. Operation(path, req.method) = Does(Dispatch(Collections[x], req.method), <<>>)
  BY <1>2, <1>3 DEF Operation
<1>5. Clean(path)
  <2>1. path \in Seq({"api", x})
    BY <1>1
  <2>2. {"api", x} \intersect {"", ".", ".."} = {}
    OBVIOUS
  <2> QED BY <2>1, <2>2, CleanIs
<1> QED BY <1>1, <1>4, <1>5, Zenon DEF Outcomes

\* Their members, but for the agents.
LEMMA OfMember ==
    ASSUME NEW req, NEW x \in {"projects", "workspaces"}, NEW v, Plain(v),
           req.path = <<"api", x, v>>
    PROVE  Outcomes(req) = {Does(Dispatch(Members[x], req.method), <<v>>)}
<1>1. PICK path : path = req.path
  OBVIOUS
<1>2. path[1] = "api" /\ path[2] = x /\ path[3] = v /\ Len(path) = 3
  BY <1>1
<1>3. v \notin {"", ".", ".."}
  BY Zenon DEF Plain
<1>4. DOMAIN Members = {"projects", "workspaces"}
  BY DEF Members
<1>5. SubSeq(path, 3, 3) = <<v>>
  BY <1>2, Slices
<1>6. <<v>> # <<"">>
  BY <1>3
<1>7. Operation(path, req.method) = Does(Dispatch(Members[x], req.method), <<v>>)
  <2>1. /\ ~(Len(path) > 2 /\ path[1] = "a2a" /\ path[2] = "agents") /\ Len(path) # 2
        /\ Len(path) > 2 /\ path[1] = "api" /\ path[2] \in DOMAIN Members
        /\ path[2] # "agents"
    BY <1>2, <1>4
  <2>2. SubSeq(path, 3, Len(path)) = <<v>>
    BY <1>2, <1>5, Zenon
  <2> QED BY <1>2, <1>6, <2>1, <2>2, Zenon DEF Operation
<1>8. Clean(path)
  <2>1. path \in Seq({"api", x, v})
    BY <1>1
  <2>2. {"api", x, v} \intersect {"", ".", ".."} = {}
    BY <1>3
  <2> QED BY <2>1, <2>2, CleanIs
<1> QED BY <1>1, <1>7, <1>8, Zenon DEF Outcomes

\* An agent.
LEMMA OfAgent ==
    ASSUME NEW req, NEW v, Plain(v), req.path = <<"api", "agents", v>>
    PROVE  Outcomes(req) = {Does(AgentOperation(req.method, <<>>), <<v>>)}
<1>1. PICK path : path = req.path
  OBVIOUS
<1>2. /\ path[1] = "api" /\ path[2] = "agents" /\ path[3] = v
      /\ Len(path) = 3
  BY <1>1
<1>3. v \notin {"", ".", ".."}
  BY Zenon DEF Plain
<1>4. "agents" \notin DOMAIN Members
  BY DEF Members
<1>5. SubSeq(path, 4, 3) = <<>>
  BY Slices
<1>6. Operation(path, req.method) = Does(AgentOperation(req.method, <<>>), <<v>>)
  <2>1. /\ path[1] # "a2a" /\ Len(path) # 2 /\ path[2] \notin DOMAIN Members
        /\ Len(path) > 2 /\ path[1] = "api" /\ path[2] = "agents"
    BY <1>2, <1>4
  <2>2. SubSeq(path, 4, Len(path)) = <<>>
    BY <1>2, <1>5, Zenon
  <2> QED BY <1>2, <2>1, <2>2, Zenon DEF Operation
<1>7. Clean(path)
  <2>1. path \in Seq({"api", "agents", v})
    BY <1>1
  <2>2. {"api", "agents", v} \intersect {"", ".", ".."} = {}
    BY <1>3
  <2> QED BY <2>1, <2>2, CleanIs
<1> QED BY <1>1, <1>6, <1>7, Zenon DEF Outcomes

\* What is done to it.
LEMMA OfAction ==
    ASSUME NEW req, NEW v, Plain(v), NEW act \in {"stop", "restart"},
           req.path = <<"api", "agents", v, act>>
    PROVE  Outcomes(req) = {Does(AgentOperation(req.method, <<act>>), <<v>>)}
<1>1. PICK path : path = req.path
  OBVIOUS
<1>2. /\ path[1] = "api" /\ path[2] = "agents" /\ path[3] = v /\ path[4] = act
      /\ Len(path) = 4
  BY <1>1
<1>3. v \notin {"", ".", ".."}
  BY Zenon DEF Plain
<1>4. "agents" \notin DOMAIN Members
  BY DEF Members
<1>5. SubSeq(path, 4, 4) = <<act>>
  BY <1>2, Slices
<1>6. Operation(path, req.method) = Does(AgentOperation(req.method, <<act>>), <<v>>)
  <2>1. /\ path[1] # "a2a" /\ Len(path) # 2 /\ path[2] \notin DOMAIN Members
        /\ Len(path) > 2 /\ path[1] = "api" /\ path[2] = "agents"
    BY <1>2, <1>4
  <2>2. SubSeq(path, 4, Len(path)) = <<act>>
    BY <1>2, <1>5, Zenon
  <2> QED BY <1>2, <2>1, <2>2, Zenon DEF Operation
<1>7. Clean(path)
  <2>1. path \in Seq({"api", "agents", v, act})
    BY <1>1
  <2>2. {"api", "agents", v, act} \intersect {"", ".", ".."} = {}
    BY <1>3
  <2> QED BY <2>1, <2>2, CleanIs
<1> QED BY <1>1, <1>6, <1>7, Zenon DEF Outcomes

\* A message to it.
LEMMA OfMessage ==
    ASSUME NEW req, NEW v, Plain(v), req.path = <<"a2a", "agents", v, "message:send">>
    PROVE  Outcomes(req) = {Does("agent/send_message", <<v>>)}
<1>1. PICK path : path = req.path
  OBVIOUS
<1>2. /\ path[1] = "a2a" /\ path[2] = "agents" /\ path[3] = v /\ path[4] = "message:send"
      /\ Len(path) = 4
  BY <1>1
<1>3. v \notin {"", ".", ".."}
  BY Zenon DEF Plain
<1>4. Operation(path, req.method) = Does("agent/send_message", <<v>>)
  BY <1>2 DEF Operation
<1>5. Clean(path)
  <2>1. path \in Seq({"a2a", "agents", v, "message:send"})
    BY <1>1
  <2>2. {"a2a", "agents", v, "message:send"} \intersect {"", ".", ".."} = {}
    BY <1>3
  <2> QED BY <2>1, <2>2, CleanIs
<1> QED BY <1>1, <1>4, <1>5, Zenon DEF Outcomes

\* Arguments have names.
LEMMA Named == "name" # NoParam /\ "agent_id" # NoParam
BY Zenon DEF NoParam

\* A tool whose route is a collection (mcp_translator.go:22-103).
LEMMA LeadsToCollection ==
    ASSUME NEW tool \in Tools, NEW args, NEW a, NEW b,
           NEW req, req = translateMCPToolCall(tool, args),
           NEW route, route = mcpToolRoutes[tool], route.path = <<a, b>>,
           route.param = NoParam, SubAction(tool) = <<>>
    PROVE  req.method = route.method /\ req.path = <<a, b>>
<1>1. route = RouteOf(tool)
  BY Zenon DEF RouteOf
<1>2. req.method = route.method /\ req.path = PathOf(tool, route, args)
  BY <1>1 DEF translateMCPToolCall
<1>3. PathOf(tool, route, args) = <<a, b>> \o <<>>
  BY Zenon DEF PathOf, Given
<1> QED BY <1>2, <1>3, PathsAre, Zenon

\* A tool whose route takes an argument that is one segment of a path
\* (mcp_translator.go:132-151).
LEMMA LeadsToMember ==
    ASSUME NEW tool \in Tools, NEW args, NEW a, NEW b,
           NEW req, req = translateMCPToolCall(tool, args),
           NEW route, route = mcpToolRoutes[tool], route.path = <<a, b>>,
           route.param # NoParam, route.param \in DOMAIN args,
           NEW v, v = args[route.param], Plain(v)
    PROVE  /\ req.method = route.method
           /\ SubAction(tool) = <<>> => req.path = <<a, b, v>>
           /\ \A c : SubAction(tool) = <<c>> => req.path = <<a, b, v, c>>
<1>1. route = RouteOf(tool)
  BY Zenon DEF RouteOf
<1>2. req.method = route.method /\ req.path = PathOf(tool, route, args)
  BY <1>1 DEF translateMCPToolCall
<1>3. Segments(v) = <<v>> /\ ~EndsPath(v)
  BY Zenon DEF Plain, Segments, EndsPath
<1>4. PathOf(tool, route, args) = <<a, b>> \o <<v>> \o SubAction(tool)
  BY <1>3, Zenon DEF PathOf, Given
<1>5. ASSUME SubAction(tool) = <<>>
      PROVE  req.path = <<a, b, v>>
  <2>1. req.path = <<a, b>> \o <<v>> \o <<>>
    BY <1>2, <1>4, <1>5, Zenon
  <2>2. <<a, b>> \o <<v>> = <<a, b, v>>
    BY PathAndOne
  <2>3. <<a, b, v>> \o <<>> = <<a, b, v>>
    OBVIOUS
  <2> QED BY <2>1, <2>2, <2>3, Zenon
<1>6. ASSUME NEW c, SubAction(tool) = <<c>>
      PROVE  req.path = <<a, b, v, c>>
  <2>1. req.path = <<a, b>> \o <<v>> \o <<c>>
    BY <1>2, <1>4, <1>6, Zenon
  <2> QED BY <2>1, PathsAre, Zenon
<1> QED BY <1>2, <1>5, <1>6

\* The routes of the tools about all projects, workspaces or agents lead to the operations
\* of their names (mcp_translator.go:22-103, arp_lifecycle.go).
LEMMA CollectionsLead ==
    ASSUME NEW tool \in Tools, mcpToolRoutes[tool].param = NoParam, NEW args,
           NEW req, req = translateMCPToolCall(tool, args)
    PROVE  Outcomes(req) = {Does(tool, <<>>)}
<1>1. CASE tool = "project/register"
  <2>1. PICK route : route = mcpToolRoutes[tool]
    OBVIOUS
  <2>2. route.path = <<"api", "projects">> /\ route.param = NoParam /\ route.method = "POST"
    BY <1>1, <2>1 DEF mcpToolRoutes, Tools, Route
  <2>3. SubAction(tool) = <<>>
    BY <1>1 DEF SubAction
  <2>4. req.method = "POST" /\ req.path = <<"api", "projects">>
    BY <2>1, <2>2, <2>3, LeadsToCollection
  <2>5. Outcomes(req) = {Does(Dispatch(Collections["projects"], "POST"), <<>>)}
    BY <2>4, OfCollection
  <2>6. Dispatch(Collections["projects"], "POST") = tool
    BY <1>1 DEF Dispatch, Collections
  <2> QED BY <2>2, <2>5, <2>6, Zenon
<1>2. CASE tool = "project/list"
  <2>1. PICK route : route = mcpToolRoutes[tool]
    OBVIOUS
  <2>2. route.path = <<"api", "projects">> /\ route.param = NoParam /\ route.method = "GET"
    BY <1>2, <2>1 DEF mcpToolRoutes, Tools, Route
  <2>3. SubAction(tool) = <<>>
    BY <1>2 DEF SubAction
  <2>4. req.method = "GET" /\ req.path = <<"api", "projects">>
    BY <2>1, <2>2, <2>3, LeadsToCollection
  <2>5. Outcomes(req) = {Does(Dispatch(Collections["projects"], "GET"), <<>>)}
    BY <2>4, OfCollection
  <2>6. Dispatch(Collections["projects"], "GET") = tool
    BY <1>2 DEF Dispatch, Collections
  <2> QED BY <2>2, <2>5, <2>6, Zenon
<1>3. CASE tool = "workspace/create"
  <2>1. PICK route : route = mcpToolRoutes[tool]
    OBVIOUS
  <2>2. route.path = <<"api", "workspaces">> /\ route.param = NoParam /\ route.method = "POST"
    BY <1>3, <2>1 DEF mcpToolRoutes, Tools, Route
  <2>3. SubAction(tool) = <<>>
    BY <1>3 DEF SubAction
  <2>4. req.method = "POST" /\ req.path = <<"api", "workspaces">>
    BY <2>1, <2>2, <2>3, LeadsToCollection
  <2>5. Outcomes(req) = {Does(Dispatch(Collections["workspaces"], "POST"), <<>>)}
    BY <2>4, OfCollection
  <2>6. Dispatch(Collections["workspaces"], "POST") = tool
    BY <1>3 DEF Dispatch, Collections
  <2> QED BY <2>2, <2>5, <2>6, Zenon
<1>4. CASE tool = "workspace/list"
  <2>1. PICK route : route = mcpToolRoutes[tool]
    OBVIOUS
  <2>2. route.path = <<"api", "workspaces">> /\ route.param = NoParam /\ route.method = "GET"
    BY <1>4, <2>1 DEF mcpToolRoutes, Tools, Route
  <2>3. SubAction(tool) = <<>>
    BY <1>4 DEF SubAction
  <2>4. req.method = "GET" /\ req.path = <<"api", "workspaces">>
    BY <2>1, <2>2, <2>3, LeadsToCollection
  <2>5. Outcomes(req) = {Does(Dispatch(Collections["workspaces"], "GET"), <<>>)}
    BY <2>4, OfCollection
  <2>6. Dispatch(Collections["workspaces"], "GET") = tool
    BY <1>4 DEF Dispatch, Collections
  <2> QED BY <2>2, <2>5, <2>6, Zenon
<1>5. CASE tool = "agent/spawn"
  <2>1. PICK route : route = mcpToolRoutes[tool]
    OBVIOUS
  <2>2. route.path = <<"api", "agents">> /\ route.param = NoParam /\ route.method = "POST"
    BY <1>5, <2>1 DEF mcpToolRoutes, Tools, Route
  <2>3. SubAction(tool) = <<>>
    BY <1>5 DEF SubAction
  <2>4. req.method = "POST" /\ req.path = <<"api", "agents">>
    BY <2>1, <2>2, <2>3, LeadsToCollection
  <2>5. Outcomes(req) = {Does(Dispatch(Collections["agents"], "POST"), <<>>)}
    BY <2>4, OfCollection
  <2>6. Dispatch(Collections["agents"], "POST") = tool
    BY <1>5 DEF Dispatch, Collections
  <2> QED BY <2>2, <2>5, <2>6, Zenon
<1>6. CASE tool = "agent/list"
  <2>1. PICK route : route = mcpToolRoutes[tool]
    OBVIOUS
  <2>2. route.path = <<"api", "agents">> /\ route.param = NoParam /\ route.method = "GET"
    BY <1>6, <2>1 DEF mcpToolRoutes, Tools, Route
  <2>3. SubAction(tool) = <<>>
    BY <1>6 DEF SubAction
  <2>4. req.method = "GET" /\ req.path = <<"api", "agents">>
    BY <2>1, <2>2, <2>3, LeadsToCollection
  <2>5. Outcomes(req) = {Does(Dispatch(Collections["agents"], "GET"), <<>>)}
    BY <2>4, OfCollection
  <2>6. Dispatch(Collections["agents"], "GET") = tool
    BY <1>6 DEF Dispatch, Collections
  <2> QED BY <2>2, <2>5, <2>6, Zenon
<1>7. tool \in {"project/register", "project/list",
            "workspace/create", "workspace/list", "agent/spawn", "agent/list"}
  BY Named DEF mcpToolRoutes, Tools, Route
<1> QED BY <1>1, <1>2, <1>3, <1>4, <1>5, <1>6, <1>7

\* The routes of the tools about one of them lead to the operations of their names, about
\* the one the argument names (mcp_translator.go:22-151, arp_lifecycle.go).
LEMMA MembersLead ==
    ASSUME NEW tool \in Tools, mcpToolRoutes[tool].param # NoParam, NEW args,
           mcpToolRoutes[tool].param \in DOMAIN args,
           NEW v, v = args[mcpToolRoutes[tool].param], Plain(v),
           NEW req, req = translateMCPToolCall(tool, args)
    PROVE  Outcomes(req) = {Does(tool, <<v>>)}
<1>1. CASE tool = "project/get"
  <2>1. PICK route : route = mcpToolRoutes[tool]
    OBVIOUS
  <2>2. route.path = <<"api", "projects">> /\ route.method = "GET"
    BY <1>1, <2>1 DEF mcpToolRoutes, Tools, Route
  <2>3. SubAction(tool) = <<>>
    BY <1>1 DEF SubAction
  <2>4. req.method = "GET" /\ req.path = <<"api", "projects", v>>
    BY <2>1, <2>2, <2>3, LeadsToMember
  <2>5. Outcomes(req) = {Does(Dispatch(Members["projects"], "GET"), <<v>>)}
    BY <2>4, OfMember
  <2>6. Dispatch(Members["projects"], "GET") = tool
    BY <1>1 DEF Dispatch, Members
  <2> QED BY <2>5, <2>6, Zenon
<1>2. CASE tool = "project/unregister"
  <2>1. PICK route : route = mcpToolRoutes[tool]
    OBVIOUS
  <2>2. route.path = <<"api", "projects">> /\ route.method = "DELETE"
    BY <1>2, <2>1 DEF mcpToolRoutes, Tools, Route
  <2>3. SubAction(tool) = <<>>
    BY <1>2 DEF SubAction
  <2>4. req.method = "DELETE" /\ req.path = <<"api", "projects", v>>
    BY <2>1, <2>2, <2>3, LeadsToMember
  <2>5. Outcomes(req) = {Does(Dispatch(Members["projects"], "DELETE"), <<v>>)}
    BY <2>4, OfMember
  <2>6. Dispatch(Members["projects"], "DELETE") = tool
    BY <1>2 DEF Dispatch, Members
  <2> QED BY <2>5, <2>6, Zenon
<1>3. CASE tool = "workspace/get"
  <2>1. PICK route : route = mcpToolRoutes[tool]
    OBVIOUS
  <2>2. route.path = <<"api", "workspaces">> /\ route.method = "GET"
    BY <1>3, <2>1 DEF mcpToolRoutes, Tools, Route
  <2>3. SubAction(tool) = <<>>
    BY <1>3 DEF SubAction
  <2>4. req.method = "GET" /\ req.path = <<"api", "workspaces", v>>
    BY <2>1, <2>2, <2>3, LeadsToMember
  <2>5. Outcomes(req) = {Does(Dispatch(Members["workspaces"], "GET"), <<v>>)}
    BY <2>4, OfMember
  <2>6. Dispatch(Members["workspaces"], "GET") = tool
    BY <1>3 DEF Dispatch, Members
  <2> QED BY <2>5, <2>6, Zenon
<1>4. CASE tool = "workspace/destroy"
  <2>1. PICK route : route = mcpToolRoutes[tool]
    OBVIOUS
  <2>2. route.path = <<"api", "workspaces">> /\ route.method = "DELETE"
    BY <1>4, <2>1 DEF mcpToolRoutes, Tools, Route
  <2>3. SubAction(tool) = <<>>
    BY <1>4 DEF SubAction
  <2>4. req.method = "DELETE" /\ req.path = <<"api", "workspaces", v>>
    BY <2>1, <2>2, <2>3, LeadsToMember
  <2>5. Outcomes(req) = {Does(Dispatch(Members["workspaces"], "DELETE"), <<v>>)}
    BY <2>4, OfMember
  <2>6. Dispatch(Members["workspaces"], "DELETE") = tool
    BY <1>4 DEF Dispatch, Members
  <2> QED BY <2>5, <2>6, Zenon
<1>5. CASE tool = "agent/status"
  <2>1. PICK route : route = mcpToolRoutes[tool]
    OBVIOUS
  <2>2. route.path = <<"api", "agents">> /\ route.method = "GET"
    BY <1>5, <2>1 DEF mcpToolRoutes, Tools, Route
  <2>3. SubAction(tool) = <<>>
    BY <1>5 DEF SubAction
  <2>4. req.method = "GET" /\ req.path = <<"api", "agents", v>>
    BY <2>1, <2>2, <2>3, LeadsToMember
  <2>5. Outcomes(req) = {Does(AgentOperation("GET", <<>>), <<v>>)}
    BY <2>4, OfAgent
  <2>6. AgentOperation("GET", <<>>) = tool
    BY <1>5 DEF AgentOperation
  <2> QED BY <2>5, <2>6, Zenon
<1>6. CASE tool = "agent/stop"
  <2>1. PICK route : route = mcpToolRoutes[tool]
    OBVIOUS
  <2>2. route.path = <<"api", "agents">> /\ route.method = "POST"
    BY <1>6, <2>1 DEF mcpToolRoutes, Tools, Route
  <2>3. SubAction(tool) = <<"stop">>
    BY <1>6 DEF SubAction
  <2>4. req.method = "POST" /\ req.path = <<"api", "agents", v, "stop">>
    BY <2>1, <2>2, <2>3, LeadsToMember
  <2>5. Outcomes(req) = {Does(AgentOperation("POST", <<"stop">>), <<v>>)}
    BY <2>4, OfAction
  <2>6. AgentOperation("POST", <<"stop">>) = tool
    BY <1>6 DEF AgentOperation
  <2> QED BY <2>5, <2>6, Zenon
<1>7. CASE tool = "agent/restart"
  <2>1. PICK route : route = mcpToolRoutes[tool]
    OBVIOUS
  <2>2. route.path = <<"api", "agents">> /\ route.method = "POST"
    BY <1>7, <2>1 DEF mcpToolRoutes, Tools, Route
  <2>3. SubAction(tool) = <<"restart">>
    BY <1>7 DEF SubAction
  <2>4. req.method = "POST" /\ req.path = <<"api", "agents", v, "restart">>
    BY <2>1, <2>2, <2>3, LeadsToMember
  <2>5. Outcomes(req) = {Does(AgentOperation("POST", <<"restart">>), <<v>>)}
    BY <2>4, OfAction
  <2>6. AgentOperation("POST", <<"restart">>) = tool
    BY <1>7 DEF AgentOperation
  <2> QED BY <2>5, <2>6, Zenon
<1>8. CASE tool = "agent/send_message"
  <2>1. PICK route : route = mcpToolRoutes[tool]
    OBVIOUS
  <2>2. route.path = <<"a2a", "agents">> /\ route.method = "POST"
    BY <1>8, <2>1 DEF mcpToolRoutes, Tools, Route
  <2>3. SubAction(tool) = <<"message:send">>
    BY <1>8 DEF SubAction
  <2>4. req.method = "POST" /\ req.path = <<"a2a", "agents", v, "message:send">>
    BY <2>1, <2>2, <2>3, LeadsToMember
  <2> QED BY <1>8, <2>4, OfMessage
<1>9. tool \in {"project/get", "project/unregister", "workspace/get", "workspace/destroy",
            "agent/status", "agent/stop", "agent/restart", "agent/send_message"}
  BY DEF mcpToolRoutes, Tools, Route
<1> QED BY <1>1, <1>2, <1>3, <1>4, <1>5, <1>6, <1>7, <1>8, <1>9

\* The request under way of a tool call is the translation of it, of its arguments as the
\* last response makes them (mcp_translator.go:107-201).
Called ==
    pc = "sent" /\ Step.action = "mcp_tool_call" =>
        request = translateMCPToolCall(Step.tool, Arguments(Step))

\* A request is under way because it has just been made, or was before, or is repeated.
LEMMA UnderWay ==
    ASSUME Core, [Next]_vars, pc' = "sent"
    PROVE  \/ Send
           \/ pc \in {"sent", "between"} /\ UNCHANGED <<spec, results, steps, last, request>>
<1>1. CASE Skip \/ EndCaseHTTP \/ StartCaseHTTP \/ DockerStep \/ WaitStep \/ OtherStep
           \/ ExpectStep \/ AssertStep \/ PollCancelled \/ StreamEnds \/ ReaderTimesOut
  BY <1>1 DEF Skip, EndCaseHTTP, StartCaseHTTP, DockerStep, WaitStep, OtherStep, ExpectStep,
    AssertStep, PollCancelled, StreamEnds, ReaderTimesOut, EndStream, Judge, StepDone, Conclude,
    DockerRefuses, CreateContainer, ContainerStarts, ContainerStartFails, LegacyStep, EndCaseDocker
<1>2. CASE Deadline \/ PollAgain \/ RequestFails
  BY <1>2 DEF Deadline, PollAgain, RequestFails, StepDone
<1>3. ASSUME NEW wire \in Wires, Answered(wire) PROVE FALSE
  <2>1. pc' \in {"reading", "between", "step"}
    BY <1>3, Zenon DEF Answered, StepDone
  <2> QED BY <2>1
<1>4. ASSUME NEW e \in Events, EventArrives(e) PROVE FALSE
  <2>1. pc' = "reading"
    BY <1>4, Zenon DEF EventArrives
  <2> QED BY <2>1
<1>5. CASE StoreStep \/ StatementFails \/ Crash
  BY <1>5 DEF StoreStep, StatementFails, Crash, Rollback, NoProcess, SaveSpecRow, ClearCases,
    SaveCase, CommitSpec, EndRun, SaveRunRow, SaveResult, CaseRefused, CommitRun
<1>6. ASSUME NEW s \in Specs, OtherSaves(s) \/ \E c \in Configs : Run(s, c)
      PROVE  pc = "sent" /\ UNCHANGED <<spec, results, steps, last, request>>
  <2>1. CASE OtherSaves(s)
    BY <2>1, Zenon DEF OtherSaves, rvars
  <2>2. CASE \E c \in Configs : Run(s, c)
    BY <2>2 DEF Run
  <2> QED BY <1>6, <2>1, <2>2
<1>7. CASE UNCHANGED vars
  BY <1>7 DEF vars, rvars
<1> QED BY <1>1, <1>2, <1>3, <1>4, <1>5, <1>6, <1>7
  DEF Next, RunnerStep, Environment, HTTPStep, HTTPEnvironment

\* A tool call is not repeated, and while it is under way nobody makes another.
LEMMA CalledNext == Core /\ Types /\ Called /\ [Next]_vars => Called'
<1> SUFFICES ASSUME Core, Types, Called, [Next]_vars, pc' = "sent", Step'.action = "mcp_tool_call"
             PROVE  request' = translateMCPToolCall(Step'.tool, Arguments(Step)')
  BY DEF Called
<1>1. CASE Send
  <2>1. UNCHANGED <<spec, results, steps, last>>
    BY <1>1 DEF Send, StepDone
  <2>2. Step' = Step
    BY <2>1, SameStep
  <2>3. Arguments(Step)' = Arguments(Step)
    BY <2>1, <2>2, Zenon DEF Arguments
  <2>4. request' = translateMCPToolCall(Step.tool, Arguments(Step))
    BY <1>1, <2>2, Zenon DEF Send
  <2> QED BY <2>2, <2>3, <2>4, Zenon
<1>2. CASE pc \in {"sent", "between"} /\ UNCHANGED <<spec, results, steps, last, request>>
  <2>1. Step' = Step
    BY <1>2, SameStep
  <2>2. pc = "sent"
    BY <1>2, <2>1 DEF Types, Attempts, Polling, Poll
  <2>3. request = translateMCPToolCall(Step.tool, Arguments(Step))
    BY <2>1, <2>2, Zenon DEF Called
  <2>4. Arguments(Step)' = Arguments(Step)
    BY <1>2, <2>1, Zenon DEF Arguments
  <2> QED BY <1>2, <2>1, <2>3, <2>4, Zenon
<1> QED BY <1>1, <1>2, UnderWay

\* Each tool's request reaches the operation of the tool's name, about what the argument
\* names, for every spec and whatever is answered in between, as long as the argument is one
\* segment of a path (mcp_translator.go:22-201).
THEOREM ToolsReach == Spec => []ToolsReachTheirOperation
<1>1. Init => Called
  BY DEF Init, RunnerInit, Called
<1>2. Called => ToolsReachTheirOperation
  <2> SUFFICES ASSUME Called, pc = "sent", Step.action = "mcp_tool_call", Step.tool \in Tools
               PROVE  ToolsReachTheirOperation
    BY DEF ToolsReachTheirOperation
  <2>1. PICK args : args = Arguments(Step)
    OBVIOUS
  <2>2. request = translateMCPToolCall(Step.tool, args)
    BY <2>1 DEF Called
  <2>3. PICK param : param = mcpToolRoutes[Step.tool].param
    OBVIOUS
  <2>4. param = RouteOf(Step.tool).param
    BY <2>3, Zenon DEF RouteOf
  <2>5. param = NoParam => Outcomes(request) = {Does(Step.tool, <<>>)}
    BY <2>2, <2>3, CollectionsLead
  <2>6. param \in DOMAIN args /\ param # NoParam /\ Plain(args[param]) =>
          Outcomes(request) = {Does(Step.tool, <<args[param]>>)}
    BY <2>2, <2>3, MembersLead
  <2> QED BY <2>1, <2>4, <2>5, <2>6, Zenon DEF ToolsReachTheirOperation
<1> QED BY CoreInit, CoreNext, TypesInit, TypesNext, <1>1, CalledNext, <1>2, PTL DEF Spec

-----------------------------------------------------------------------------
\* What a pattern means.  A value is finite: whatever is claimed of it may be
\* claimed of its parts first, which are less deep.

\* A set of numbers that is not empty has a least one.
LEMMA Least ==
    ASSUME NEW S \in SUBSET Nat, S # {}
    PROVE  \E m \in S : \A k \in S : m <= k
<1>1. PICK R : R = OpToRel(<, Nat)
  OBVIOUS
<1>2. IsWellFoundedOn(R, Nat)
  BY <1>1, NatLessThanWellFounded
<1>3. PICK m \in S : \A k \in S : <<k, m>> \notin R
  BY <1>2, WFMin
<1>4. \A k \in S : ~(k < m)
  BY <1>1, <1>3 DEF OpToRel
<1> QED BY <1>4

\* The part of a value under a key, or Nil.
Part(v, k) == IF Has(v, k) THEN v.kids[k] ELSE Nil

\* w[i] is where the first i keys of p lead from v.
Along(w, v, p, n) == w = [i \in 0..n |-> IF i = 0 THEN v ELSE Part(w[i - 1], p[i])]

\* Keys lead somewhere.
LEMMA SomeWalk ==
    ASSUME NEW v, NEW p, NEW n \in Nat
    PROVE  \E w : Along(w, v, p, n)
<1> DEFINE S == {m \in Nat : ~\E w : Along(w, v, p, m)}
<1>1. SUFFICES ASSUME S # {} PROVE FALSE
  OBVIOUS
<1>2. PICK m \in S : \A k \in S : m <= k
  BY <1>1, Least
<1>3. CASE m = 0
  <2>1. PICK w : w = [i \in 0..m |-> v]
    OBVIOUS
  <2>2. Along(w, v, p, m)
    BY <2>1, <1>3 DEF Along
  <2> QED BY <2>2
<1>4. CASE m # 0
  <2>1. m - 1 \in Nat /\ m - 1 \notin S
    BY <1>2, <1>4
  <2>2. PICK u : Along(u, v, p, m - 1)
    BY <2>1
  <2>3. PICK w : w = [i \in 0..m |-> IF i = m THEN Part(u[m - 1], p[m]) ELSE u[i]]
    OBVIOUS
  <2>4. \A i \in 0..(m - 1) : w[i] = u[i] /\ u[i] = IF i = 0 THEN v ELSE Part(u[i - 1], p[i])
    BY <2>1, <2>2, <2>3 DEF Along
  <2>5. ASSUME NEW i \in 0..m
        PROVE  w[i] = IF i = 0 THEN v ELSE Part(w[i - 1], p[i])
    <3>1. CASE i = m
      <4>1. w[m] = Part(u[m - 1], p[m])
        BY <2>3
      <4>2. w[m - 1] = u[m - 1]
        BY <1>4, <2>1, <2>4
      <4> QED BY <3>1, <4>1, <4>2, <1>4
    <3>2. CASE i \in 0..(m - 1) /\ i # 0
      <4>1. i - 1 \in 0..(m - 1)
        BY <3>2, <2>1
      <4> QED BY <3>2, <4>1, <2>4
    <3>3. CASE i = 0
      BY <3>3, <1>4, <2>1, <2>4
    <3> QED BY <3>1, <3>2, <3>3, <2>1
  <2>6. Along(w, v, p, m)
    BY <2>3, <2>5 DEF Along
  <2> QED BY <2>6
<1> QED BY <1>3, <1>4

\* They lead to one place only.
LEMMA OneWalk ==
    ASSUME NEW v, NEW p, NEW n \in Nat, NEW u, NEW w, Along(u, v, p, n), Along(w, v, p, n)
    PROVE  u = w
<1> DEFINE S == {i \in 0..n : u[i] # w[i]}
<1>0. /\ u = [i \in 0..n |-> u[i]] /\ w = [i \in 0..n |-> w[i]]
      /\ \A i \in 0..n : u[i] = IF i = 0 THEN v ELSE Part(u[i - 1], p[i])
      /\ \A i \in 0..n : w[i] = IF i = 0 THEN v ELSE Part(w[i - 1], p[i])
  BY DEF Along
<1>1. CASE S # {}
  <2>0. S \in SUBSET Nat
    OBVIOUS
  <2>1. PICK m \in S : \A k \in S : m <= k
    BY <1>1, <2>0, Least
  <2>2. m # 0
    BY <1>0, <2>1
  <2>3. m - 1 \in 0..n /\ m - 1 \notin S
    BY <2>1, <2>2
  <2>4. u[m] = w[m]
    BY <1>0, <2>2, <2>3
  <2> QED BY <2>1, <2>4
<1>2. CASE S = {}
  BY <1>0, <1>2
<1> QED BY <1>1, <1>2

\* A path leads where its last key leads.
LEMMA WalkIs ==
    ASSUME NEW v, NEW p, Len(p) \in Nat, NEW w, Along(w, v, p, Len(p))
    PROVE  resolveJSONPath(v, p) = w[Len(p)]
<1> DEFINE at == CHOOSE u : Along(u, v, p, Len(p))
<1>1. Along(at, v, p, Len(p))
  OBVIOUS
<1>2. at = w
  BY <1>1, OneWalk
<1>3. resolveJSONPath(v, p) = at[Len(p)]
  BY DEF resolveJSONPath, Along, Part
<1> QED BY <1>2, <1>3

\* The keys there are.
Keys == UNION {DOMAIN v.kids : v \in Json}

\* A key before others.
LEMMA Longer ==
    ASSUME NEW k \in Keys, NEW q \in Seq(Keys), NEW p, p = <<k>> \o q
    PROVE  /\ p \in Seq(Keys) /\ Len(q) \in Nat /\ Len(p) = Len(q) + 1
           /\ p[1] = k /\ \A i \in 1..Len(q) : p[i + 1] = q[i]
<1>0. PICK one : one = <<k>>
  OBVIOUS
<1>1. one \in Seq(Keys) /\ Len(one) = 1 /\ one[1] = k
  BY <1>0
<1>2. /\ p \in Seq(Keys) /\ Len(p) = Len(one) + Len(q)
      /\ \A i \in 1..Len(p) : p[i] = IF i <= Len(one) THEN one[i] ELSE q[i - Len(one)]
  BY <1>0, <1>1, ConcatProperties
<1>3. Len(q) \in Nat
  OBVIOUS
<1>4. p[1] = k
  BY <1>1, <1>2, <1>3
<1>5. ASSUME NEW i \in 1..Len(q) PROVE p[i + 1] = q[i]
  <2>1. i + 1 \in 1..Len(p) /\ ~(i + 1 <= Len(one)) /\ (i + 1) - Len(one) = i
    BY <1>1, <1>2, <1>3
  <2> QED BY <2>1, <1>2
<1> QED BY <1>1, <1>2, <1>3, <1>4, <1>5

\* A path is empty, or a key before another path.
LEMMA Shorter ==
    ASSUME NEW p \in Seq(Keys), p # <<>>
    PROVE  \E k \in Keys, q \in Seq(Keys) : p = <<k>> \o q
<1>1. PICK k \in Keys : k = p[1]
  OBVIOUS
<1>0. PICK q : q = Tail(p)
  OBVIOUS
<1>2. q \in Seq(Keys) /\ q = Tail(p)
  BY <1>0
<1>3. PICK s : s = <<k>> \o q
  OBVIOUS
<1>4. /\ s \in Seq(Keys) /\ Len(s) = Len(q) + 1 /\ s[1] = k
      /\ \A i \in 1..Len(q) : s[i + 1] = q[i]
  BY <1>2, <1>3, Longer
<1>5. Len(p) = Len(q) + 1 /\ \A i \in 1..Len(q) : q[i] = p[i + 1]
  BY <1>2
<1>6. Len(q) \in Nat
  BY <1>2
<1>7. ASSUME NEW i \in 1..Len(p) PROVE s[i] = p[i]
  <2>1. CASE i = 1
    BY <2>1, <1>1, <1>4
  <2>2. CASE i # 1
    <3>1. PICK j \in 1..Len(q) : i = j + 1
      BY <2>2, <1>5, <1>6
    <3> QED BY <3>1, <1>4, <1>5
  <2> QED BY <2>1, <2>2
<1>8. s = p
  BY <1>4, <1>5, <1>7, SeqEqual
<1> QED BY <1>2, <1>3, <1>8

\* p is the key k and then the path q.
Begins(p, k, q) ==
    /\ Len(q) \in Nat /\ Len(p) = Len(q) + 1
    /\ p[1] = k /\ \A i \in 1..Len(q) : p[i + 1] = q[i]

\* The walk u, begun one step earlier.
After(v, u, n) == [i \in 0..n |-> IF i = 0 THEN v ELSE u[i - 1]]

\* Where a path leads from v is where the rest of it leads from the part of v.
LEMMA AfterKey ==
    ASSUME NEW v, NEW k, NEW q, NEW p, Begins(p, k, q),
           NEW u, Along(u, Part(v, k), q, Len(q)),
           NEW w, w = After(v, u, Len(p))
    PROVE  /\ Along(w, v, p, Len(p))
           /\ w[0] = v /\ \A i \in 0..Len(q) : w[i + 1] = u[i]
<1>1. /\ Len(q) \in Nat /\ Len(p) = Len(q) + 1
      /\ p[1] = k /\ \A i \in 1..Len(q) : p[i + 1] = q[i]
  BY DEF Begins
<1>3. w[0] = v /\ \A i \in 0..Len(q) : w[i + 1] = u[i]
  BY <1>1 DEF After
<1>4. \A i \in 0..Len(q) : u[i] = IF i = 0 THEN Part(v, k) ELSE Part(u[i - 1], q[i])
  BY DEF Along
<1>5. ASSUME NEW i \in 0..Len(p)
      PROVE  w[i] = IF i = 0 THEN v ELSE Part(w[i - 1], p[i])
  <2>1. CASE i = 0
    BY <2>1, <1>3
  <2>2. CASE i = 1
    <3>1. w[1] = u[0] /\ u[0] = Part(v, k)
      BY <1>1, <1>3, <1>4
    <3> QED BY <3>1, <2>2, <1>1, <1>3
  <2>3. CASE i > 1
    <3>0. PICK j : j = i - 1
      OBVIOUS
    <3>1. j \in 1..Len(q) /\ i = j + 1 /\ i - 1 = j
      BY <2>3, <3>0, <1>1
    <3>2. w[j + 1] = u[j] /\ u[j] = Part(u[j - 1], q[j]) /\ p[j + 1] = q[j]
      BY <3>1, <1>1, <1>3, <1>4
    <3>3. w[j] = u[j - 1]
      <4>1. j - 1 \in 0..Len(q) /\ (j - 1) + 1 = j
        BY <3>1, <1>1
      <4> QED BY <4>1, <1>3
    <3> QED BY <3>1, <3>2, <3>3
  <2> QED BY <2>1, <2>2, <2>3, <1>1
<1>6. Along(w, v, p, Len(p))
  BY <1>5 DEF Along, After
<1> QED BY <1>3, <1>6

\* A path reaches its end when each of its keys is there.
LEMMA ReachesAlong ==
    ASSUME NEW v, NEW p \in Seq(Keys), NEW w, Along(w, v, p, Len(p))
    PROVE  Reaches(v, p) <=> \A n \in 1..Len(p) : Has(w[n - 1], p[n])
<1>0. Len(p) \in Nat
  OBVIOUS
<1>1. ASSUME NEW n \in 1..Len(p)
      PROVE  resolveJSONPath(v, SubSeq(p, 1, n - 1)) = w[n - 1]
  <2>1. PICK m \in Nat : m = n - 1
    BY <1>0
  <2>2. PICK b : b = SubSeq(p, 1, m)
    OBVIOUS
  <2>3. Len(b) = m /\ \A i \in 1..m : b[i] = p[i]
    <3>1. 1 \in 1..(Len(p) + 1) /\ m \in 0..Len(p)
      BY <2>1, <1>0
    <3>2. \A i \in 1..m : p[i] \in Keys
      BY <3>1, <1>0
    <3>3. Len(b) = IF 1 <= m THEN m - 1 + 1 ELSE 0
      BY <2>2, <3>2, SubSeqProperties
    <3>4. \A i \in 1..(m - 1 + 1) : b[i] = p[1 + i - 1]
      BY <2>2, <3>2, SubSeqProperties
    <3> QED BY <3>3, <3>4
  <2>4. PICK u : u = [i \in 0..m |-> w[i]]
    OBVIOUS
  <2>5. \A i \in 0..Len(p) : w[i] = IF i = 0 THEN v ELSE Part(w[i - 1], p[i])
    BY DEF Along
  <2>6. ASSUME NEW i \in 0..m
        PROVE  u[i] = IF i = 0 THEN v ELSE Part(u[i - 1], b[i])
    <3>1. CASE i = 0
      BY <3>1, <2>4, <2>5, <1>0
    <3>2. CASE i # 0
      <4>1. i \in 1..m /\ i - 1 \in 0..m /\ i \in 0..Len(p)
        BY <3>2, <2>1, <1>0
      <4> QED BY <3>2, <4>1, <2>3, <2>4, <2>5
    <3> QED BY <3>1, <3>2
  <2>7. Along(u, v, b, Len(b))
    BY <2>3, <2>4, <2>6 DEF Along
  <2>8. resolveJSONPath(v, b) = u[m]
    BY <2>3, <2>7, WalkIs
  <2>9. u[m] = w[m]
    BY <2>4
  <2> QED BY <2>1, <2>2, <2>8, <2>9
<1> QED BY <1>1 DEF Reaches

\* A path that begins with a key: what it reaches, and where it leads.
LEMMA KeyFirst ==
    ASSUME NEW v, NEW k \in Keys, NEW q \in Seq(Keys)
    PROVE  /\ Reaches(v, <<k>> \o q) <=> Has(v, k) /\ Reaches(v.kids[k], q)
           /\ Has(v, k) => resolveJSONPath(v, <<k>> \o q) = resolveJSONPath(v.kids[k], q)
<1>1. PICK p : p = <<k>> \o q
  OBVIOUS
<1>2. /\ p \in Seq(Keys) /\ Len(q) \in Nat /\ Len(p) = Len(q) + 1
      /\ p[1] = k /\ \A i \in 1..Len(q) : p[i + 1] = q[i]
  BY <1>1, Longer
<1>3. PICK u : Along(u, Part(v, k), q, Len(q))
  BY <1>2, SomeWalk
<1>12. PICK w : w = After(v, u, Len(p))
  OBVIOUS
<1>4. /\ Along(w, v, p, Len(p))
      /\ w[0] = v /\ \A i \in 0..Len(q) : w[i + 1] = u[i]
  <2>1. Begins(p, k, q)
    BY <1>2 DEF Begins
  <2> QED BY <1>3, <1>12, <2>1, AfterKey
<1>5. Reaches(v, p) <=> \A n \in 1..Len(p) : Has(w[n - 1], p[n])
  BY <1>2, <1>4, ReachesAlong
<1>6. Reaches(Part(v, k), q) <=> \A n \in 1..Len(q) : Has(u[n - 1], q[n])
  BY <1>3, ReachesAlong
<1>7. ASSUME NEW n \in 1..Len(q)
      PROVE  Has(w[n], p[n + 1]) <=> Has(u[n - 1], q[n])
  <2>1. PICK i \in 0..Len(q) : i = n - 1
    BY <1>2
  <2>2. i + 1 = n
    BY <2>1
  <2>3. w[n] = u[i]
    BY <2>2, <1>4
  <2> QED BY <2>1, <2>3, <1>2
<1>8. (\A n \in 1..Len(p) : Has(w[n - 1], p[n]))
        <=> Has(v, k) /\ \A n \in 1..Len(q) : Has(w[n], p[n + 1])
  <2>1. ASSUME \A n \in 1..Len(p) : Has(w[n - 1], p[n])
        PROVE  Has(v, k) /\ \A n \in 1..Len(q) : Has(w[n], p[n + 1])
    <3>1. Has(w[0], p[1])
      <4>1. 1 \in 1..Len(p) /\ 1 - 1 = 0
        BY <1>2
      <4> QED BY <4>1, <2>1
    <3>2. ASSUME NEW n \in 1..Len(q) PROVE Has(w[n], p[n + 1])
      <4>1. n + 1 \in 1..Len(p) /\ (n + 1) - 1 = n
        BY <1>2
      <4> QED BY <4>1, <2>1
    <3> QED BY <3>1, <3>2, <1>2, <1>4
  <2>2. ASSUME Has(v, k), \A n \in 1..Len(q) : Has(w[n], p[n + 1]), NEW n \in 1..Len(p)
        PROVE  Has(w[n - 1], p[n])
    <3>1. CASE n = 1
      <4>1. n - 1 = 0
        BY <3>1
      <4> QED BY <3>1, <4>1, <2>2, <1>2, <1>4
    <3>2. CASE n # 1
      <4>1. PICK j \in 1..Len(q) : n = j + 1
        BY <3>2, <1>2
      <4>2. n - 1 = j
        BY <4>1
      <4> QED BY <4>1, <4>2, <2>2
    <3> QED BY <3>1, <3>2
  <2> QED BY <2>1, <2>2
<1>9. Reaches(v, p) <=> Has(v, k) /\ Reaches(Part(v, k), q)
  BY <1>5, <1>6, <1>7, <1>8
<1>10. resolveJSONPath(v, p) = w[Len(p)] /\ resolveJSONPath(Part(v, k), q) = u[Len(q)]
  BY <1>2, <1>3, <1>4, WalkIs
<1>11. w[Len(p)] = u[Len(q)]
  BY <1>2, <1>4
<1> QED BY <1>1, <1>9, <1>10, <1>11 DEF Part

\* The empty path leads nowhere else.
LEMMA NoKey ==
    ASSUME NEW v
    PROVE  Reaches(v, <<>>) /\ resolveJSONPath(v, <<>>) = v
<1>0. PICK p : p = <<>>
  OBVIOUS
<1>1. p = <<>> /\ p \in Seq(Keys) /\ Len(p) = 0
  BY <1>0
<1>2. PICK w : Along(w, v, p, Len(p))
  BY <1>1, SomeWalk
<1>3. Reaches(v, p)
  <2>1. \A n \in 1..Len(p) : FALSE
    BY <1>1
  <2> QED BY <1>1, <1>2, <2>1, ReachesAlong
<1>4. resolveJSONPath(v, p) = w[0] /\ w[0] = v
  BY <1>1, <1>2, WalkIs DEF Along
<1> QED BY <1>1, <1>3, <1>4

\* The paths of v that reach their end.
Reached(v) == {p \in Seq(Keys) : Reaches(v, p)}

\* The paths of v, by those of its parts.
PathsBy(f, v) == {<<>>} \union UNION {{<<k>> \o p : p \in f[v.kids[k]]} : k \in DOMAIN v.kids}

\* The parts of a value are less deep, and their keys are keys.
LEMMA Parts ==
    ASSUME NEW v \in Json
    PROVE  /\ Depth[v] \in Nat
           /\ \A k \in DOMAIN v.kids :
                 k \in Keys /\ v.kids[k] \in Json /\ Depth[v.kids[k]] \in Nat /\ Depth[v.kids[k]] < Depth[v]
BY ValuesAssumption DEF Keys

\* A claim about values that fails of one fails of one of whose parts it holds.
LEMMA Shallowest ==
    ASSUME NEW S \in SUBSET Json, S # {}
    PROVE  \E v \in S : \A k \in DOMAIN v.kids : v.kids[k] \in Json \ S
<1> DEFINE D == {Depth[v] : v \in S}
<1>1. D \in SUBSET Nat /\ D # {}
  BY Parts
<1>2. PICK d \in D : \A e \in D : d <= e
  BY <1>1, Least
<1>3. PICK v \in S : Depth[v] = d
  BY <1>2
<1>4. ASSUME NEW k \in DOMAIN v.kids
      PROVE  v.kids[k] \in Json \ S
  <2>1. v.kids[k] \in Json /\ Depth[v.kids[k]] \in Nat /\ Depth[v.kids[k]] < d /\ d \in Nat
    BY <1>1, <1>3, Parts
  <2>2. ~(d <= Depth[v.kids[k]])
    BY <2>1
  <2> QED BY <2>1, <2>2, <1>2
<1> QED BY <1>4

\* What is reached is nothing, or goes on from a part.
LEMMA ReachedBy ==
    ASSUME NEW f, NEW v \in Json, \A k \in DOMAIN v.kids : f[v.kids[k]] = Reached(v.kids[k])
    PROVE  PathsBy(f, v) = Reached(v)
<1>0. \A p : p \in PathsBy(f, v) <=>
             p = <<>> \/ \E k \in DOMAIN v.kids : \E q \in f[v.kids[k]] : p = <<k>> \o q
  <2> DEFINE Onward(k) == {<<k>> \o q : q \in f[v.kids[k]]}
             F == {Onward(k) : k \in DOMAIN v.kids}
  <2>1. \A k, p : p \in Onward(k) <=> \E q \in f[v.kids[k]] : p = <<k>> \o q
    BY Zenon
  <2>2. PathsBy(f, v) = {<<>>} \union UNION F
    BY Zenon DEF PathsBy
  <2> HIDE DEF Onward
  <2>3. \A s : s \in F <=> \E k \in DOMAIN v.kids : s = Onward(k)
    BY Zenon
  <2> HIDE DEF F
  <2>4. \A p : p \in PathsBy(f, v) <=> p = <<>> \/ \E s \in F : p \in s
    BY <2>2
  <2>5. \A p : (\E s \in F : p \in s) <=> \E k \in DOMAIN v.kids : p \in Onward(k)
    BY <2>3
  <2> TAKE p
  <2>6. p \in PathsBy(f, v) <=> p = <<>> \/ \E k \in DOMAIN v.kids : p \in Onward(k)
    BY <2>4, <2>5
  <2>7. ASSUME NEW k PROVE p \in Onward(k) <=> \E q \in f[v.kids[k]] : p = <<k>> \o q
    BY <2>1
  <2> QED BY <2>6, <2>7, Zenon
<1>1. ASSUME NEW p \in PathsBy(f, v)
      PROVE  p \in Reached(v)
  <2>1. CASE p = <<>>
    <3>1. p \in Seq(Keys)
      BY <2>1
    <3> QED BY <2>1, <3>1, NoKey DEF Reached
  <2>2. CASE \E k \in DOMAIN v.kids : \E q \in f[v.kids[k]] : p = <<k>> \o q
    <3>0. PICK k \in DOMAIN v.kids : \E q \in f[v.kids[k]] : p = <<k>> \o q
      BY <2>2
    <3>1. PICK q \in f[v.kids[k]] : p = <<k>> \o q
      BY <3>0
    <3>2. k \in Keys /\ q \in Seq(Keys) /\ Reaches(v.kids[k], q)
      BY Parts DEF Reached
    <3>3. p \in Seq(Keys)
      BY <3>1, <3>2, Longer
    <3>4. Reaches(v, p)
      BY <3>1, <3>2, KeyFirst DEF Has
    <3> QED BY <3>3, <3>4 DEF Reached
  <2> QED BY <2>1, <2>2, <1>0, Zenon
<1>2. ASSUME NEW p \in Reached(v)
      PROVE  p \in PathsBy(f, v)
  <2>1. p \in Seq(Keys) /\ Reaches(v, p)
    BY DEF Reached
  <2>2. CASE p # <<>>
    <3>1. PICK k \in Keys, q \in Seq(Keys) : p = <<k>> \o q
      BY <2>1, <2>2, Shorter
    <3>2. k \in DOMAIN v.kids /\ Reaches(v.kids[k], q)
      BY <2>1, <3>1, KeyFirst DEF Has
    <3>3. q \in f[v.kids[k]]
      <4>1. q \in Reached(v.kids[k])
        BY <3>2 DEF Reached
      <4> QED BY <4>1, <3>2
    <3> QED BY <3>1, <3>2, <3>3, <1>0, Zenon
  <2> QED BY <2>2, <1>0, Zenon
<1> QED BY <1>1, <1>2

\* The paths of a value are those that reach their end.
LEMMA PathsReach ==
    ASSUME NEW v \in Json
    PROVE  Paths[v] = Reached(v)
<1>1. PICK f : f = [u \in Json |-> Reached(u)]
  OBVIOUS
<1>2. ASSUME NEW u \in Json PROVE Reached(u) = PathsBy(f, u)
  <2>1. \A k \in DOMAIN u.kids : f[u.kids[k]] = Reached(u.kids[k])
    BY <1>1, Parts
  <2> QED BY <2>1, ReachedBy
<1>3. f = [u \in Json |-> PathsBy(f, u)]
  BY <1>1, <1>2
<1>4. Paths = CHOOSE g : g = [u \in Json |-> PathsBy(g, u)]
  BY DEF Paths, PathsBy
<1>5. Paths = [u \in Json |-> PathsBy(Paths, u)]
  BY <1>3, <1>4
<1>6. \A u \in Json : Paths[u] = PathsBy(Paths, u)
  BY <1>5
<1> DEFINE S == {u \in Json : Paths[u] # Reached(u)}
<1>7. CASE S # {}
  <2>1. PICK u \in S : \A k \in DOMAIN u.kids : u.kids[k] \in Json \ S
    BY <1>7, Shallowest
  <2>2. \A k \in DOMAIN u.kids : Paths[u.kids[k]] = Reached(u.kids[k])
    BY <2>1
  <2>3. Paths[u] = Reached(u)
    BY <1>6, <2>2, ReachedBy
  <2> QED BY <2>1, <2>3
<1> QED BY <1>7

\* What a pattern says of a value as a whole.
AsWhole(want, got) ==
    /\ want.kind # "string" => got.kind = want.kind
    /\ want.kind = "string" => want.text \in {"*", got.text}
    /\ want.kind \notin {"map", "array", "string"} => got.text = want.text

\* A pattern describes a value when it does as a whole, and part by part.
LEMMA DescribesParts ==
    ASSUME NEW e \in Json, NEW a
    PROVE  Describes(e, a) <=>
             AsWhole(e, a) /\ \A k \in DOMAIN e.kids : Has(a, k) /\ Describes(e.kids[k], a.kids[k])
<1> DEFINE Fits(d, b, p) == Reaches(b, p) /\ AsWhole(resolveJSONPath(d, p), resolveJSONPath(b, p))
<1>1. \A d \in Json : \A b : Describes(d, b) <=> \A p \in Reached(d) : Fits(d, b, p)
  BY PathsReach DEF Describes, AsWhole
<1>2. ASSUME NEW p, p = <<>> PROVE p \in Reached(e) /\ (Fits(e, a, p) <=> AsWhole(e, a))
  <2>1. p \in Seq(Keys)
    BY <1>2
  <2> QED BY <1>2, <2>1, NoKey DEF Reached
<1>3. ASSUME NEW k \in DOMAIN e.kids, NEW q \in Seq(Keys), NEW p, p = <<k>> \o q
      PROVE  /\ p \in Reached(e) <=> q \in Reached(e.kids[k])
             /\ Fits(e, a, p) <=> Has(a, k) /\ Fits(e.kids[k], a.kids[k], q)
  <2>1. k \in Keys /\ Has(e, k)
    BY Parts DEF Has
  <2>2. p \in Seq(Keys)
    BY <2>1, <1>3, Longer
  <2>3. p \in Reached(e) <=> q \in Reached(e.kids[k])
    BY <1>3, <2>1, <2>2, KeyFirst DEF Reached
  <2>4. /\ Reaches(a, p) <=> Has(a, k) /\ Reaches(a.kids[k], q)
        /\ Has(a, k) => resolveJSONPath(a, p) = resolveJSONPath(a.kids[k], q)
        /\ resolveJSONPath(e, p) = resolveJSONPath(e.kids[k], q)
    BY <1>3, <2>1, KeyFirst
  <2> QED BY <2>3, <2>4
<1>4. ASSUME Describes(e, a)
      PROVE  AsWhole(e, a) /\ \A k \in DOMAIN e.kids : Has(a, k) /\ Describes(e.kids[k], a.kids[k])
  <2>1. AsWhole(e, a)
    BY <1>1, <1>2, <1>4
  <2>2. ASSUME NEW k \in DOMAIN e.kids
        PROVE  Has(a, k) /\ Describes(e.kids[k], a.kids[k])
    <3>1. e.kids[k] \in Json
      BY Parts
    <3>2. ASSUME NEW q \in Reached(e.kids[k])
          PROVE  Has(a, k) /\ Fits(e.kids[k], a.kids[k], q)
      <4>1. PICK p : p = <<k>> \o q
        OBVIOUS
      <4>2. q \in Seq(Keys)
        BY DEF Reached
      <4>3. p \in Reached(e)
        BY <4>1, <4>2, <1>3
      <4>4. Fits(e, a, p)
        BY <4>3, <1>1, <1>4
      <4> QED BY <4>1, <4>2, <4>4, <1>3
    <3>3. PICK none : none = <<>>
      OBVIOUS
    <3>4. none \in Seq(Keys) /\ none \in Reached(e.kids[k])
      BY <3>3, NoKey DEF Reached
    <3>5. Has(a, k)
      BY <3>2, <3>4
    <3>6. Describes(e.kids[k], a.kids[k])
      BY <3>1, <3>2, <1>1
    <3> QED BY <3>5, <3>6
  <2> QED BY <2>1, <2>2
<1>5. ASSUME AsWhole(e, a), \A k \in DOMAIN e.kids : Has(a, k) /\ Describes(e.kids[k], a.kids[k]),
             NEW p \in Reached(e)
      PROVE  Fits(e, a, p)
  <2>1. CASE p = <<>>
    BY <2>1, <1>2, <1>5
  <2>2. CASE p # <<>>
    <3>1. p \in Seq(Keys) /\ Reaches(e, p)
      BY DEF Reached
    <3>2. PICK k \in Keys, q \in Seq(Keys) : p = <<k>> \o q
      BY <2>2, <3>1, Shorter
    <3>3. k \in DOMAIN e.kids
      BY <3>1, <3>2, KeyFirst DEF Has
    <3>4. e.kids[k] \in Json /\ q \in Reached(e.kids[k])
      BY <3>2, <3>3, <1>3, Parts
    <3>5. Has(a, k) /\ Fits(e.kids[k], a.kids[k], q)
      BY <3>3, <3>4, <1>1, <1>5
    <3> QED BY <3>2, <3>3, <3>5, <1>3
  <2> QED BY <2>1, <2>2
<1> QED BY <1>1, <1>4, <1>5

\* The comparison of a pattern with values, by that of its parts.
MatchBy(m, e) == [a \in Json |->
    \/ /\ e.kind \in {"map", "array"} /\ a.kind = e.kind
       /\ \A k \in DOMAIN e.kids : Has(a, k) /\ m[e.kids[k]][a.kids[k]]
    \/ e.kind = "string" /\ e.text \in {"*", a.text}
    \/ e.kind \notin {"map", "array", "string"} /\ e.kind = a.kind /\ e.text = a.text]

\* What a pattern describes.
DescribedBy(e) == [a \in Json |-> Describes(e, a)]

\* A pattern whose parts match what they describe does so itself.
LEMMA MatchByParts ==
    ASSUME NEW m, NEW e \in Json, \A k \in DOMAIN e.kids : m[e.kids[k]] = DescribedBy(e.kids[k])
    PROVE  MatchBy(m, e) = DescribedBy(e)
<1>1. ASSUME NEW a \in Json
      PROVE  MatchBy(m, e)[a] = Describes(e, a)
  <2>1. Describes(e, a) <=>
          AsWhole(e, a) /\ \A k \in DOMAIN e.kids : Has(a, k) /\ Describes(e.kids[k], a.kids[k])
    BY DescribesParts
  <2>2. e.kind \in {"map", "array"} \/ DOMAIN e.kids = {}
    BY ValuesAssumption
  <2>3. \A k \in DOMAIN e.kids : Has(a, k) => a.kids[k] \in Json
    BY Parts DEF Has
  <2>4. \A k \in DOMAIN e.kids :
          Has(a, k) => m[e.kids[k]][a.kids[k]] = Describes(e.kids[k], a.kids[k])
    BY <2>3 DEF DescribedBy
  <2>5. (\A k \in DOMAIN e.kids : Has(a, k) /\ m[e.kids[k]][a.kids[k]])
          <=> \A k \in DOMAIN e.kids : Has(a, k) /\ Describes(e.kids[k], a.kids[k])
    BY <2>4
  <2> DEFINE P == \A k \in DOMAIN e.kids : Has(a, k) /\ m[e.kids[k]][a.kids[k]]
  <2>6. MatchBy(m, e)[a] =
          (\/ e.kind \in {"map", "array"} /\ a.kind = e.kind /\ P
           \/ e.kind = "string" /\ e.text \in {"*", a.text}
           \/ e.kind \notin {"map", "array", "string"} /\ e.kind = a.kind /\ e.text = a.text)
    BY DEF MatchBy
  <2>7. DOMAIN e.kids = {} => P
    OBVIOUS
  <2>8. P <=> \A k \in DOMAIN e.kids : Has(a, k) /\ Describes(e.kids[k], a.kids[k])
    BY <2>5
  <2> HIDE DEF P
  <2>9. MatchBy(m, e)[a] = (AsWhole(e, a) /\ P)
    BY <2>2, <2>6, <2>7 DEF AsWhole
  <2>10. (AsWhole(e, a) /\ P) = Describes(e, a)
    <3>1. (AsWhole(e, a) /\ P) <=> Describes(e, a)
      BY <2>1, <2>8
    <3>2. Describes(e, a) \in BOOLEAN
      BY DEF Describes
    <3> QED BY <3>1, <3>2
  <2> QED BY <2>9, <2>10
<1> QED BY <1>1 DEF MatchBy, DescribedBy

\* The partial match is what it is said to be: a pattern matches what it describes.
LEMMA MatchDescribes ==
    ASSUME NEW e \in Json, NEW a \in Json
    PROVE  Match(e, a) <=> Describes(e, a)
<1>1. PICK d : d = [u \in Json |-> DescribedBy(u)]
  OBVIOUS
<1>2. ASSUME NEW u \in Json PROVE DescribedBy(u) = MatchBy(d, u)
  <2>1. \A k \in DOMAIN u.kids : d[u.kids[k]] = DescribedBy(u.kids[k])
    BY <1>1, Parts
  <2> QED BY <2>1, MatchByParts
<1>3. d = [u \in Json |-> MatchBy(d, u)]
  BY <1>1, <1>2
<1>4. matchValues = CHOOSE g : g = [u \in Json |-> MatchBy(g, u)]
  BY DEF matchValues, MatchBy
<1>5. matchValues = [u \in Json |-> MatchBy(matchValues, u)]
  BY <1>3, <1>4
<1>6. \A u \in Json : matchValues[u] = MatchBy(matchValues, u)
  BY <1>5
<1> DEFINE S == {u \in Json : matchValues[u] # DescribedBy(u)}
<1>7. CASE S # {}
  <2>1. PICK u \in S : \A k \in DOMAIN u.kids : u.kids[k] \in Json \ S
    BY <1>7, Shallowest
  <2>2. \A k \in DOMAIN u.kids : matchValues[u.kids[k]] = DescribedBy(u.kids[k])
    BY <2>1
  <2>3. matchValues[u] = DescribedBy(u)
    BY <1>6, <2>2, MatchByParts
  <2> QED BY <2>1, <2>3
<1>8. CASE S = {}
  <2>1. matchValues[e] = DescribedBy(e)
    BY <1>8
  <2> QED BY <2>1 DEF Match, DescribedBy
<1> QED BY <1>7, <1>8

-----------------------------------------------------------------------------
\* What a step that expects is given to judge.

\* The parts of a response are values, and what is no text was sent as some.
Read(r) ==
    /\ r.status # "0"
    /\ r.body # Nil => r.body \in Json /\ r.raw
    /\ r.array # Nil => r.raw
    /\ r.rpc # Nil => r.rpc \in Json /\ r.rpc.kind = "map"
    /\ IsSeq(r.events) /\ \A i \in DOMAIN r.events : r.events[i] \in Json

Expectable(e) == e \in Json /\ e.kind \in {"map", "null"}

\* The keys of which each is checked by itself.
OwnKeys == {"http_status", "headers", "body", "sse_event"}
CheckOf(k, want, r) ==
    CASE k = "http_status" -> toInt(want) = r.status
      [] k = "headers" -> HeadersMatch(r, want)
      [] k = "body" -> BodyMatches(r, want)
      [] k = "sse_event" -> EventMatches(r, want)

\* What a key of an expectation means is what is checked for it.
LEMMA KeysHold ==
    ASSUME NEW r, Read(r), NEW e, Expectable(e)
    PROVE  /\ \A k \in OwnKeys :
                 Has(e, k) => (Holds(k, e.kids[k], r) <=> CheckOf(k, e.kids[k], r))
           /\ \A k \in DOMAIN e.kids \ OwnKeys :
                 r.rpc # Nil => (Holds(k, e.kids[k], r) <=>
                                   Has(r.rpc, k) /\ Match(e.kids[k], r.rpc.kids[k]))
<1>0. \A k \in DOMAIN e.kids : e.kids[k] \in Json
  BY Parts DEF Expectable
<1>1. ASSUME Has(e, "http_status")
      PROVE  Holds("http_status", e.kids["http_status"], r) <=> toInt(e.kids["http_status"]) = r.status
  BY DEF Holds, toInt, Read
<1>2. ASSUME Has(e, "headers")
      PROVE  Holds("headers", e.kids["headers"], r) <=> HeadersMatch(r, e.kids["headers"])
  <2>1. PICK want : want = e.kids["headers"]
    OBVIOUS
  <2>2. Holds("headers", want, r) <=>
          /\ want.kind = "map"
          /\ \A h \in DOMAIN want.kids :
                h \in DOMAIN r.headers /\ want.kids[h].text \in r.headers[h] \union {"*"}
    BY DEF Holds
  <2>3. HeadersMatch(r, want) <=>
          /\ want.kind = "map"
          /\ \A h \in DOMAIN want.kids :
                h \in DOMAIN r.headers /\ want.kids[h].text \in r.headers[h] \union {"*"}
    BY DEF HeadersMatch
  <2> QED BY <2>1, <2>2, <2>3
<1>3. ASSUME Has(e, "body")
      PROVE  Holds("body", e.kids["body"], r) <=> BodyMatches(r, e.kids["body"])
  <2>1. PICK want : want = e.kids["body"] /\ want \in Json
    BY <1>0, <1>3 DEF Has
  <2>2. r.body # Nil => (Match(want, r.body) <=> Describes(want, r.body))
    BY <2>1, MatchDescribes DEF Read
  <2>3. Holds("body", want, r) <=>
          \/ Anything(want) /\ r.raw
          \/ want.kind = "map" /\ r.body # Nil /\ Describes(want, r.body)
    BY DEF Holds
  <2>4. r.raw <=> r.body # Nil \/ r.array # Nil \/ r.raw
    BY DEF Read
  <2> QED BY <2>1, <2>2, <2>3, <2>4 DEF BodyMatches, Anything
<1>4. ASSUME Has(e, "sse_event")
      PROVE  Holds("sse_event", e.kids["sse_event"], r) <=> EventMatches(r, e.kids["sse_event"])
  <2>1. PICK want : want = e.kids["sse_event"] /\ want \in Json
    BY <1>0, <1>4 DEF Has
  <2>2. \A i \in DOMAIN r.events : Match(want, r.events[i]) <=> Describes(want, r.events[i])
    BY <2>1, MatchDescribes DEF Read
  <2>3. Holds("sse_event", want, r) <=>
          \E i \in DOMAIN r.events :
             \/ Anything(want)
             \/ want.kind = "map" /\ Describes(want, r.events[i])
    BY DEF Holds
  <2>4. r.events = <<>> <=> DOMAIN r.events = {}
    <3>1. PICK list : list = r.events /\ IsSeq(list)
      BY DEF Read
    <3>2. Len(list) \in Nat /\ DOMAIN list = 1..Len(list) /\ (Len(list) = 0 => list = <<>>)
      BY <3>1, Nothing
    <3>3. list = <<>> => Len(list) = 0
      BY Nothing
    <3>4. DOMAIN list = {} <=> Len(list) = 0
      BY <3>2
    <3> QED BY <3>1, <3>2, <3>3, <3>4
  <2>5. EventMatches(r, want) <=>
          /\ r.events # <<>>
          /\ \/ Anything(want)
             \/ want.kind = "map" /\ \E i \in DOMAIN r.events : Match(want, r.events[i])
    BY DEF EventMatches, Anything
  <2> QED BY <2>1, <2>2, <2>3, <2>4, <2>5
<1>5. ASSUME NEW k \in DOMAIN e.kids \ OwnKeys, r.rpc # Nil
      PROVE  Holds(k, e.kids[k], r) <=> Has(r.rpc, k) /\ Match(e.kids[k], r.rpc.kids[k])
  <2>1. r.rpc \in Json /\ e.kids[k] \in Json
    BY <1>0, <1>5 DEF Read
  <2>2. Has(r.rpc, k) => (Match(e.kids[k], r.rpc.kids[k]) <=> Describes(e.kids[k], r.rpc.kids[k]))
    BY <2>1, MatchDescribes, Parts DEF Has
  <2>3. Holds(k, e.kids[k], r) <=> Has(r.rpc, k) /\ Describes(e.kids[k], r.rpc.kids[k])
    BY <1>5 DEF Holds, OwnKeys
  <2> QED BY <2>2, <2>3
<1>6. ASSUME NEW k \in OwnKeys, Has(e, k)
      PROVE  Holds(k, e.kids[k], r) <=> CheckOf(k, e.kids[k], r)
  BY <1>1, <1>2, <1>3, <1>4, <1>6 DEF OwnKeys, CheckOf
<1> QED BY <1>5, <1>6

\* What is claimed of a step that passed, and of one that failed.
PassHolds(e, r) == \A k \in Judged(e) : Holds(k, e.kids[k], r)
FailHolds(e, r) ==
    \/ \E k \in Judged(e) : ~Holds(k, e.kids[k], r)
    \/ Has(e, "jsonrpc") /\ Judged(e) # DOMAIN e.kids
    \/ Has(e, "jsonrpc") /\ \E k \in {"http_status", "headers", "body", "sse_event"} : Has(e, k)

\* An expectation of a response that is a map matches it key by key.
LEMMA MatchKeys ==
    ASSUME NEW e, Expectable(e), DOMAIN e.kids # {}, NEW a \in Json, a.kind = "map"
    PROVE  Match(e, a) <=> \A k \in DOMAIN e.kids : Has(a, k) /\ Match(e.kids[k], a.kids[k])
<1>1. e.kind = "map"
  BY ValuesAssumption DEF Expectable
<1>2. Match(e, a) <=>
        AsWhole(e, a) /\ \A k \in DOMAIN e.kids : Has(a, k) /\ Describes(e.kids[k], a.kids[k])
  BY MatchDescribes, DescribesParts DEF Expectable
<1>3. \A k \in DOMAIN e.kids :
        Has(a, k) => (Match(e.kids[k], a.kids[k]) <=> Describes(e.kids[k], a.kids[k]))
  BY MatchDescribes, Parts DEF Expectable, Has
<1>4. AsWhole(e, a)
  BY <1>1 DEF AsWhole
<1> QED BY <1>2, <1>3, <1>4

\* A step passes when the response has what the keys say, and fails when it has not
\* (transport.go, evaluator.go).
LEMMA Verdicts ==
    ASSUME NEW r, Read(r), NEW e, Expectable(e)
    PROVE  IF matchExpect(r, e) THEN PassHolds(e, r) ELSE FailHolds(e, r)
<1>1. \A k \in OwnKeys : Has(e, k) => (Holds(k, e.kids[k], r) <=> CheckOf(k, e.kids[k], r))
  BY KeysHold
<1>2. \A k \in DOMAIN e.kids \ OwnKeys :
        r.rpc # Nil => (Holds(k, e.kids[k], r) <=> Has(r.rpc, k) /\ Match(e.kids[k], r.rpc.kids[k]))
  BY KeysHold
<1>3. matchExpect(r, e) <=>
        /\ \A k \in OwnKeys : Has(e, k) => CheckOf(k, e.kids[k], r)
        /\ Has(e, "jsonrpc") => r.rpc # Nil /\ Match(e, r.rpc)
  BY DEF matchExpect, OwnKeys, CheckOf
<1>4. Has(e, "jsonrpc") /\ r.rpc # Nil =>
        (Match(e, r.rpc) <=> \A k \in DOMAIN e.kids : Has(r.rpc, k) /\ Match(e.kids[k], r.rpc.kids[k]))
  BY MatchKeys DEF Has, Read
<1>5. /\ \A k \in OwnKeys : k \in Judged(e) <=> Has(e, k)
      /\ Has(e, "jsonrpc") => "jsonrpc" \in Judged(e)
      /\ Judged(e) \subseteq DOMAIN e.kids
      /\ ~Has(e, "jsonrpc") => Judged(e) \subseteq OwnKeys
      /\ "jsonrpc" \notin OwnKeys
  BY DEF Judged, OwnKeys, Has
<1>6. CASE matchExpect(r, e)
  <2> SUFFICES ASSUME NEW k \in Judged(e) PROVE Holds(k, e.kids[k], r)
    BY <1>6 DEF PassHolds
  <2>1. CASE k \in OwnKeys
    BY <2>1, <1>1, <1>3, <1>5, <1>6
  <2>2. CASE k \notin OwnKeys
    <3>1. Has(e, "jsonrpc") /\ k \in DOMAIN e.kids
      BY <2>2, <1>5
    <3>2. r.rpc # Nil /\ Match(e, r.rpc)
      BY <3>1, <1>3, <1>6
    <3> QED BY <2>2, <3>1, <3>2, <1>2, <1>4
  <2> QED BY <2>1, <2>2
<1>7. CASE ~matchExpect(r, e)
  <2>1. CASE \E k \in OwnKeys : Has(e, k) /\ ~CheckOf(k, e.kids[k], r)
    BY <2>1, <1>1, <1>5, <1>7 DEF FailHolds
  <2>2. CASE Has(e, "jsonrpc") /\ r.rpc = Nil
    <3>1. ~Holds("jsonrpc", e.kids["jsonrpc"], r)
      BY <2>2 DEF Holds, Has, Nil, NoKids
    <3> QED BY <2>2, <3>1, <1>5, <1>7 DEF FailHolds
  <2>3. CASE Has(e, "jsonrpc") /\ r.rpc # Nil /\ ~Match(e, r.rpc)
    <3>1. PICK k \in DOMAIN e.kids : ~(Has(r.rpc, k) /\ Match(e.kids[k], r.rpc.kids[k]))
      BY <2>3, <1>4
    <3>2. CASE k \in OwnKeys
      BY <3>2, <2>3, <1>7 DEF FailHolds, OwnKeys, Has
    <3>3. CASE k \notin OwnKeys
      <4>1. ~Holds(k, e.kids[k], r)
        BY <3>1, <3>3, <2>3, <1>2
      <4> QED BY <4>1, <2>3, <1>7 DEF FailHolds
    <3> QED BY <3>2, <3>3
  <2> QED BY <2>1, <2>2, <2>3, <1>3, <1>7
<1> QED BY <1>6, <1>7

-----------------------------------------------------------------------------
\* What the transport keeps can be read, and what is being read.
Kept ==
    /\ last # NoResponse => Read(last)
    /\ pc = "reading" => Read(heard[Len(heard)].resp)

\* A step that expects was given a response that can be read, and passed if it matched.
Expected(i) ==
    steps[i].action = "expect" /\ steps[i].status \in {"pass", "fail"} =>
        /\ Read(steps[i].actual)
        /\ steps[i].status = IF matchExpect(steps[i].actual, Pattern(i)) THEN "pass" ELSE "fail"

AllExpected == \A i \in 1..Len(steps) : Expected(i)

\* A response given by its fields.
LEMMA ReadFields ==
    ASSUME NEW a, NEW b, NEW c, NEW d, NEW e, NEW f, NEW g,
           a # "0", c # Nil => c \in Json /\ e, d # Nil => e,
           g # Nil => g \in Json /\ g.kind = "map",
           IsSeq(f), \A i \in DOMAIN f : f[i] \in Json
    PROVE  Read(Fields(a, b, c, d, e, f, g))
BY DEF Read, Fields

\* What the transports make of an answer can be read.
LEMMA ReadingsRead ==
    ASSUME NEW wire \in Wires, NEW kind
    PROVE  Read(Received(kind, wire)) /\ Read(Streamed(wire))
<1>1. PICK none : none = <<>> /\ IsSeq(none) /\ DOMAIN none = {}
  <2>1. PICK none : none = <<>> /\ IsSeq(none) /\ Len(none) = 0
    BY Nothing
  <2>2. DOMAIN none = 1..0
    BY <2>1, Nothing
  <2> QED BY <2>1, <2>2
<1>2. PICK no : no = FALSE
  BY Zenon
<1>3. StatusLine(wire) = Fields(wire.status, wire.headers, Nil, Nil, no, none, Nil)
  <2>1. NoResponse = Fields("0", NoKids, Nil, Nil, no, none, Nil)
    BY <1>1, <1>2, Zenon DEF NoResponse, Fields
  <2>2. StatusLine(wire) = WithHeaders(WithStatus(NoResponse, wire.status), wire.headers)
    BY Zenon DEF StatusLine, WithHeaders, WithStatus
  <2> QED BY <2>1, <2>2, Replaced
<1>4. PICK raw : raw = (wire.content.text # "")
  BY Zenon
<1>5. PICK c : c = wire.content
  OBVIOUS
<1>6. /\ wire.status # "0" /\ c \in Json
      /\ c.kind \in {"map", "array"} => raw
  BY <1>4, <1>5, AnswersAssumption
<1>7. PICK base : base = WithRaw(StatusLine(wire), raw)
  OBVIOUS
<1>8. base = Fields(wire.status, wire.headers, Nil, Nil, raw, none, Nil)
  BY <1>3, <1>7, Replaced
<1>9. PICK plain : plain = ReadPlain(wire)
  OBVIOUS
<1>10. \/ c.kind = "map" /\ plain = Fields(wire.status, wire.headers, c, Nil, raw, none, Nil)
       \/ c.kind = "array" /\ plain = Fields(wire.status, wire.headers, Nil, c, raw, none, Nil)
       \/ plain = Fields(wire.status, wire.headers, Nil, Nil, raw, none, Nil)
  <2>1. \/ c.kind = "map" /\ plain = WithBody(base, c)
        \/ c.kind = "array" /\ plain = WithArray(base, c)
        \/ plain = base
    BY <1>4, <1>5, <1>7, <1>9, Zenon DEF ReadPlain, WithRaw, WithBody, WithArray
  <2> QED BY <2>1, <1>8, Replaced
<1>11. Read(plain)
  BY <1>1, <1>6, <1>10, ReadFields
<1>12. \/ ReadRPC(wire) = plain
       \/ c.kind = "map" /\ ReadRPC(wire) = Fields(wire.status, wire.headers, Nil, Nil, raw, none, c)
  <2>1. PICK body : body = NoResponse.body
    BY Zenon
  <2>2. body = Nil
    BY <2>1 DEF NoResponse
  <2>3. \/ ReadRPC(wire) = plain
        \/ c.kind = "map" /\ ReadRPC(wire) = WithBody(WithRPC(plain, c), body)
    BY <2>1, <1>5, <1>9, Zenon DEF ReadRPC, WithBody, WithRPC
  <2>4. CASE c.kind = "map" /\ ReadRPC(wire) = WithBody(WithRPC(plain, c), body)
    <3>1. plain = Fields(wire.status, wire.headers, c, Nil, raw, none, Nil)
      <4>1. plain = WithBody(base, c)
        BY <2>4, <1>4, <1>5, <1>7, <1>9 DEF ReadPlain, WithRaw, WithBody
      <4> QED BY <4>1, <1>8, Replaced
    <3> QED BY <2>2, <2>4, <3>1, Replaced
  <2> QED BY <2>3, <2>4
<1>13. Read(ReadRPC(wire))
  <2>1. c.kind = "map" => Read(Fields(wire.status, wire.headers, Nil, Nil, raw, none, c))
    BY <1>1, <1>6, ReadFields
  <2> QED BY <2>1, <1>11, <1>12
<1>14. Read(Received(kind, wire))
  BY <1>9, <1>11, <1>13 DEF Received
<1>15. Read(Streamed(wire))
  <2>1. Read(Fields(wire.status, wire.headers, Nil, Nil, no, none, Nil))
    BY <1>1, <1>6, ReadFields
  <2> QED BY <2>1, <1>3 DEF Streamed
<1> QED BY <1>14, <1>15

\* With other events it can still be read.
LEMMA OtherEventsRead ==
    ASSUME NEW r, Response(r), Read(r), NEW ev, IsSeq(ev), \A i \in DOMAIN ev : ev[i] \in Json,
           NEW q, q = [r EXCEPT !.events = ev]
    PROVE  Read(q)
<1>1. PICK a, b, c, d, e, f, g : r = Fields(a, b, c, d, e, f, g)
  BY ByFields
<1>2. /\ a # "0" /\ (c # Nil => c \in Json /\ e) /\ (d # Nil => e)
      /\ g # Nil => g \in Json /\ g.kind = "map"
  BY <1>1 DEF Read, Fields
<1>3. q = WithEvents(r, ev)
  BY Zenon DEF WithEvents
<1>4. q = Fields(a, b, c, d, e, ev, g)
  BY <1>1, <1>3, Replaced
<1> QED BY <1>2, <1>4, ReadFields

\* No step is recorded.
LEMMA SameExpected ==
    ASSUME AllExpected, UNCHANGED <<spec, results, steps>>
    PROVE  AllExpected'
BY DEF AllExpected, Expected, Pattern, Case

\* The steps are put away.
LEMMA NoneExpected ==
    ASSUME steps' = <<>>
    PROVE  AllExpected'
<1>1. Len(steps') = 0
  BY Nothing
<1> QED BY <1>1 DEF AllExpected

\* A step is recorded; if it expects, it judges a response that can be read.
LEMMA StepExpected ==
    ASSUME Lists, AllExpected, UNCHANGED <<spec, results>>, NEW status, NEW actual,
           StepDone(status, actual),
           Step.action = "expect" /\ status \in {"pass", "fail"} =>
             /\ Read(actual)
             /\ status = IF matchExpect(actual, Step.expect) THEN "pass" ELSE "fail"
    PROVE  AllExpected'
<1>1. PICK r : /\ steps' = Append(steps, r)
               /\ r.action = Step.action /\ r.status = status /\ r.actual = actual
  BY DEF StepDone
<1>2. PICK n : n = Len(steps) + 1
  OBVIOUS
<1>3. /\ Len(steps) \in Nat /\ Len(steps') = n /\ steps'[n] = r
      /\ \A i \in 1..Len(steps) : steps'[i] = steps[i]
  BY <1>1, <1>2, Appending DEF Lists
<1>4. Case' = Case
  BY DEF Case
<1>5. Step.expect = Case.steps[n].expect
  BY <1>2 DEF Step
<1>6. Expected(n)'
  BY <1>1, <1>3, <1>4, <1>5 DEF Expected, Pattern
<1>7. ASSUME NEW i \in 1..Len(steps) PROVE Expected(i)'
  <2>1. Expected(i) /\ steps'[i] = steps[i]
    BY <1>3 DEF AllExpected
  <2> QED BY <2>1, <1>4 DEF Expected, Pattern
<1>8. \A i \in 1..Len(steps') : i \in 1..Len(steps) \/ i = n
  BY <1>2, <1>3
<1> QED BY <1>6, <1>7, <1>8 DEF AllExpected

\* An expect step judges what the transport kept (transport.go).
LEMMA JudgeExpected ==
    ASSUME Lists, Kept, AllExpected, ExpectStep \/ AssertStep
    PROVE  AllExpected'
<1>1. UNCHANGED <<spec, results>>
  BY DEF ExpectStep, AssertStep, Judge
<1>2. CASE ExpectStep
  <2>1. CASE last = NoResponse
    <3>1. StepDone("error", NoResponse)
      BY <1>2, <2>1 DEF ExpectStep, Judge
    <3> QED BY <1>1, <3>1, StepExpected
  <2>2. CASE last # NoResponse
    <3>1. StepDone(IF matchExpect(last, Step.expect) THEN "pass" ELSE "fail", last)
      BY <1>2, <2>2 DEF ExpectStep, Judge
    <3>2. Read(last)
      BY <2>2 DEF Kept
    <3> QED BY <1>1, <3>1, <3>2, StepExpected
  <2> QED BY <2>1, <2>2
<1>3. CASE AssertStep
  <2>1. Step.action = "assert" /\ \E status, actual : StepDone(status, actual)
    BY <1>3 DEF AssertStep, AtStep, Judge
  <2> QED BY <1>1, <2>1, StepExpected
<1> QED BY <1>2, <1>3

\* The steps of a case over HTTP.
LEMMA ExpectedHTTP ==
    ASSUME Core, Hears, Kept, AllExpected, HTTPStep \/ HTTPEnvironment
    PROVE  AllExpected'
<1>1. Lists /\ Asking
  BY DEF Core, Hears
<1>2. CASE Skip \/ EndCaseHTTP
  <2>1. steps' = <<>>
    BY <1>2 DEF Skip, EndCaseHTTP, Conclude
  <2> QED BY <2>1, NoneExpected
<1>3. CASE StartCaseHTTP
  <2>1. steps' = <<>> \/ UNCHANGED <<spec, results, steps>>
    BY <1>3 DEF StartCaseHTTP, Conclude
  <2> QED BY <2>1, NoneExpected, SameExpected
<1>4. CASE Deadline \/ PollAgain \/ \E e \in Events : EventArrives(e)
  <2>1. UNCHANGED <<spec, results, steps>>
    BY <1>4 DEF Deadline, PollAgain, EventArrives
  <2> QED BY <2>1, SameExpected
<1>5. CASE Send \/ WaitStep \/ OtherStep
  <2>1. /\ Step.action # "expect" /\ UNCHANGED <<spec, results>>
        /\ (\E status, actual : StepDone(status, actual)) \/ UNCHANGED steps
    <3>1. CASE Send
      BY <3>1, Zenon DEF Send, AtStep
    <3>2. CASE WaitStep
      BY <3>2 DEF WaitStep, AtStep
    <3>3. CASE OtherStep
      <4>1. Step.action # "expect"
        BY <3>3 DEF OtherStep, AtStep, Actions
      <4> QED BY <3>3, <4>1 DEF OtherStep
    <3> QED BY <1>5, <3>1, <3>2, <3>3
  <2> QED BY <1>1, <2>1, StepExpected, SameExpected
<1>6. CASE PollCancelled \/ RequestFails \/ StreamEnds \/ ReaderTimesOut
  <2>1. /\ Exchanging /\ UNCHANGED <<spec, results>>
        /\ (\E status, actual : StepDone(status, actual)) \/ UNCHANGED steps
    <3>1. CASE PollCancelled
      BY <3>1 DEF PollCancelled, Exchanging
    <3>2. CASE RequestFails
      BY <3>2, Zenon DEF RequestFails, Exchanging
    <3>3. CASE StreamEnds \/ ReaderTimesOut
      <4>1. pc = "reading" /\ \E received : EndStream(received)
        BY <3>3, Zenon DEF StreamEnds, ReaderTimesOut
      <4> QED BY <4>1 DEF EndStream, Exchanging
    <3> QED BY <1>6, <3>1, <3>2, <3>3
  <2>2. Step.action # "expect"
    BY <1>1, <2>1 DEF Asking
  <2> QED BY <1>1, <2>1, <2>2, StepExpected, SameExpected
<1>7. CASE \E wire \in Wires : Answered(wire)
  <2>1. PICK wire \in Wires : Answered(wire)
    BY <1>7
  <2>2. Step.action # "expect" /\ UNCHANGED <<spec, results>>
    BY <1>1, <2>1 DEF Asking, Exchanging, Answered
  <2>3. (\E status, actual : StepDone(status, actual)) \/ UNCHANGED steps
    BY <2>1, Zenon DEF Answered
  <2> QED BY <1>1, <2>2, <2>3, StepExpected, SameExpected
<1>8. CASE ExpectStep \/ AssertStep
  BY <1>1, <1>8, JudgeExpected
<1> QED BY <1>2, <1>3, <1>4, <1>5, <1>6, <1>7, <1>8 DEF HTTPStep, HTTPEnvironment

\* Every step.
LEMMA ExpectedNext == Core /\ Hears /\ Kept /\ AllExpected /\ [Next]_vars => AllExpected'
<1> SUFFICES ASSUME Core, Hears, Kept, AllExpected, [Next]_vars PROVE AllExpected'
  OBVIOUS
<1>1. CASE UNCHANGED vars
  BY <1>1, SameExpected DEF vars, rvars
<1>2. CASE HTTPStep \/ HTTPEnvironment
  BY <1>2, ExpectedHTTP
<1>3. CASE DockerStep
  <2>1. CASE LegacyStep
    <3>1. StepDone("error", NoResponse) /\ UNCHANGED <<spec, results>>
      BY <2>1 DEF LegacyStep, unchangedHTTP
    <3> QED BY <3>1, StepExpected DEF Core
  <2>2. CASE CreateContainer \/ ContainerStarts
    <3>1. UNCHANGED <<spec, results, steps>>
      BY <2>2 DEF CreateContainer, ContainerStarts, unchangedHTTP
    <3> QED BY <3>1, SameExpected
  <2>3. CASE DockerRefuses \/ ContainerStartFails \/ EndCaseDocker
    <3>1. steps' = <<>>
      BY <2>3 DEF DockerRefuses, ContainerStartFails, EndCaseDocker, Conclude
    <3> QED BY <3>1, NoneExpected
  <2> QED BY <1>3, <2>1, <2>2, <2>3 DEF DockerStep
<1>4. CASE NoProcess
  BY <1>4, NoneExpected DEF NoProcess
<1>5. CASE StoreStep
  <2>1. CASE SaveSpecRow \/ ClearCases \/ SaveCase \/ CommitSpec \/ EndRun \/ SaveRunRow \/ SaveResult
    <3>1. UNCHANGED <<spec, results, steps>>
      BY <2>1, Zenon DEF SaveSpecRow, ClearCases, SaveCase, CommitSpec, EndRun, SaveRunRow,
        SaveResult, storeOnly
    <3> QED BY <3>1, SameExpected
  <2>2. CASE CaseRefused \/ CommitRun
    BY <2>2, <1>4 DEF CaseRefused, CommitRun, Rollback
  <2> QED BY <1>5, <2>1, <2>2 DEF StoreStep
<1>6. CASE StatementFails \/ Crash
  BY <1>6, <1>4 DEF StatementFails, Crash, Rollback
<1>7. CASE \E s \in Specs, c \in Configs : Run(s, c)
  <2>1. pc = "idle" /\ UNCHANGED steps
    BY <1>7 DEF Run
  <2>2. steps = <<>>
    BY <2>1 DEF Core, Place, Exchanging
  <2> QED BY <2>1, <2>2, NoneExpected
<1>8. CASE \E s \in Specs : OtherSaves(s)
  <2>1. UNCHANGED <<spec, results, steps>>
    BY <1>8, Zenon DEF OtherSaves, rvars
  <2> QED BY <2>1, SameExpected
<1> QED BY <1>1, <1>2, <1>3, <1>5, <1>6, <1>7, <1>8 DEF Next, RunnerStep, Environment

\* The answer that is being read, and the events read so far.
LEMMA BeingRead ==
    ASSUME Hears, Kept, pc = "reading"
    PROVE  /\ Len(heard) \in 1..Len(heard) /\ Hearing(heard[Len(heard)])
           /\ LET r == heard[Len(heard)].resp
              IN  Response(r) /\ Read(r) /\ r.events = events
           /\ IsSeq(events) /\ \A i \in DOMAIN events : events[i] \in Json
<1>1. PICK l : l = Len(heard) /\ l \in 1..Len(heard) /\ heard[l].resp.events = events
  BY Nothing DEF Hears, Heard, Asking
<1>2. Hearing(heard[l]) /\ Response(heard[l].resp)
  BY <1>1, HeardOf DEF Hears, Heard
<1>3. Read(heard[l].resp)
  BY <1>1 DEF Kept
<1>4. IsSeq(events) /\ \A i \in DOMAIN events : events[i] \in Json
  BY <1>1, <1>3 DEF Read
<1> QED BY <1>1, <1>2, <1>3, <1>4

\* Answers that can be read are kept.
LEMMA KeptAnswered ==
    ASSUME Core, Hears, Kept, NEW wire \in Wires, Answered(wire)
    PROVE  Kept'
<1>1. Lists /\ Heard
  BY DEF Core, Hears
<1>2. CASE Kind(Step) = "stream" /\ wire.type = "text/event-stream"
  <2>1. PICK resp : resp = Streamed(wire)
    OBVIOUS
  <2>2. UNCHANGED last /\ heard' = Append(heard, [step |-> Len(steps) + 1, resp |-> resp])
    BY <1>2, <2>1 DEF Answered
  <2>3. Response(resp) /\ Read(resp)
    BY <2>1, Readings, ReadingsRead
  <2>4. heard'[Len(heard')].resp = resp
    BY <1>1, <2>2, <2>3, Hearkening
  <2> QED BY <2>2, <2>3, <2>4 DEF Kept
<1>3. CASE ~(Kind(Step) = "stream" /\ wire.type = "text/event-stream")
  <2>1. PICK resp : resp = Received(Kind(Step), wire)
    OBVIOUS
  <2>2. last' = resp /\ (pc' = "between" \/ pc' = "step")
    BY <1>3, <2>1 DEF Answered, Keep, StepDone
  <2>3. Read(resp)
    BY <2>1, ReadingsRead
  <2> QED BY <2>2, <2>3 DEF Kept
<1> QED BY <1>2, <1>3

\* The events of a stream can be read.
LEMMA KeptEvent ==
    ASSUME Core, Hears, Kept, NEW e \in Events, EventArrives(e)
    PROVE  Kept'
<1>1. pc = "reading" /\ UNCHANGED <<pc, last>> /\ Heard
  BY DEF EventArrives, Hears
<1>2. PICK l : l = Len(heard)
  OBVIOUS
<1>3. PICK r : r = heard[l].resp
  OBVIOUS
<1>4. /\ l \in 1..Len(heard) /\ Hearing(heard[l]) /\ Response(r) /\ Read(r)
      /\ IsSeq(events) /\ \A i \in DOMAIN events : events[i] \in Json
  BY <1>1, <1>2, <1>3, BeingRead
<1>5. IsSeq(events') /\ \A i \in DOMAIN events' : events'[i] \in Json
  <2>1. CASE events' = events
    BY <2>1, <1>4
  <2>2. CASE events' = Append(events, e)
    <3>1. e \in Json
      BY AnswersAssumption
    <3> QED BY <2>2, <3>1, <1>4, Appending
  <2> QED BY <2>1, <2>2 DEF EventArrives
<1>6. PICK q : q = [r EXCEPT !.events = events']
  OBVIOUS
<1>7. Read(q)
  BY <1>4, <1>5, <1>6, OtherEventsRead
<1>8. PICK h : h = [heard[l] EXCEPT !.resp = q]
  OBVIOUS
<1>9. heard' = WithItem(heard, l, h)
  <2>1. heard' = [heard EXCEPT
                    ![l] = [heard[l] EXCEPT !.resp = [heard[l].resp EXCEPT !.events = events']]]
    BY <1>2 DEF EventArrives
  <2> QED BY <2>1, <1>3, <1>6, <1>8 DEF WithItem
<1>10. h.resp = q
  BY <1>4, <1>8 DEF Hearing
<1>11. Len(heard') = l /\ heard'[l] = h
  BY <1>1, <1>2, <1>4, <1>9, Replacing DEF Heard
<1> QED BY <1>1, <1>7, <1>10, <1>11 DEF Kept

\* As much of a stream as was received can be read.
LEMMA KeptEnds ==
    ASSUME Core, Hears, Kept, StreamEnds \/ ReaderTimesOut
    PROVE  Kept'
<1>1. pc = "reading"
  BY DEF StreamEnds, ReaderTimesOut
<1>2. PICK r : r = heard[Len(heard)].resp
  OBVIOUS
<1>3. Response(r) /\ Read(r) /\ IsSeq(events) /\ \A i \in DOMAIN events : events[i] \in Json
  BY <1>1, <1>2, BeingRead
<1>4. PICK received : /\ EndStream(received)
                      /\ \/ received = events
                         \/ \E n \in 0..Len(events) : received = SubSeq(events, 1, n)
  BY Zenon DEF StreamEnds, ReaderTimesOut
<1>5. IsSeq(received) /\ \A i \in DOMAIN received : received[i] \in Json
  <2>1. CASE received = events
    BY <2>1, <1>3
  <2>2. CASE \E n \in 0..Len(events) : received = SubSeq(events, 1, n)
    <3>1. PICK n \in 0..Len(events) : received = SubSeq(events, 1, n)
      BY <2>2
    <3>2. IsSeq(received) /\ Len(received) = n /\ DOMAIN received = 1..n
      BY <3>1, <1>3, Beginnings, Nothing
    <3>3. Len(events) \in Nat /\ DOMAIN events = 1..Len(events)
      BY <1>3, Nothing
    <3>4. ASSUME NEW i \in 1..n PROVE received[i] = events[i] /\ i \in DOMAIN events
      <4>1. \A j \in 1..n : events[j] \in Json
        BY <1>3, <3>3
      <4>2. received[i] = events[1 + i - 1]
        BY <3>1, <4>1, <3>4, SubSeqProperties
      <4> QED BY <4>2, <3>3
    <3> QED BY <3>2, <3>4, <1>3
  <2> QED BY <1>4, <2>1, <2>2
<1>6. last' = [r EXCEPT !.events = received] /\ pc' = "step"
  BY <1>2, <1>4 DEF EndStream, StepDone
<1>7. Read(last')
  <2>1. PICK q : q = [r EXCEPT !.events = received]
    OBVIOUS
  <2>2. Read(q)
    BY <2>1, <1>3, <1>5, OtherEventsRead
  <2> QED BY <2>1, <2>2, <1>6
<1> QED BY <1>6, <1>7 DEF Kept

\* Every step.
LEMMA KeptNext == Core /\ Hears /\ Kept /\ [Next]_vars => Kept'
<1> SUFFICES ASSUME Core, Hears, Kept, [Next]_vars PROVE Kept'
  OBVIOUS
<1>1. CASE UNCHANGED <<last, heard>> /\ (pc' = "reading" => pc = "reading")
  BY <1>1 DEF Kept
<1>2. CASE last' = NoResponse /\ pc' # "reading"
  BY <1>2 DEF Kept
<1>3. CASE UNCHANGED vars
  <2>1. UNCHANGED <<last, heard, pc>>
    BY <1>3 DEF vars, rvars
  <2> QED BY <2>1, <1>1
<1>4. CASE HTTPStep
  <2>1. CASE StartCaseHTTP
    BY <2>1, <1>2 DEF StartCaseHTTP, Conclude
  <2>2. CASE Skip \/ EndCaseHTTP
    BY <2>2, <1>1 DEF Skip, EndCaseHTTP, Conclude
  <2>3. CASE Deadline \/ PollAgain \/ PollCancelled \/ WaitStep \/ OtherStep
    BY <2>3, <1>1 DEF Deadline, PollAgain, PollCancelled, WaitStep, OtherStep, StepDone
  <2>4. CASE Send
    BY <2>4, <1>1, Zenon DEF Send, StepDone
  <2>5. CASE RequestFails
    BY <2>5, <1>1 DEF RequestFails, StepDone
  <2>6. CASE StreamEnds \/ ReaderTimesOut
    BY <2>6, KeptEnds
  <2>7. CASE ExpectStep \/ AssertStep
    BY <2>7, <1>1 DEF ExpectStep, AssertStep, Judge, StepDone
  <2> QED BY <1>4, <2>1, <2>2, <2>3, <2>4, <2>5, <2>6, <2>7 DEF HTTPStep
<1>5. CASE HTTPEnvironment
  <2>1. CASE RequestFails
    BY <2>1, <1>1 DEF RequestFails, StepDone
  <2> QED BY <1>5, <2>1, KeptAnswered, KeptEvent, KeptEnds DEF HTTPEnvironment
<1>6. CASE DockerStep
  <2>1. UNCHANGED <<last, heard>> /\ pc' # "reading"
    BY <1>6 DEF DockerStep, DockerRefuses, CreateContainer, ContainerStarts, ContainerStartFails,
      LegacyStep, EndCaseDocker, unchangedHTTP, Conclude, StepDone
  <2> QED BY <2>1, <1>1
<1>7. CASE NoProcess
  BY <1>7, <1>2 DEF NoProcess
<1>8. CASE StoreStep
  <2>1. CASE SaveSpecRow \/ ClearCases \/ SaveCase \/ CommitSpec \/ EndRun
    BY <2>1, <1>1 DEF SaveSpecRow, ClearCases, SaveCase, CommitSpec, EndRun, storeOnly
  <2>2. CASE SaveRunRow \/ SaveResult
    <3>1. UNCHANGED <<last, heard>> /\ pc' = "saveResults"
      BY <2>2, Zenon DEF SaveRunRow, SaveResult, storeOnly
    <3> QED BY <3>1, <1>1
  <2>3. CASE CaseRefused \/ CommitRun
    BY <2>3, <1>7 DEF CaseRefused, CommitRun, Rollback
  <2> QED BY <1>8, <2>1, <2>2, <2>3 DEF StoreStep
<1>9. CASE StatementFails \/ Crash
  BY <1>9, <1>7 DEF StatementFails, Crash, Rollback
<1>10. CASE \E s \in Specs, c \in Configs : Run(s, c)
  BY <1>10, <1>1 DEF Run
<1>11. CASE \E s \in Specs : OtherSaves(s)
  <2>1. UNCHANGED <<pc, last, heard>>
    BY <1>11, Zenon DEF OtherSaves, rvars
  <2> QED BY <2>1, <1>1
<1> QED BY <1>3, <1>4, <1>5, <1>6, <1>8, <1>9, <1>10, <1>11 DEF Next, RunnerStep, Environment

\* What the files say may be expected.
LEMMA PatternsExpectable ==
    ASSUME Core, NEW i \in 1..Len(steps)
    PROVE  Expectable(Pattern(i))
<1>1. Lists /\ Place /\ Loaded
  BY DEF Core
<1>2. i \in Nat /\ Len(steps) \in Nat /\ steps # <<>>
  BY <1>1, Nothing DEF Lists
<1>3. InCase
  BY <1>1, <1>2 DEF Place, InCase
<1>4. PICK n : n = Len(results) + 1 /\ n \in 1..Len(spec.cases)
  BY <1>1, <1>3, Nothing, Files DEF Lists, Place
<1>5. IsSeq(Case.steps) /\ DOMAIN Case.steps = 1..Len(Case.steps) /\ Len(Case.steps) \in Nat
  BY <1>1, <1>3, Files, Nothing
<1>6. i \in DOMAIN Case.steps
  BY <1>1, <1>2, <1>3, <1>5 DEF Place
<1>7. n \in DOMAIN spec.cases /\ Case = spec.cases[n]
  BY <1>1, <1>4, FilesAssumption DEF Loaded, Case
<1> QED BY <1>1, <1>6, <1>7, FilesAssumption DEF Loaded, Pattern, Expectable

\* What is claimed of the steps is what was made of their expectations.
LEMMA ExpectedIsClaimed == Core /\ AllExpected => PassMeansMatch
<1> SUFFICES ASSUME Core, AllExpected, NEW i \in DOMAIN steps, steps[i].action = "expect"
             PROVE  /\ steps[i].status = "pass" => PassHolds(Pattern(i), steps[i].actual)
                    /\ steps[i].status = "fail" => FailHolds(Pattern(i), steps[i].actual)
  BY DEF PassMeansMatch, PassHolds, FailHolds
<1>1. i \in 1..Len(steps)
  BY Nothing DEF Core, Lists
<1>2. Expected(i) /\ Expectable(Pattern(i))
  BY <1>1, PatternsExpectable DEF AllExpected
<1>3. Read(steps[i].actual) =>
        IF matchExpect(steps[i].actual, Pattern(i)) THEN PassHolds(Pattern(i), steps[i].actual)
        ELSE FailHolds(Pattern(i), steps[i].actual)
  BY <1>2, Verdicts
<1> QED BY <1>2, <1>3 DEF Expected

\* An expect step passes only when the response satisfies the keys it judges, and
\* fails only when there is one it does not satisfy (transport.go, evaluator.go): for
\* values however deep, whatever the runtime answers.
THEOREM PassesMatch == Spec => []PassMeansMatch
<1>1. Init => Kept /\ AllExpected
  <2> SUFFICES ASSUME Init PROVE Kept /\ AllExpected
    OBVIOUS
  <2>1. steps = <<>> /\ last = NoResponse /\ pc = "idle"
    BY DEF Init, RunnerInit
  <2>2. Len(steps) = 0
    BY <2>1, Nothing
  <2> QED BY <2>1, <2>2 DEF Kept, AllExpected
<1> QED BY CoreInit, CoreNext, HearsInit, HearsNext, KeptNext, ExpectedNext, ExpectedIsClaimed, <1>1,
     PTL DEF Spec
=============================================================================
