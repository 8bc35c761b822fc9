----------------------------- MODULE SpecDocker -----------------------------
(***************************************************************************)
(* runTestCaseDocker and internal/runner/docker.go: a container for each   *)
(* case, whose steps are not implemented yet.                              *)
(***************************************************************************)
EXTENDS SpecRunner

VARIABLES
    runId,       \* the run, and process, that is going on
    unremoved    \* containers that were not removed: docker refused to, the process died,
                 \* or the case was over, and its context with it, while they were starting

Container == [run |-> runId, case |-> Len(results) + 1]

unchangedHTTP == <<spec, cfg, last, attempt, events, request, heard>>

\* The image cannot be pulled, or the container not be created.
DockerRefuses ==
    /\ Starting /\ ~cfg.url
    /\ Conclude("error", Now)
    /\ UNCHANGED <<unchangedHTTP, expired, containers, runId, unremoved>>

CreateContainer ==
    /\ Starting /\ ~cfg.url
    /\ containers' = containers \union {Container}
    /\ pc' = "created" /\ expired' = FALSE
    /\ UNCHANGED <<unchangedHTTP, results, steps, runId, unremoved>>

ContainerStarts ==
    /\ pc = "created" /\ ~expired
    /\ pc' = "step"
    /\ UNCHANGED <<unchangedHTTP, results, steps, expired, containers, runId, unremoved>>

\* removeContainer does as it is told, or it fails.
Removed == containers' = containers \ {Container} /\ UNCHANGED unremoved

Unremoved(why) ==
    /\ unremoved' = [unremoved EXCEPT ![why] = @ \union {Container}]
    /\ UNCHANGED containers

\* A mutant: the container is not removed when it does not start.
ContainerStartFailsOnly ==
    /\ pc = "created"
    /\ Conclude("error", Now)
    /\ UNCHANGED <<unchangedHTTP, expired, containers, runId, unremoved>>

\* The removal uses the context of the case: once that has expired, it fails.
ContainerStartFails ==
    /\ pc = "created"
    /\ IF expired THEN Unremoved("late") ELSE Removed \/ Unremoved("refused")
    /\ Conclude("error", Now)
    /\ UNCHANGED <<unchangedHTTP, expired, runId>>

\* executeStepLegacy
LegacyStep ==
    /\ pc = "step" /\ ~cfg.url /\ MoreSteps
    /\ StepDone("error", NoResponse)
    /\ UNCHANGED <<unchangedHTTP, results, expired, containers, runId, unremoved>>

\* The deferred StopContainer runs whatever became of the case, and its context
\* does not expire.
EndCaseDocker ==
    /\ pc = "step" /\ ~cfg.url /\ ~MoreSteps
    /\ Removed \/ Unremoved("refused")
    /\ Conclude(Verdict, Now)
    /\ UNCHANGED <<unchangedHTTP, expired, runId>>

DockerStep ==
    \/ DockerRefuses \/ CreateContainer \/ ContainerStarts \/ ContainerStartFails
    \/ LegacyStep \/ EndCaseDocker

HTTPEnvironment ==
    /\ \/ \E wire \in Wires : Answered(wire)
       \/ \E e \in Events : EventArrives(e)
       \/ ~expired /\ (RequestFails \/ StreamEnds)
    /\ UNCHANGED <<runId, unremoved>>

HTTPStep ==
    /\ \/ Skip \/ StartCaseHTTP \/ Deadline \/ Send \/ PollAgain \/ PollCancelled
       \/ expired /\ (RequestFails \/ StreamEnds)
       \/ ReaderTimesOut \/ ExpectStep \/ AssertStep \/ WaitStep \/ OtherStep \/ EndCaseHTTP
    /\ UNCHANGED <<runId, unremoved>>
=============================================================================
