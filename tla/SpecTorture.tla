---------------------------- MODULE SpecTorture ----------------------------
(***************************************************************************)
(* "spec-torture run" (cmd/spec-torture/main.go): the spec is saved, run,  *)
(* and the run saved, each save one SQLite transaction of several          *)
(* statements (internal/store).  A process may die at any point; another   *)
(* one may save a spec whenever nobody else is writing.                    *)
(***************************************************************************)
EXTENDS SpecDocker, Functions

CONSTANTS
    Specs,       \* the spec files there are
    Configs,     \* the command lines: [url, tags]
    MaxRuns,     \* bound: runs that are begun
    MaxCrashes,  \* bound: processes that die
    MaxOthers    \* bound: saves of specs by other processes

\* What a spec file is once it is parsed, if not what it says.
ASSUME FilesAssumption ==
    /\ Specs # {} /\ Configs # {}
    /\ \A s \in Specs :
          /\ s.cases \in Seq(Range(s.cases))
          /\ \A i \in DOMAIN s.cases :
                /\ s.cases[i].steps \in Seq(Range(s.cases[i].steps))
                /\ \A j \in DOMAIN s.cases[i].steps :
                      LET step == s.cases[i].steps[j] IN
                      step.poll \in Nat /\ step.expect \in Json /\ step.expect.kind \in {"map", "null"}
ASSUME RunsAssumption == MaxRuns \in Nat

VARIABLES
    db,          \* what is committed: [specs, cases, runs, results]
    tx,          \* the tables as the open transaction sees them
    crashes, others

vars == <<rvars, containers, runId, unremoved, db, tx, crashes, others>>

Tables == [specs |-> {}, cases |-> {}, runs |-> {}, results |-> {}]

\* schema: Validate, which only the command "validate" calls.
DuplicateCase(s) ==
    \E i, j \in DOMAIN s.cases : i # j /\ s.cases[i].id = s.cases[j].id
InvalidCase(case) ==
    case.id = "" \/ case.steps = <<>> \/ \E i \in DOMAIN case.steps : case.steps[i].action \notin Actions
\* A mutant: case ids are not compared.
ValidateEach(s) ==
    /\ s.id # "" /\ s.transport \in Transports /\ s.cases # <<>>
    /\ \A i \in DOMAIN s.cases : ~InvalidCase(s.cases[i])
Validate(s) ==
    /\ s.id # "" /\ s.transport \in Transports /\ s.cases # <<>>
    /\ \A i \in DOMAIN s.cases : ~InvalidCase(s.cases[i])
    /\ ~DuplicateCase(s)

\* schema: ComputeSummary.  Compliance is a percentage of what was not skipped.
ComputeSummary(rs) ==
    LET Count(status) == Cardinality({i \in DOMAIN rs : rs[i].status = status})
        applicable == Len(rs) - Count("skip")
    IN  [total |-> Len(rs), counts |-> [status \in Statuses |-> Count(status)],
         compliance |-> IF applicable > 0 THEN (Count("pass") * 100) \div applicable ELSE 0]

-----------------------------------------------------------------------------
\* No process: what one had in memory is gone.
NoProcess ==
    /\ results' = <<>> /\ steps' = <<>> /\ last' = NoResponse /\ attempt' = 0
    /\ events' = <<>> /\ expired' = FALSE /\ request' = NoRequest /\ heard' = <<>>
    /\ pc' = "idle" /\ tx' = Tables
    /\ UNCHANGED <<spec, cfg, runId>>

Init ==
    /\ RunnerInit
    /\ pc = "idle" /\ spec = (CHOOSE s \in Specs : TRUE) /\ cfg = (CHOOSE c \in Configs : TRUE)
    /\ runId = 0 /\ unremoved = [refused |-> {}, died |-> {}, late |-> {}]
    /\ db = Tables /\ tx = Tables
    /\ crashes = 0 /\ others = 0

storeOnly == <<containers, runId, unremoved, crashes, others, spec, cfg, results, steps, last,
               attempt, events, expired, request, heard>>

\* The command is given; the store is opened and the spec loaded.
Run(s, c) ==
    /\ pc = "idle" /\ runId < MaxRuns
    /\ spec' = s /\ cfg' = c /\ runId' = runId + 1
    /\ pc' = "saveSpec"
    /\ UNCHANGED <<results, steps, last, attempt, events, expired, request, heard,
                   containers, unremoved, db, tx, crashes, others>>

\* SaveSpec: the row of the spec, then its cases, the old ones first removed.
SaveSpecRow ==
    /\ pc = "saveSpec"
    /\ tx' = [db EXCEPT !.specs = {s \in @ : s.id # spec.id}
                                  \union {[id |-> spec.id, version |-> spec.version]}]
    /\ pc' = "clearCases"
    /\ UNCHANGED <<storeOnly, db>>

\* A mutant: the cases of the older version stay.
ClearCasesOfVersion ==
    /\ pc = "clearCases"
    /\ tx' = [tx EXCEPT !.cases = {c \in @ : c.spec # spec.id \/ c.version # spec.version}]
    /\ pc' = "saveCases"
    /\ UNCHANGED <<storeOnly, db>>

ClearCases ==
    /\ pc = "clearCases"
    /\ tx' = [tx EXCEPT !.cases = {c \in @ : c.spec # spec.id}]
    /\ pc' = "saveCases"
    /\ UNCHANGED <<storeOnly, db>>

CaseRows(t, s) == {c \in t.cases : c.spec = s.id /\ c.version = s.version}
NextCase == Cardinality(CaseRows(tx, spec)) + 1

\* (spec_id, id) is the primary key.
Taken(id) == \E c \in tx.cases : c.spec = spec.id /\ c.id = id

SaveCase ==
    /\ pc = "saveCases" /\ NextCase <= Len(spec.cases)
    /\ ~Taken(spec.cases[NextCase].id)
    /\ tx' = [tx EXCEPT !.cases =
                 @ \union {[spec |-> spec.id, version |-> spec.version, id |-> spec.cases[NextCase].id]}]
    /\ UNCHANGED <<storeOnly, db, pc>>

\* The transaction is open: nobody else can write.
Writing == pc \in {"clearCases", "saveCases", "saveResults"}

CommitSpec ==
    /\ pc = "saveCases" /\ NextCase > Len(spec.cases)
    /\ db' = tx /\ tx' = Tables /\ pc' = "case"
    /\ UNCHANGED storeOnly

\* The deferred Rollback, and the end of the command with an error.
Rollback == NoProcess /\ UNCHANGED <<db, containers, unremoved, crashes, others>>

CaseRefused ==
    /\ pc = "saveCases" /\ NextCase <= Len(spec.cases)
    /\ Taken(spec.cases[NextCase].id)
    /\ Rollback

\* A statement or the commit fails: another process is writing, or the disk.
StatementFails ==
    /\ pc \in {"saveSpec", "clearCases", "saveCases", "saveRun", "saveResults"}
    /\ Rollback

\* Run has gone through all cases.
EndRun ==
    /\ pc = "case" /\ Len(results) = Len(spec.cases)
    /\ pc' = "saveRun"
    /\ UNCHANGED <<storeOnly, db, tx>>

-----------------------------------------------------------------------------
\* A mutant: the row of the run is written outside the transaction.
SaveRunRowAutocommit ==
    /\ pc = "saveRun"
    /\ tx' = [db EXCEPT !.runs = @ \union {[id |-> runId, spec |-> spec.id,
                                            summary |-> ComputeSummary(results)]}]
    /\ db' = tx'
    /\ pc' = "saveResults"
    /\ UNCHANGED storeOnly

\* SaveTestRun: the row of the run, then its results.
SaveRunRow ==
    /\ pc = "saveRun"
    /\ tx' = [db EXCEPT !.runs = @ \union {[id |-> runId, spec |-> spec.id,
                                            summary |-> ComputeSummary(results)]}]
    /\ pc' = "saveResults"
    /\ UNCHANGED <<storeOnly, db>>

Saved == Cardinality({r \in tx.results : r.run = runId})

Row(i) ==
    [run |-> runId, case |-> results[i].case, status |-> results[i].status,
     started |-> results[i].started, id |-> i]

SaveResult ==
    /\ pc = "saveResults" /\ Saved < Len(results)
    /\ tx' = [tx EXCEPT !.results = @ \union {Row(Saved + 1)}]
    /\ UNCHANGED <<storeOnly, db, pc>>

\* The report is written, and the command ends.
CommitRun ==
    /\ pc = "saveResults" /\ Saved = Len(results)
    /\ db' = tx /\ NoProcess
    /\ UNCHANGED <<containers, unremoved, crashes, others>>

\* GetTestRun: the row of a run and its results by the time they started.
GetTestRun(id) ==
    LET rows == {r \in db.results : r.run = id}
    IN  [run |-> CHOOSE r \in db.runs : r.id = id,
         results |-> rows,
         before |-> {p \in rows \X rows : p[1].started < p[2].started}]

-----------------------------------------------------------------------------
\* The process dies; SQLite forgets the transaction, docker keeps the container.
Crash ==
    /\ pc # "idle" /\ crashes < MaxCrashes
    /\ crashes' = crashes + 1
    /\ NoProcess
    /\ unremoved' = [unremoved EXCEPT !.died = @ \union containers]
    /\ UNCHANGED <<containers, db, others>>

\* Another process saves a spec, which takes effect at once.
OtherSaves(s) ==
    /\ ~Writing /\ others < MaxOthers /\ ~DuplicateCase(s)
    /\ others' = others + 1
    /\ db' = [db EXCEPT
         !.specs = {x \in @ : x.id # s.id} \union {[id |-> s.id, version |-> s.version]},
         !.cases = {c \in @ : c.spec # s.id}
            \union {[spec |-> s.id, version |-> s.version, id |-> s.cases[i].id] :
                       i \in DOMAIN s.cases}]
    /\ UNCHANGED <<rvars, containers, runId, unremoved, tx, crashes>>

StoreStep ==
    \/ SaveSpecRow \/ ClearCases \/ SaveCase \/ CommitSpec \/ CaseRefused
    \/ EndRun \/ SaveRunRow \/ SaveResult \/ CommitRun

RunnerStep == (HTTPStep \/ DockerStep) /\ UNCHANGED <<db, tx, crashes, others>>
Environment == HTTPEnvironment /\ UNCHANGED <<db, tx, crashes, others>>

Next ==
    \/ \E s \in Specs, c \in Configs : Run(s, c)
    \/ StoreStep \/ StatementFails
    \/ RunnerStep \/ Environment
    \/ Crash
    \/ \E s \in Specs : OtherSaves(s)

\* The process is scheduled and its clock runs; docker answers.  Nothing is
\* assumed of the runtime.
Spec == Init /\ [][Next]_vars /\ WF_vars(StoreStep \/ RunnerStep)
=============================================================================
