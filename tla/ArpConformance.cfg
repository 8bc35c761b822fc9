\* The whole suite, with one deadline that passes under a server that answers, anywhere,
\* and a server that falls silent, anywhere.  The process exits in the end.
CONSTANTS
    Suite <- ArpSuite
    MaxLate = 1
SPECIFICATION FairSpec
INVARIANTS OnlyDeadlinesFailChecks OneDeadlineCostsOneGroup ZeroMeansConforming
PROPERTIES PassesAreAnswered SuiteEnds
CHECK_DEADLOCK FALSE
