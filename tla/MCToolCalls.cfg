CONSTANTS
    NumCalls = 4
    MaxParallel = 2
SPECIFICATION FairSpec
CHECK_DEADLOCK FALSE
INVARIANTS SchedulerInv LogGrammar ResultsInModelOrder EveryCallAnswered NothingLeftRunning
PROPERTIES NoStartAfterCancel BatchEnds
