CONSTANTS
    Messages = {m1, m2}
    MaxToolSteps = 2
    MaxNested = 3
SPECIFICATION FairSpec
INVARIANTS TypeOK LogGrammar Custody OneOrdinaryMessage PromisedWakes DrainedMeansServed
PROPERTIES NoModelWorkAfterAbort AbortedTurnsSayAborted CeilingSticks CancelConverges PromisedWakeRuns
