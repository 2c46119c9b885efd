SPECIFICATION FairSpec
CONSTANTS
    Workers = {w1, w2}
    Handlers = {h1}
    Jobs = {j1}
    Batches = 2
    Attempts = 2
    MaxEntries = 2
    MaxFaults = 3
    Kinds = {"import", "export"}
    NoJob = NoJob
CHECK_DEADLOCK FALSE
INVARIANT CompletedProcessedAll
PROPERTY StartedJobEnds
