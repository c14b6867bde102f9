SPECIFICATION Spec
CHECK_DEADLOCK FALSE
CONSTANTS
    None = None
    Blank = Blank
    Deliveries <- MCDeliveries
    Clients = {c1, c2}
    Batches <- MCBatches
    MaxPosts = 2
    ProjectionRequests <- MCRequests
    ProjectionWorkers = {w1, w2}
    MaxProjectionFaults = 1
    HostPulls <- MCPulls
    HostIssues <- MCIssues
    HostTitles = {"T", "U", "V"}
    HostSessions <- MCHostSessions
    BackfillWindows <- MCBackfillWindows
    MaxHostEdits = 2
    RowIds = {1, 2, 3, 4}
    Sessions = {"s", "t", "u"}
    Contents <- MCContents
    Sentinel = 9
    Starts <- MCStarts
    Trees <- MCTrees
    Filters <- MCFilters
    Sizes = {1, 2}
    MaxChanges = 1
    TranscriptStarts <- MCTranscriptStarts
    LateParts <- MCLateParts
    Cutoffs <- MCCutoffs
    BatchSize = 2
    Limits = {None, 3}
INVARIANTS DeliveriesCountOnce WalksAreExact
PROPERTIES ProjectionsAreExact BackfillConverges RetentionIsExact
