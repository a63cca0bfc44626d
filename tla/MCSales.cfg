SPECIFICATION MCSpec
CONSTANTS
    Datasets <- MCDatasets
    Types = {"house"}
    PlanFiles <- MCPlans
    NoChoice = NoChoice
    h1 = h1
    h2 = h2
    Handlers = {h1, h2}
    MaxJobs = 2
    Jobs = {j1, j2}
    MaxInbox = 1
    None = None
    Retries = 3
    Documents <- MCDocuments
    Ranges <- MCRanges
    k1 = k1
    k2 = k2
    k3 = k3
    k4 = k4
    l1 = l1
    l2 = l2
    p1 = p1
    p2 = p2
    Loaders = {h1, h2}
    Files <- MCFiles
    RowsOf <- MCRows
    Withheld = Withheld
    Nobody = Nobody
    MaxFailures = 1
SYMMETRY MCSymmetry
INVARIANTS
    QueueIsAsChosen
    
    
    RowsAreKept
    SalesFollowSelection
CHECK_DEADLOCK FALSE
