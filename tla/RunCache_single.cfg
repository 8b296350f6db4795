CONSTANTS
    Clients = {c1}
    Workers = {w1}
    NoThread = NoThread
    Cases = {q1, q2}
    Versions = {1, 2}
    MaxDecides = 2
    MaxApprovals = 2
    MaxDelivers = 1
    MaxRollbacks = 1
    MaxTimeouts = 0
    MaxOutages = 0
    MaxJobFailures = 1
    MaxRestarts = 0
    MaxRows = 2
    ApprovesWhileRunning = FALSE
    Polls_Wait = {FALSE, TRUE}
SPECIFICATION MCSpec
SYMMETRY Threads
INVARIANTS
    TypeOK
    ResultIsCurrent
    ViewIsCurrent
CHECK_DEADLOCK FALSE
