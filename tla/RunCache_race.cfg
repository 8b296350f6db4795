CONSTANTS
    Clients = {c1, c2}
    Workers = {w1}
    NoThread = NoThread
    Cases = {q1}
    Versions = {1}
    MaxDecides = 1
    MaxApprovals = 0
    MaxDelivers = 0
    MaxRollbacks = 0
    MaxTimeouts = 0
    MaxOutages = 0
    MaxJobFailures = 0
    MaxRestarts = 0
    MaxRows = 2
    ApprovesWhileRunning = FALSE
    Polls_Wait = {FALSE, TRUE}
SPECIFICATION MCSpec
INVARIANT
    ViewIsCurrent
CHECK_DEADLOCK FALSE
