CONSTANTS
    Clients = {c1}
    Workers = {w1}
    NoThread = NoThread
    Cases = {q1, q2}
    Versions = {1}
    MaxDecides = 2
    MaxApprovals = 0
    MaxDelivers = 1
    MaxRollbacks = 0
    MaxTimeouts = 0
    MaxOutages = 0
    MaxJobFailures = 1
    MaxRestarts = 1
    MaxRows = 2
    ApprovesWhileRunning = FALSE
    Polls_Wait = {FALSE, TRUE}
SPECIFICATION PollingMCSpec
PROPERTIES
    DecisionShows
    HandlersReturn
CHECK_DEADLOCK FALSE
