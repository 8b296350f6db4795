CONSTANTS
    Clients = {c1, c2}
    Workers = {w1, w2}
    NoThread = NoThread
    Cases = {q1}
    Versions = {1}
    MaxDecides = 1
    MaxApprovals = 0
    MaxDelivers = 1
    MaxRollbacks = 0
    MaxTimeouts = 1
    MaxOutages = 1
    MaxJobFailures = 0
    MaxRestarts = 0
    MaxRows = 1
    ApprovesWhileRunning = TRUE
    Polls_Wait = {FALSE}
SPECIFICATION MCSpec
CONSTRAINT FewRows
SYMMETRY Threads
INVARIANTS
    ServedViewKnowsTables
CHECK_DEADLOCK FALSE
