CONSTANTS
    Clients = {c1, c2}
    Bodies = {b1, b2}
    NoBody = NoBody
    Nobody = Nobody
    MaxDrafts = 2
    MaxApprovals = 2
    MaxDelivers = 1
    MaxFaults = 0
    KeepsSending = {FALSE}
SPECIFICATION MCSpec
INVARIANT
    SentUnderItsVersion
CHECK_DEADLOCK FALSE
