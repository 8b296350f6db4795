\* Two records, rehearsed failures, refusals and restarts: every push and every
\* undo ends.
CONSTANTS
    Keys = {k1,k2}
    Payloads = {p1,p2}
    Invalid = {p2}
    Deliverers = {d1}
    Jobs = {j1}
    Undoers = {u1}
    NotReady = NotReady
    Nobody = Nobody
    MAX_ATTEMPTS = 3
    MaxPushes = 1
    MaxUndos = 1
    MaxChanges = 0
    MaxFaults = 1
    Drills = {"none", "transient", "timeout", "uncertain"}
    Restarts = {"api", "destination"}
SPECIFICATION FairMCSpec

INVARIANTS
    RetriesFollowOutcomes
PROPERTIES
    PushesEnd
    UndosEnd
CHECK_DEADLOCK FALSE
