\* One rollback at a time and results that change: what the log says against what
\* the destination holds, and what the destination promises.
CONSTANTS
    Keys = {k1}
    Payloads = {p1,p2}
    Invalid = {}
    Deliverers = {d1}
    Jobs = {j1}
    Undoers = {u1}
    NotReady = NotReady
    Nobody = Nobody
    MAX_ATTEMPTS = 2
    MaxPushes = 2
    MaxUndos = 2
    MaxChanges = 1
    MaxFaults = 1
    Drills = {"none"}
    Restarts = {"destination"}
SPECIFICATION MCSpec

INVARIANTS
    DeliveredIsHeld
    HeldIsAccountedFor
PROPERTIES
    PromiseKept
CHECK_DEADLOCK FALSE
