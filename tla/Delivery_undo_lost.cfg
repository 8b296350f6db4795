\* The answer to a rollback is lost.
CONSTANTS
    Keys = {k1}
    Payloads = {p1}
    Invalid = {}
    Deliverers = {d1}
    Jobs = {j1}
    Undoers = {u1}
    NotReady = NotReady
    Nobody = Nobody
    MAX_ATTEMPTS = 2
    MaxPushes = 1
    MaxUndos = 1
    MaxChanges = 0
    MaxFaults = 1
    Drills = {"none"}
    Restarts = {}
SPECIFICATION MCSpec

INVARIANTS
    FailedUndoLeavesRecord
CHECK_DEADLOCK FALSE
