\* A background push that has passed the pause check resends what is undone.
CONSTANTS
    Keys = {k1}
    Payloads = {p1}
    Invalid = {}
    Deliverers = {d1}
    Jobs = {j1}
    Undoers = {u1}
    NotReady = NotReady
    Nobody = Nobody
    MAX_ATTEMPTS = 2
    MaxPushes = 2
    MaxUndos = 1
    MaxChanges = 0
    MaxFaults = 0
    Drills = {"none"}
    Restarts = {}
SPECIFICATION MCSpec

PROPERTIES
    PausedSendsNothing
CHECK_DEADLOCK FALSE
