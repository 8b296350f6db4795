\* Overlapping pushes and rollbacks of one record.
CONSTANTS
    Keys = {k1}
    Payloads = {p1,p2}
    Invalid = {}
    Deliverers = {d1}
    Jobs = {j1}
    Undoers = {u1,u2}
    NotReady = NotReady
    Nobody = Nobody
    MAX_ATTEMPTS = 2
    MaxPushes = 2
    MaxUndos = 2
    MaxChanges = 0
    MaxFaults = 1
    Drills = {"none"}
    Restarts = {"destination"}
SPECIFICATION MCSpec
SYMMETRY Threads
INVARIANTS
    TypeOK
    OneHeldCopy
    AcceptanceIsBacked
PROPERTIES
    HistoryStays
CHECK_DEADLOCK FALSE
