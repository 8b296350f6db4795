CONSTANTS
    Clients = {c1, c2}
    Bodies = {b1, b2}
    NoBody = NoBody
    Nobody = Nobody
    MaxDrafts = 2
    MaxApprovals = 2
    MaxDelivers = 1
    MaxFaults = 1
    KeepsSending = {TRUE}
SPECIFICATION FairMCSpec
INVARIANTS
    TypeOK
    OnlyApprovedGoverns
    OneApproved
    SettledApprovalGoverns
PROPERTIES
    VersionsKept
    SettledSendings
    SettledApprovalShows
CHECK_DEADLOCK FALSE
