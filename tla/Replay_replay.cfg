CONSTANTS
    None = None
    FieldOrder <- MCFieldOrder
    FieldSpec <- MCFieldSpec
    Entity = "employee"
    DeclaredBlocking <- MCDeclaredBlocking
    NeverMergeOn <- MCNeverMergeOn
    Lookups <- MCLookups
    DateFormats = {"DMY", "MDY", "ISO"}
    TargetFormat = "ISO"
    NullMarkers = {"", "-"}
    Trimmed <- MCTrimmed
    Fold <- MCFold
    EnumKey <- MCEnumKey
    Squeezed <- MCSqueezed
    Fits <- MCFits
    Mask <- MCMask
    Parses <- MCParses
    Number <- MCNumber
    Numbers = {}
    LowerDomain <- MCLowerDomain
    LimitsBroken <- MCLimitsBroken
    ReadAs <- MCReadAs
    LateDay <- MCLateDay
    Place <- MCPlace
    NameSim <- MCNameSim
    MaxShown = 3
    Scenes <- MCScenes
    MaxCases = 2
    MaxSteps = 1
SPECIFICATION Spec
INVARIANTS
    TypeOK
    ReadyCanBeSent
    BlockedIsAsked
    AnsweredIsGone
    NoDecisionLeftBehind
    NoSilentDisagreement
    VoteNeedsEvidence
PROPERTIES
    StableAcrossReplays
    EndsWhenNothingIsAnswered
    MeasuredStands
