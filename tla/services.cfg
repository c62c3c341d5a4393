SPECIFICATION Spec
CONSTANTS
    MaxRetries = 2
    MaxTotal = 10
    Job = {j1, j2}
    NoJob = none
    Threshold = 1
    MaxPrompts = 2
    Window = {own, w1, w2}
    OwnWindow = own
    StackDepth = 2
    MaxChanges = 2
    MaxEvolve = 2
    MaxRequests = 3
    Task = {t1, t2}
    Resource = {r1, r2}
    NoTask = nobody
    RecordId = {1, 2}
    Limit = {l1, l2}
    Watchdog = {d1, d2}
    NoWatchdog = nodog
    MaxSwitches = 2
    Phrase = {"A", "a", "b"}
    Spoken = {"A", "b"}
    Tidy <- TidyForm
    ConsecutiveLimit = 2
    WindowLimit = 2
    StreakLimit = 2
    MaxSignals = 3
    MaxPosted = 1
    Method <- Methods2
    App = {editor}
    Plan = {1, 2, 3, 4}
    StepsOf <- Lengths
    Sane = {1, 2, 3}
    MaxPatterns = 2
    MaxPenalty = 2
    MaxLessons = 4
    Browser = {b1}
    Held = {q1, q2}
    NoneHeld = nothing
    MaxAsked = 2
    MaxCuts = 1
    Screen = {app, page, panel}
    PanelWindow = panel
    Titled = {page}
    Unknown = untold
    NoScreen = unseen
    Query = {k1}
    MaxFocus = 2
    MaxPresses = 1
    MaxUnread = 1
INVARIANTS
    TypeOK
    BoundedWork
    GivesUpOnlyWhenAllFailed
    RejectedShellOnlyByFallback
    SecondWayOnlyUnchecked
    CommandRunsOnce
    ServedIsRegistered
    RejectedStaysOut
    FiresOnce
    CleanExit
    OneReportPerCooldown
    ShortestSurvives
    RoutingFits
    
    RefersToAnother
PROPERTIES
    UiRunsOnFreshGuard
    LateAnswerHarmless
    BothAreLocks
    StuckForGood
    LeavingVoiceStopsListening
    EverythingReturns
CHECK_DEADLOCK FALSE
