SPECIFICATION MCSpec
CONSTANTS
    None = None
    Keys = {k1, k2}
    Unit = 7
    Rate = 2
    Second = 2
    Burst = 2
    Forget <- MCForget
    Unset = Unset
    Garbage = Garbage
    Numbers = {0, 11}
    Environments = {"development", "production", "staging"}
    Documents = {100, 30000}
    Sources = {700, 5000}
    Widths = {1, 3}
    SignalWidths = {1, 3}
    Settings <- MCSettings
    Focuses = {"general", "member-access"}
    Modes = {"fast", "full"}
    Letters = {"a", "b"}
    Blank = "space"
    Break = "newline"
    Fence = "fence"
    Announcement = "here"
    Foreign = "def"
    Inputs <- MCInputs
    MaxLines = 3
    MaxChars = 3
    Completions = {"c1", "c2"}
    Bucket <- MCBucket
    Percents = {0, 50, 100}
    Recordings = {TRUE, FALSE}
    Retention = 1
    Days = {1}
    Day = 2
    MaxNow = 3
    MaxEvents = 5
    MaxTroubled = 3
    Calls = {1, 2}
    Positions = {"p", "q"}
    MaxPlans = 1
    MaxVersion = 2
INVARIANTS StartsSound SourceTextIsAccepted CleanIsUntouched FencedAsPlain PairsArrive ReportAddsUp ItemsFitTheText
PROPERTIES ImplementsContract PatienceIsRewarded
CHECK_DEADLOCK FALSE
