SPECIFICATION FairSpec
CONSTANTS
    Routers <- Set
    Modes = {"complete", "stream"}
    Chunks <- Pieces
    MaxChunks = 2
INVARIANTS OneVoice StreamTellsWhatItShowed NoTargetLeftOut
PROPERTIES FallbackIsJustified ContextReachesUpstream
CHECK_DEADLOCK FALSE
