SPECIFICATION MCSpec
CONSTANTS
    Slots = {1, 2}
    Settings <- Production
    Routes = {"completions", "stream", "link"}
    Clients <- Members
    MayFail = {"redis", "database"}
    MaxEvents = 2
INVARIANTS TokensDecide FailsClosed OutagesAreReal NothingIsLeftOpen
CHECK_DEADLOCK FALSE
