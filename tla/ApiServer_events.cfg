SPECIFICATION MCSpec
CONSTANTS
    Slots = {1}
    Settings <- Production
    Routes = {"stream"}
    Clients <- Members
    MayFail = {}
    MaxEvents = 2
INVARIANT EventsAreOnTheirWay
CHECK_DEADLOCK FALSE
