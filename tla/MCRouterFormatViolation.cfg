CONSTANTS
    Stations = {s1}
    StationIds = {m1}
    ServerIds = {v1}
    States = {st1}
    NoState = NoState
    Actions <- MCActions
    CallRoutes <- V201CallRoutes
    CallResultRoutes <- V201CallResultRoutes
    MakerActions <- MCMakerActions
    MaxDup = 1

SPECIFICATION Spec

INVARIANT FormatViolationOnlyForBadPayloads


CHECK_DEADLOCK FALSE
