CONSTANTS
    Requesters = {"c", "d"}
    Tokens = {"t", "u"}
    ChanCap = 1
    MaxNotes = 3
    MaxResponses = 4
    Sigs = {"r", "s"}
    NewArgs <- MCNewArgs
    ModArgs <- MCModArgs
    MaxEvents = 3
    PolNames = {"user", "group", "other"}
    PolActions = {"act"}
    PolCalls = 4
    PolDepth = 3
    PgQueries <- MCPgQueries
    PgValues <- MCPgValues
SPECIFICATION Spec
INVARIANTS AnswersOwn WaitsForAnswer MergedMeansAll RecreatesStates
           AnswersRight OverflowsOnlyByCycles SqlMeans
CHECK_DEADLOCK FALSE
