SPECIFICATION Spec
CONSTANTS
    MaxCalls = 4
    Methods = {"initModel", "startGeneration"}
    PrefillFails = FALSE
    Serialised = TRUE
INVARIANT ServedInTurn
CHECK_DEADLOCK FALSE
