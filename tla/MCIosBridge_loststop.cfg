SPECIFICATION Spec
CONSTANTS
    MaxCalls = 4
    Methods = {"initModel", "startGeneration", "dispose"}
    PrefillFails = FALSE
    Serialised = FALSE
INVARIANT StopIsNotLost
CHECK_DEADLOCK FALSE
