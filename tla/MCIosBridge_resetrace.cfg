SPECIFICATION Spec
CONSTANTS
    MaxCalls = 4
    Methods = {"initModel", "startGeneration", "resetContext"}
    PrefillFails = FALSE
    Serialised = FALSE
INVARIANT UsesAreLive
CHECK_DEADLOCK FALSE
