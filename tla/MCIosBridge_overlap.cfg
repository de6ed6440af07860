SPECIFICATION Spec
CONSTANTS
    MaxCalls = 3
    Methods = {"initModel", "startGeneration"}
    PrefillFails = FALSE
    Serialised = FALSE
INVARIANT OneDecodeAtATime
CHECK_DEADLOCK FALSE
