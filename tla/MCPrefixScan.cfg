\* Every pair of sequences of at most 4 tokens over 3 token ids.
SPECIFICATION Spec
CONSTANTS
    Token = {1, 2, 3}
    MaxLen = 4
INVARIANTS
    TypeOK
    ReuseIsMaximal
    PlanIsSound
    LoopComputesPlan
CHECK_DEADLOCK FALSE
