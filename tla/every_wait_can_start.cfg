SPECIFICATION Spec
CONSTANTS
    CondvarSlots = {cv}
    MutexSlots = {mx}
    GuardSlots = {gd}
    HandleSlots = {}
    DropSlots = {gd}
    ProgramFunctions <- CondvarProgram
    PassThrough = {}
    MaxPassThrough = 0
    Kinds <- StraightLine
    Cleanups <- NoCleanup
    MaxThreads = 1
    MaxTerminators <- TwoWaitsTerminators
    MaxWaitCalls = 2
    MaxAssignments = 0
    MaxTargets = 1
    PlayTokenGame = TRUE
INVARIANT EveryWaitCanStart
CHECK_DEADLOCK FALSE
