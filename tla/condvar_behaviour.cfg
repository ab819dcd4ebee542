SPECIFICATION Spec
CONSTANTS
    CondvarSlots = {cv}
    MutexSlots = {mx}
    GuardSlots = {gd}
    HandleSlots = {}
    DropSlots = {gd}
    ProgramFunctions <- CondvarProgram
    PassThrough = {}
    MaxPassThrough = 0
    Kinds <- StraightLine
    Cleanups <- NoCleanup
    MaxThreads = 1
    MaxTerminators <- BehaviourTerminators
    MaxWaitCalls = 1
    MaxAssignments = 0
    MaxTargets = 1
    PlayTokenGame = TRUE
INVARIANT MutexProtects
INVARIANT FlagAbsentWhileWaiting
INVARIANT OneControlTokenPerFunction
PROPERTY WakeupNeedsWaiter
PROPERTY ImplementsWaitNotify
CHECK_DEADLOCK FALSE
