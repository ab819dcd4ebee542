SPECIFICATION Spec
CONSTANTS
    CondvarSlots = {}
    MutexSlots = {mx, mr}
    GuardSlots = {gd}
    HandleSlots = {}
    DropSlots = {gd, mx}
    ProgramFunctions <- LockProgram
    PassThrough <- CloneProgram
    MaxPassThrough = 1
    Kinds <- EveryKind
    Cleanups <- AnyCleanup
    MaxThreads = 0
    MaxTerminators <- ControlFlowTerminators
    MaxWaitCalls = 0
    MaxAssignments = 1
    MaxTargets = 2
    PlayTokenGame = TRUE
INVARIANT ControlIsConserved
INVARIANT MemoryFollowsProgram
INVARIANT MutexFollowsGuard
CHECK_DEADLOCK FALSE
