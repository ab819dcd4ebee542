SPECIFICATION Spec
CONSTANTS
    CondvarSlots = {cv}
    MutexSlots = {mx}
    GuardSlots = {gd}
    HandleSlots = {jh}
    DropSlots = {gd, jh}
    ProgramFunctions <- EveryFunction
    PassThrough = {}
    MaxPassThrough = 0
    Kinds <- StraightLine
    Cleanups <- WithCleanup
    MaxThreads = 1
    MaxTerminators <- StructureTerminators
    MaxWaitCalls = 2
    MaxAssignments = 0
    MaxTargets = 1
    PlayTokenGame = FALSE
INVARIANT TypeOK
INVARIANT WellFormedBetweenCalls
INVARIANT NoMergedCallSites
INVARIANT MemoryFollowsProgram
CHECK_DEADLOCK FALSE
