SPECIFICATION Spec
CONSTANTS
    MaxLocals = 5
    MaxOperands = 2
    MaxFields = 1
    OperandKinds <- OnlySync
    Reborrows = TRUE
    DirectFields = TRUE
INVARIANT HandlesEveryAssignment
CHECK_DEADLOCK FALSE
