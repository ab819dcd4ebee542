SPECIFICATION Spec
CONSTANTS
    MaxLocals = 5
    MaxOperands = 2
    MaxFields = 2
    OperandKinds <- OnlySync
    Reborrows = FALSE
    DirectFields = FALSE
INVARIANT LinkedToDenoted
CHECK_DEADLOCK FALSE
