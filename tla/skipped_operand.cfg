SPECIFICATION Spec
CONSTANTS
    MaxLocals = 5
    MaxOperands = 3
    MaxFields = 1
    OperandKinds <- AnyOperand
    Reborrows = FALSE
    DirectFields = FALSE
INVARIANT LinkedToDenoted
CHECK_DEADLOCK FALSE
