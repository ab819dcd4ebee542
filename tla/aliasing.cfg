SPECIFICATION Spec
CONSTANTS
    MaxLocals = 5
    MaxOperands = 2
    MaxFields = 1
    OperandKinds <- AnyOperand
    Reborrows = TRUE
    DirectFields = TRUE
INVARIANT TypeOK
INVARIANT LinkedThroughAggregatesOfVariables
INVARIANT OnlySyncIsLinked
CHECK_DEADLOCK FALSE
