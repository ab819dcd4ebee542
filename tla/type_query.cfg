SPECIFICATION Spec
CONSTANTS
    Constructors <- GenericTypes
    Atoms <- PlainTypes
    MaxDepth = 2
    MaxArgs = 2
INVARIANT AcceptsConcreteInstances
