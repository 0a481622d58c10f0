SPECIFICATION Spec
CONSTANTS
    NumInstances = 2
    MaxChanges = 3
INVARIANT NoInstanceIsHarmless
CHECK_DEADLOCK FALSE
