SPECIFICATION Spec
CONSTANTS
    Tasks = {1, 2, 3}
    FailThreshold = 5
INVARIANT FailuresTold
