SPECIFICATION Spec
CONSTANTS
    Tasks = {1, 2, 3}
    FailThreshold = 1
INVARIANTS TypeOK OnePoller PolledOrTold
PROPERTIES StallNoticed StopEnds
