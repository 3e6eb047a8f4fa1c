CONSTANTS
    MaxMessages = 3
    MaxRequests = 2
    MaxFile = 3
    MaxInput = 1
SPECIFICATION Spec
INVARIANTS RemovedMeansClosing
CHECK_DEADLOCK FALSE
