CONSTANTS
    MaxMessages = 3
    MaxRequests = 2
    MaxFile = 3
    MaxInput = 1
SPECIFICATION Spec
PROPERTIES MessageIsDelivered
CHECK_DEADLOCK FALSE
