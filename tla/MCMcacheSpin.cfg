CONSTANTS
    MaxLines = 1
    MaxBody = 1
SPECIFICATION FairSpec
PROPERTIES CommandEnds
CHECK_DEADLOCK FALSE
