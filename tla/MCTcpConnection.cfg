CONSTANTS
    MaxMessages = 3
    MaxRequests = 2
    MaxFile = 3
    MaxInput = 1
SPECIFICATION FairSpec
INVARIANTS TypeOK BucketAgrees WatchedWhileDataLeft MassDataHasFile
PROPERTIES LifeSpec GracefulClose ClosingIsDestroyed  
CHECK_DEADLOCK FALSE
