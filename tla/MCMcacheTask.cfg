CONSTANTS
    MaxLines = 4
    MaxBody = 2
SPECIFICATION FairSpec
INVARIANTS TypeOK StateAtRest ForwardedInOrder RepliesInOrder
PROPERTIES BodyFollowsHead HeadInHandIsServed BodyIsTaken
CHECK_DEADLOCK FALSE
