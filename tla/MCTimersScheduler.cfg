CONSTANTS
    Timers = 3
    MaxDelay = 2
    Interval = {0, 1}
SPECIFICATION FairSpec
INVARIANTS TypeOK TimersOwned TimerNotLate
PROPERTIES LifeSpec TimersExpire
