CONSTANTS
    Timers = 3
    MaxDelay = 2
    Interval = {0, 1}
SPECIFICATION Spec
INVARIANTS NeverLate
