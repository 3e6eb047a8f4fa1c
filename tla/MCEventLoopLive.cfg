CONSTANTS
    h1 = h1
    h2 = h2
    h3 = h3
    fd1 = fd1
    fd2 = fd2
    Handle = {h1}
    Fd = {fd1}
    FdOf <- MCFdOf
    Caller = {t1, t2}
    Functor = {f1, f2}
    MaxQueue = 2
    NoHandle = NoHandle
    NoCaller = NoCaller
    NoFunctor = NoFunctor
SPECIFICATION FairSpec
INVARIANT NoLostWakeUp
PROPERTIES FifoSpec QueuedFunctorRuns UpdateIsDrained QuitEndsLoop
