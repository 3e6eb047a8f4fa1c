CONSTANTS
    h1 = h1
    h2 = h2
    h3 = h3
    fd1 = fd1
    fd2 = fd2
    Handle = {h1, h2, h3}
    Fd = {fd1, fd2}
    FdOf <- MCFdOf
    Caller = {t1, t2}
    Functor = {f1}
    MaxQueue = 0
    NoHandle = NoHandle
    NoCaller = NoCaller
    NoFunctor = NoFunctor
SPECIFICATION Spec
SYMMETRY Symmetry
INVARIANTS TypeOK DrainIsLegal EpollAgrees NoStaleDispatch
PROPERTIES LifeSpec
