CONSTANTS
    Worker = {w1, w2, w3}
    Main = main
    NoLoop = NoLoop
    RingSize = 4
    n1 = n1
    n2 = n2
    n3 = n3
    Node = {n1, n2, n3}
    NoNode = NoNode
    Virtual <- MCVirtual
    Task = {t1, t2}
    k1 = k1
    k2 = k2
    Key = {k1, k2}
    Digest <- MCDigest
    Reader = {r1, r2}
    Grace = 2
    Hold = 1
    MaxChanges = 3
    Null = Null
SPECIFICATION FairSpec
INVARIANTS TypeOK LookupFindsServer
PROPERTIES MovesOnlyItsKeys LoopsInTurn CellSpec ChangeIsLoaded
CHECK_DEADLOCK FALSE
