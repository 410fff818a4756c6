SPECIFICATION FairSpec
CONSTANTS
    Main = main
    Thread = {main, a, b}
    MainPth = mp
    Stack = {s1, s2}
    Value = {v1}
    NoValue = nv
    NoPth = np
    Fresh = fresh
    Cleared = cleared
CHECK_DEADLOCK FALSE
PROPERTIES JoinWaitsForClear
