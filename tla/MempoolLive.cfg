SPECIFICATION FairSpec
CONSTANTS
    Main = main
    Thread = {main, a}
    MaxThread = 2
    Rec = {r1, r2}
    Block = {x, y}
    None = none
    Clients <- OrderlyClients
PROPERTIES MarkedReclaimed
CHECK_DEADLOCK FALSE
