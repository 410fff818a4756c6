SPECIFICATION Spec
CONSTANTS
    Main = main
    Thread = {main, a, b}
    MaxThread = 3
    Rec = {r1, r2, r3}
    Block = {x, y}
    None = none
    Clients <- SerialClients
SYMMETRY MCSymmetry
INVARIANTS  RegistryCompact BlockRecorded
 
CHECK_DEADLOCK FALSE
