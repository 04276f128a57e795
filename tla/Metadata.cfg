SPECIFICATION FairSpec
CONSTANTS
    p1 = p1
    p2 = p2
    Owner <- MCOwner
    Version = {1, 2}
    Config = {c1, c2}
    Standing = c1
    Record = {1, 2}
    Backdrop = {1}
    None = None
    Hand = Hand
    Foreign = Foreign
    Earlier = {None, Foreign}
    Retries = 1
    Scenes <- MCScenes
    EditManaged = FALSE
INVARIANT TypeOK
INVARIANT OneRecord
PROPERTY HandMadeKept
PROPERTY Recoverable
