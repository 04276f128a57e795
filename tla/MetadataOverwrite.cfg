SPECIFICATION Spec
CONSTANTS
    p1 = p1
    p2 = p2
    Owner <- MCOwner
    Version = {1, 2}
    Config = {c1, c2}
    Standing = c1
    Record = {1, 2}
    Backdrop = {1}
    None = None
    Hand = Hand
    Foreign = Foreign
    Earlier = {None}
    Retries = 1
    Scenes <- MCAlone
    EditManaged = TRUE
PROPERTY HandMadeKept
