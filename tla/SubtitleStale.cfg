SPECIFICATION Spec
CONSTANTS
    w1 = w1
    w2 = w2
    m1 = m1
    m2 = m2
    Owner = {p1}
    NoOne = NoOne
    None = None
    Failed = Failed
    Hand = Hand
    Version = {1}
    Worker = {w1, w2}
    Model = {m1, m2}
    Ocr = {w1, w2}
    Asr = {w1, w2}
    Tracks <- MCBitmapOnly
    External = {}
    Margin = 1
    Job <- MCJob
    KindOf <- MCKindOf
    Standing <- MCStanding
    Other <- MCOther
    Attempts = 2
    MaxFaults = 0
    MaxEdits = 1
    EditRaces = FALSE
INVARIANT KeyTellsTheSource
