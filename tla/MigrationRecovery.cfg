SPECIFICATION FairSpec
CONSTANTS
    srt = srt
    mkv = mkv
    mp4 = mp4
    plan1 = plan1
    plan2 = plan2
    job1 = job1
    job2 = job2
    Owner = {p1, p2}
    NoOne = NoOne
    Absent = Absent
    Foreign = Foreign
    Torn = Torn
    Plan = {plan1}
    Job = {job1, job2}
    Source = {srt, mkv, mp4}
    JobsOf <- MCOnePlan
    ActionsOf <- MCTwoItems
    Target = {"t.srt", "t.mkv", "t.mp4"}
    Identity <- MCIdentity
    KeyOf <- MCKeyOf
    KindOf <- MCKindOf
    Index <- MCIndex
    Links <- MCAllLinks
    Found = {Absent}
    MaxFaults = 2
    MaxEdits = 0
    CutStreams = TRUE
    Overruns = FALSE
    EditRaces = FALSE
INVARIANT TypeOK
INVARIANT LedgerTruthful
PROPERTY ImplementsMover
PROPERTY Recoverable
