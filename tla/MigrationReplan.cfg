SPECIFICATION FairSpec
CONSTANTS
    srt = srt
    mkv = mkv
    mp4 = mp4
    plan1 = plan1
    plan2 = plan2
    job1 = job1
    job2 = job2
    Owner = {p1, p2}
    NoOne = NoOne
    Absent = Absent
    Foreign = Foreign
    Torn = Torn
    Plan = {plan1, plan2}
    Job = {job1, job2}
    Source = {srt, mkv}
    JobsOf <- MCTwoPlans
    ActionsOf <- MCSameItem
    Target = {"t.srt", "t.mkv"}
    Identity <- MCIdentity
    KeyOf <- MCKeyOf
    KindOf <- MCKindOf
    Index <- MCIndex
    Links <- MCAllLinks
    Found = {Absent}
    MaxFaults = 1
    MaxEdits = 0
    CutStreams = FALSE
    Overruns = FALSE
    EditRaces = FALSE
PROPERTY Replannable
CHECK_DEADLOCK FALSE
