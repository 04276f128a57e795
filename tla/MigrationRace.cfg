SPECIFICATION Spec
CONSTANTS
    srt = srt
    mkv = mkv
    mp4 = mp4
    plan1 = plan1
    plan2 = plan2
    job1 = job1
    job2 = job2
    Owner = {p1, p2}
    NoOne = NoOne
    Absent = Absent
    Foreign = Foreign
    Torn = Torn
    Plan = {plan1}
    Job = {job1, job2}
    Source = {srt, mkv, mp4}
    JobsOf <- MCOnePlan
    ActionsOf <- MCTwoItems
    Target = {"t.srt", "t.mkv", "t.mp4"}
    Identity <- MCIdentity
    KeyOf <- MCKeyOf
    KindOf <- MCKindOf
    Index <- MCIndex
    Links <- MCAllLinks
    Found = {Absent}
    MaxFaults = 0
    MaxEdits = 1
    CutStreams = FALSE
    Overruns = FALSE
    EditRaces = TRUE
PROPERTY ForeignKept
CHECK_DEADLOCK FALSE
