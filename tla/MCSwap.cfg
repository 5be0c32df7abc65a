CONSTANTS
    r1 = r1
    r2 = r2
    w1 = w1
    s1 = s1
    None = None
    Repo <- MCRepo
    Mirrored <- MCMirroredOne
    Work = {w1}
    SrcWork = {s1}
    MaxTip = 1
    Ancestors <- MCLinear
    MaxStash = 1
    MaxFaults = 1
    MaxUserActs = 1
    MaxSrcActs = 2
    Racing = FALSE
    DetachedCommits = FALSE
SPECIFICATION Spec
INVARIANTS
    TypeOK
    WorkNeverLost
    UnjournaledNeedsFault
    FailedActivationRestores
    TargetTracksTemp
    NeverSelfDrift
PROPERTIES
    EntryDroppedOnlyWhenRestored
CHECK_DEADLOCK FALSE
