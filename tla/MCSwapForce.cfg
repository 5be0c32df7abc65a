CONSTANTS
    r1 = r1
    r2 = r2
    w1 = w1
    s1 = s1
    None = None
    Repo = {r1}
    Mirrored = {r1}
    Work = {w1}
    SrcWork = {s1}
    MaxTip = 1
    Ancestors <- MCLinear
    MaxStash = 1
    MaxFaults = 0
    MaxUserActs = 3
    MaxSrcActs = 0
    Racing = FALSE
    DetachedCommits = FALSE
SPECIFICATION Spec
PROPERTIES
    ForceRescuesCommits
CHECK_DEADLOCK FALSE
