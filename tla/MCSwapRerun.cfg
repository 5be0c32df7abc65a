CONSTANTS
    r1 = r1
    r2 = r2
    w1 = w1
    s1 = s1
    None = None
    Repo = {r1}
    Mirrored = {}
    Work = {w1}
    SrcWork = {s1}
    MaxTip = 1
    Ancestors <- MCLinear
    MaxStash = 0
    MaxFaults = 1
    MaxUserActs = 0
    MaxSrcActs = 0
    Racing = FALSE
    DetachedCommits = FALSE
SPECIFICATION Spec
PROPERTIES
    UndoneSwapReconciles
CHECK_DEADLOCK FALSE
