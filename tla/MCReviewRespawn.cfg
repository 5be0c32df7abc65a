CONSTANTS
    m1 = m1
    m2 = m2
    t1 = t1
    t2 = t2
    None = None
    Msg = {m1, m2}
    First = m1
    Tab = {t1}
    MaxFindings = 1
    MaxTrouble = 1
SPECIFICATION Spec
INVARIANTS
    FollowUpRespawns
CHECK_DEADLOCK FALSE
