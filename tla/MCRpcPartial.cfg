CONSTANTS
    Id = {"a", "b"}
    NoId = "no id"
    Method = {"diff"}
    MaxRequests = 2
    Gate = 1
    Members = 2
    MaxTrees = 0
    FingerprintAt <- MCFingerprintAt
SPECIFICATION RpcSpec
INVARIANT AnswersAreWhole
CHECK_DEADLOCK FALSE
