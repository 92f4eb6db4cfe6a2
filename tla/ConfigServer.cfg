SPECIFICATION FairSpec
CONSTANTS
    w1 = w1
    w2 = w2
    None = None
    Workers = {w1, w2}
    Keys = {"configsrv_port", "configsrv_dist"}
    Values = {"8080", "text"}
    Numbers = {"8080"}
    Requests <- MCRequests
    Blocked = {"TERM"}
PROPERTIES MapSpec RequestsAnswered TermStops
CHECK_DEADLOCK FALSE
