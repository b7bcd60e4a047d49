\* A request for a month of two assets and a reader; any two calls may fail, the process may restart.
SPECIFICATION FairSpec
CONSTANTS
    Asset = {a1, a2}
    Initiator = {q1}
    Reader = {g1}
    Job = Job
    MaxPolls = 2
    Faulty = {"connector", "redis", "fetch", "token", "process", "cut"}
    MaxFaults = 2
    Data = Data
    Nothing = Nothing
INVARIANTS TypeOK JobIsTransferred
PROPERTIES InitiateAnswered DataArrives InitiateAdvances
CHECK_DEADLOCK FALSE
