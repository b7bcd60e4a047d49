\* Any two connector calls fail, with or without effect, or the process restarts;
\* initial states up to the names of the requests and companies.
SPECIFICATION SymmetricFairSpec
CONSTANTS
    Consumer = {c1, c2}
    IdPrefix <- ExactIds
    Month = {1}
    Year = {2023}
    Request = {r1, r2, r3}
    MaxInFlight = 3
    MaxStamp = 2
    Faulty = {"query", "createAsset", "createPolicy", "createContract", "deleteContract", "updateAsset", "deleteAsset", "deletePolicy", "process"}
    MaxFaults = 2
    Absent = Absent
    Blank = Blank
PROPERTIES ImplementsLedger EveryRequestAnswered HandlersAdvance
CHECK_DEADLOCK FALSE
