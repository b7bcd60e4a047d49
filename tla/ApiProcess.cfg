\* One process: a share and an unshare, a listing, the key fetched at startup; any two calls fail.
SPECIFICATION ApiFairSpec
CONSTANTS
    Consumer = {c1}
    IdPrefix <- ExactIds
    Month = {1}
    Year = {2023}
    Request = {r1, r2}
    MaxInFlight = 2
    MaxStamp = 1
    Faulty = {"createAsset", "createContract", "deleteContract", "updateAsset", "deletePolicy", "process"}
    MaxFaults = 2
    Absent = Absent
    Blank = Blank
    Lister = {l1}
    Provider = provider
    RealmKey = {k1, k2}
    NoKey = NoKey
    Bad = Bad
INVARIANTS ApiTypeOK ContractBacked ServedWithKey PagesPartitionListing
PROPERTIES KeyArrives ListedIsShared NothingMissed
CHECK_DEADLOCK FALSE
