\* Two companies, nothing fails.
SPECIFICATION ApiSpec
CONSTANTS
    Consumer = {c1, c2}
    IdPrefix <- ExactIds
    Month = {1}
    Year = {2023}
    Request = {r1, r2}
    MaxInFlight = 2
    MaxStamp = 1
    Faulty = {}
    MaxFaults = 0
    Absent = Absent
    Blank = Blank
    Lister = {l1}
    Provider = provider
    RealmKey = {k1}
    NoKey = NoKey
    Bad = Bad
INVARIANT CompaniesSharedWith
CHECK_DEADLOCK FALSE
