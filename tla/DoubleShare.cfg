\* Two shares of one month with one company, concurrently.
SPECIFICATION Spec
CONSTANTS
    Consumer = {c1}
    IdPrefix <- ExactIds
    Month = {1}
    Year = {2023}
    Request = {r1, r2}
    MaxInFlight = 2
    MaxStamp = 1
    Faulty = {}
    MaxFaults = 0
    Absent = Absent
    Blank = Blank
SYMMETRY RequestSymmetry
INVARIANT OneContractPerShare
CHECK_DEADLOCK FALSE
