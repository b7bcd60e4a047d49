\* Four handlers interleave at every await; lookups and asset deletes may fail.
SPECIFICATION Spec
CONSTANTS
    Consumer = {c1, c2}
    IdPrefix <- ExactIds
    Month = {1, 2}
    Year = {2023}
    Request = {r1, r2, r3, r4}
    MaxInFlight = 4
    MaxStamp = 1
    Faulty = {"query", "deleteAsset"}
    MaxFaults = 1
    Absent = Absent
    Blank = Blank
SYMMETRY FullSymmetry
INVARIANTS TypeOK ReadableIsRevocable RevokedIsBlank
CHECK_DEADLOCK FALSE
