\* Blanking the asset fails during an unshare.
SPECIFICATION Spec
CONSTANTS
    Consumer = {c1}
    IdPrefix <- ExactIds
    Month = {1}
    Year = {2023}
    Request = {r1, r2}
    MaxInFlight = 1
    MaxStamp = 0
    Faulty = {"updateAsset"}
    MaxFaults = 1
    Absent = Absent
    Blank = Blank
SYMMETRY RequestSymmetry
INVARIANT ReadableIsRevocable
CHECK_DEADLOCK FALSE
