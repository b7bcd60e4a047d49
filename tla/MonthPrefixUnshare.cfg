\* October is shared, January is unshared.
SPECIFICATION Spec
CONSTANTS
    Consumer = {c1}
    IdPrefix <- ExactIds
    Month = {1, 10}
    Year = {2023}
    Request = {r1, r2}
    MaxInFlight = 1
    MaxStamp = 0
    Faulty = {}
    MaxFaults = 0
    Absent = Absent
    Blank = Blank
SYMMETRY RequestSymmetry
PROPERTY UnshareOnlyTarget
CHECK_DEADLOCK FALSE
