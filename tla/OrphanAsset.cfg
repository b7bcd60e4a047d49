\* Creating the policy fails after the asset was created.
SPECIFICATION Spec
CONSTANTS
    Consumer = {c1}
    IdPrefix <- ExactIds
    Month = {1}
    Year = {2023}
    Request = {r1, r2, r3}
    MaxInFlight = 1
    MaxStamp = 1
    Faulty = {"createPolicy"}
    MaxFaults = 1
    Absent = Absent
    Blank = Blank
SYMMETRY RequestSymmetry
INVARIANT ReadableIsRevocable
CHECK_DEADLOCK FALSE
