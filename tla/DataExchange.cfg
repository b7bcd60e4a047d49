\* Months shared and unshared with two companies while the consumer asks twice; an id taken again by a share already past its check. The consumer's calls may fail.
SPECIFICATION ExchangeSpec
CONSTANTS
    Asset <- MonthAssets
    Initiator = {q1, q2}
    Reader = {}
    Job = Job
    MaxPolls = 0
    Faulty = {"connector", "fetch", "process"}
    MaxFaults = 1
    Data = Data
    Nothing = Nothing
    Me = c1
    Consumer = {c1, c2}
    IdPrefix <- ExactIds
    Month = {1}
    Year = {2023}
    Request = {r1, r2, r3}
    MaxInFlight = 2
    MaxStamp = 0
    ProviderFaulty = {}
    MaxProviderFaults = 0
    Absent = Absent
    Blank = Blank
INVARIANTS CachedExpires TransferUnderAgreement
PROPERTIES OnlyOwnData ConsumerPlaysItsPart NoDataAfterRevocation GoneForGood
SYMMETRY RequestSymmetry
CHECK_DEADLOCK FALSE
