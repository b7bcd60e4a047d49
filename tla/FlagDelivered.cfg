\* JSON whose rows say verification 0, false.
SPECIFICATION Spec
CONSTANTS
    ChunkSize = 2
    MaxRows = 1
    Period <- Months
    Days <- EdgeDays
    Zone <- OnlyUTC
    Wrong = {{}}
    Flag = {"0"}
    Form = {"json"}
    IsArray = {TRUE}
INVARIANT ValidatedIsDelivered
CHECK_DEADLOCK FALSE
