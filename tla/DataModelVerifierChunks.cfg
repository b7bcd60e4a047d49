\* Files of up to three rows in chunks of two, February, October and December, in UTC and in Berlin.
SPECIFICATION Spec
CONSTANTS
    ChunkSize = 2
    MaxRows = 3
    Period <- Months
    Days <- EdgeDays
    Zone <- Zones
    Wrong <- Defects
    Flag = {"1"}
    Form = {"parsed", "json", "csv"}
    IsArray = {TRUE, FALSE}
INVARIANTS TypeOK RowsReported EveryRowChecked UnloadedInMonth WarningIsExact
CHECK_DEADLOCK FALSE
