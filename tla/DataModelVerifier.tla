-------------------------- MODULE DataModelVerifier --------------------------
(***************************************************************************)
(* A data source fetched and verified, chunk by chunk, before it is shared *)
(* and on request (then in two passes, the second to warn of fields that   *)
(* are not known); and what becomes of the same data when it is delivered. *)
(* One request: nothing is shared between two.                             *)
(***************************************************************************)
EXTENDS MonthWindow, Sequences

CONSTANTS
    ChunkSize,    \* 9000 in the code
    MaxRows,      \* rows of a source (bound)
    Period,       \* months: records of a year and a month
    Days,         \* Period -> the unloading dates rows may have
    Zone,         \* time zones the process may run in, as in MonthWindow
    Wrong,        \* sets of the fields of a row that break the schema
    Flag,         \* how "verification" is written
    Form,         \* how the source arrives: "parsed", "json", "csv"
    IsArray       \* TRUE: an array of rows; FALSE: JSON that is none

ASSUME VerifierAssumption ==
    /\ ChunkSize \in Nat \ {0}
    /\ MaxRows \in Nat
    /\ Period \subseteq [year : Nat, month : 1 .. 12]
    /\ IsArray \subseteq BOOLEAN
    /\ Form \subseteq {"parsed", "json", "csv"}
    /\ \A z \in Zone :
          /\ z.standard \in -720 .. 840 /\ z.saving \in 1 .. 120
          /\ \A s \in z.summer : s.from \in Int /\ s.to \in Int
    /\ \A p \in Period : Days[p] \subseteq Int
    /\ \A w \in Wrong : "unloading_date" \notin w

Field == (UNION Wrong) \cup {"unloading_date"}

(* A row: its unloading date and what else is wrong with it.  "unknown" is *)
(* a field that is not in the schema.                                      *)
Row(p) == [date : Days[p], wrong : Wrong, flag : Flag]

(***************************************************************************)
(* What is fetched: parsed already (axios parses JSON), or text.  JSON     *)
(* that is not an array has no rows and no length.                         *)
(***************************************************************************)
Source(p) ==
    {s \in [form : Form, array : IsArray,
            rows : UNION {[1 .. n -> Row(p)] : n \in 0 .. MaxRows}] :
        ~ s.array => s.form # "csv" /\ s.rows = <<>>}

VARIABLES
    period, zone,   \* the month verified, the time zone of the process
    source,         \* the data
    caller,         \* "share" or "validate"
    pc,
    strict,         \* second pass: fields that are not known are errors
    chunk,          \* chunks done in this pass
    errors,         \* Field -> the numbers of the rows it is wrong in
    values,         \* rows of the chunks without errors
    verified,       \* rows the first pass has accepted
    warning,        \* fields that are not known
    verdict,        \* "none", "unavailable", "empty", "invalid" or "accepted"
    delivered       \* the rows' verification flags as the consumer gets them

input == <<period, zone, source, caller>>
vars == <<period, zone, source, caller, pc, strict, chunk, errors, values,
          verified, warning, verdict, delivered>>

NoErrors == [f \in Field |-> {}]
Undelivered == [ok |-> FALSE, flags |-> <<>>]

Init ==
    /\ period \in Period
    /\ zone \in Zone
    /\ source \in Source(period)
    /\ caller \in {"share", "validate"}
    /\ pc = "fetch"
    /\ strict = FALSE
    /\ chunk = 0
    /\ errors = NoErrors
    /\ values = <<>>
    /\ verified = <<>>
    /\ warning = {}
    /\ verdict = "none"
    /\ delivered = Undelivered

-----------------------------------------------------------------------------
(* Text without a row is refused; what comes parsed is taken as it is.     *)
EmptyText == source.form # "parsed" /\ source.array /\ source.rows = <<>>

Size == Len(source.rows)

(* Mutant: Math.floor.                                                     *)
FullChunks == Size \div ChunkSize

(* Math.ceil(size / CHUNK_SIZE)                                            *)
Chunks == (Size + ChunkSize - 1) \div ChunkSize

Slice == SubSeq(source.rows, chunk * ChunkSize + 1,
                IF (chunk + 1) * ChunkSize < Size THEN (chunk + 1) * ChunkSize ELSE Size)

(* Mutant: rows are numbered from one in every chunk.                      *)
NumberInChunk(i) == i

(* path[0] + firstRowNumber, for the i-th row of the chunk.                *)
RowNumber(i) == chunk * ChunkSize + i

(* The unloading dates the schema accepts.                                 *)
Schema ==
    [min |-> FirstDayOfMonth(period.year, period.month),
     end |-> LastDayOfMonth(period.year, period.month, zone)]

OutOfMonth(row, schema) == row.date < schema.min \/ row.date >= schema.end

(* Mutant: allowUnknown keeps its default in the second pass.              *)
KnownFaults(row, schema) ==
    (row.wrong \ {"unknown"})
      \cup {f \in {"unloading_date"} : OutOfMonth(row, schema)}

(* The fields the schema rejects in a row.                                 *)
Faults(row, schema) ==
    {f \in row.wrong : f = "unknown" => strict}
      \cup {f \in {"unloading_date"} : OutOfMonth(row, schema)}

HasErrors == \E f \in Field : errors[f] # {}

-----------------------------------------------------------------------------
(* From a URL or from S3; an uploaded file is there already.               *)
Fetch ==
    /\ pc = "fetch"
    /\ pc' = "convert"
    /\ UNCHANGED <<input, strict, chunk, errors, values, verified, warning,
                   verdict, delivered>>

(* The source gives nothing (an error of a URL is CouldntFetchDataInSource,*)
(* one of S3 goes through as it is), or is azure, which the schema takes   *)
(* and the fetcher does not.                                               *)
FetchFails ==
    /\ pc = "fetch"
    /\ verdict' = "unavailable"
    /\ pc' = "done"
    /\ UNCHANGED <<input, strict, chunk, errors, values, verified, warning, delivered>>

Refuse ==
    /\ pc = "convert"
    /\ EmptyText
    /\ verdict' = "empty"
    /\ pc' = "done"
    /\ UNCHANGED <<input, strict, chunk, errors, values, verified, warning, delivered>>

Convert ==
    /\ pc = "convert"
    /\ ~ EmptyText
    /\ pc' = "chunks"
    /\ UNCHANGED <<input, strict, chunk, errors, values, verified, warning,
                   verdict, delivered>>

(* Mutant: one chunk too many.                                             *)
ChunkTooMany ==
    /\ pc = "chunks"
    /\ chunk <= Chunks
    /\ chunk' = chunk + 1
    /\ UNCHANGED <<input, pc, strict, errors, values, verified, warning, verdict,
                   delivered>>

(* _runValidationAsync never waits: chunks are validated in their order.   *)
(* One error of a chunk keeps all its rows out of the values.              *)
ValidateChunk ==
    /\ pc = "chunks"
    /\ chunk < Chunks
    /\ chunk' = chunk + 1
    /\ \E schema \in {Schema}, rows \in {Slice} :
       LET found == [f \in Field |->
               {RowNumber(i) : i \in {j \in DOMAIN rows : f \in Faults(rows[j], schema)}}]
       IN  \/ /\ found = NoErrors
              /\ values' = values \o rows
              /\ UNCHANGED errors
           \/ /\ found # NoErrors
              /\ errors' = [f \in Field |-> errors[f] \cup found[f]]
              /\ UNCHANGED values
    /\ UNCHANGED <<input, pc, strict, verified, warning, verdict, delivered>>

(* The first pass is over: throw, return, or go on to the second pass.     *)
EndFirstPass ==
    /\ pc = "chunks" /\ ~ strict /\ chunk = Chunks
    /\ \/ /\ HasErrors
          /\ verdict' = "invalid"
          /\ pc' = "done"
          /\ UNCHANGED <<strict, chunk, values, verified>>
       \/ /\ ~ HasErrors
          /\ verified' = values
          /\ \/ /\ caller = "share"
                /\ verdict' = "accepted"
                /\ pc' = "done"
                /\ UNCHANGED <<strict, chunk, values>>
             \/ /\ caller = "validate"
                /\ strict' = TRUE
                /\ chunk' = 0
                /\ values' = <<>>
                /\ UNCHANGED <<verdict, pc>>
    /\ UNCHANGED <<input, errors, warning, delivered>>

(* What the second pass throws becomes a warning.                          *)
EndSecondPass ==
    /\ pc = "chunks" /\ strict /\ chunk = Chunks
    /\ warning' = {f \in Field : errors[f] # {}}
    /\ verdict' = "accepted"
    /\ pc' = "done"
    /\ UNCHANGED <<input, strict, chunk, errors, values, verified, delivered>>

-----------------------------------------------------------------------------
(* Delivery: the consumer's callback parses the same data on its own.      *)

(* JSON's own true and false ("True", "False") have no toUpperCase.        *)
Text == {"1", "0", "true", "false"}

(* toUpperCase() === 'TRUE' || Number() === 1 || Boolean(): the last is    *)
(* true of any text that is not empty.                                     *)
Truthy(flag) == flag \in Text

(* What the schema takes the flag for: joi.boolean, '0' false, '1' true.   *)
Meant(flag) == flag \in {"1", "true", "True"}

(* Neither JSON that is no array nor a flag that is no text gets through.  *)
Deliver ==
    /\ pc = "done" /\ caller = "share" /\ verdict = "accepted"
    /\ LET ok == source.array /\ \A i \in DOMAIN source.rows : source.rows[i].flag \in Text
       IN  delivered' = IF ok
                        THEN [ok |-> TRUE,
                              flags |-> [i \in DOMAIN source.rows |-> Truthy(source.rows[i].flag)]]
                        ELSE Undelivered
    /\ pc' = "delivered"
    /\ UNCHANGED <<input, strict, chunk, errors, values, verified, warning, verdict>>

Next ==
    \/ Fetch \/ FetchFails
    \/ Refuse \/ Convert \/ ValidateChunk
    \/ EndFirstPass \/ EndSecondPass \/ Deliver

Spec == Init /\ [][Next]_vars

-----------------------------------------------------------------------------
(* Correctness.                                                            *)

(* Types; the loop never passes the last chunk.                            *)
TypeOK ==
    /\ period \in Period /\ zone \in Zone
    /\ source.rows \in Seq(Row(period))
    /\ caller \in {"share", "validate"}
    /\ pc \in {"fetch", "convert", "chunks", "done", "delivered"}
    /\ strict \in BOOLEAN
    /\ chunk \in 0 .. Chunks
    /\ errors \in [Field -> SUBSET (1 .. MaxRows)]
    /\ values \in Seq(Row(period)) /\ verified \in Seq(Row(period))
    /\ warning \subseteq Field
    /\ verdict \in {"none", "unavailable", "empty", "invalid", "accepted"}
    /\ delivered \in [ok : BOOLEAN, flags : Seq(BOOLEAN)]

Known(row) == row.wrong \ {"unknown"}

(***************************************************************************)
(* A rejected file is reported with the rows, counted from the top of the  *)
(* file, in which each field is wrong: none of another chunk, none missing *)
(* because an earlier chunk failed, none for a field that is only unknown. *)
(***************************************************************************)
RowsReported ==
    verdict = "invalid" =>
        \A f \in Field \ {"unloading_date"} :
            errors[f] = {n \in DOMAIN source.rows : f \in Known(source.rows[n])}

(***************************************************************************)
(* Verification accepts a file only if none of its rows is wrong, and the  *)
(* rows it returns (their number is put on the asset) are the file's: the  *)
(* cut into chunks loses, repeats and reorders nothing.                    *)
(***************************************************************************)
EveryRowChecked ==
    verdict = "accepted" =>
        /\ \A n \in DOMAIN source.rows : Known(source.rows[n]) = {}
        /\ verified = source.rows

InMonth(t) ==
    /\ Midnight(period.year, period.month, 1) <= t
    /\ t < Midnight(period.year, period.month + 1, 1)

(* No change of clocks within a day of t.                                  *)
Steady(t) ==
    \A s \in zone.summer : \A change \in {s.from, s.to} :
        change <= t - Day \/ t + Day <= change

(***************************************************************************)
(* Where a process runs in UTC or east of it, and clocks do not change at  *)
(* either end of the month, the unloading dates accepted (days, without a  *)
(* time) are the days of the month.  One other day is, and has to be       *)
(* accepted for what the schema's dates are: the first of the next month   *)
(* where clocks have been set back since the first of a month of two       *)
(* digits (October in Europe).  West of UTC, the date the schema adds a    *)
(* month to is another day.                                                *)
(***************************************************************************)
UnloadedInMonth ==
    LET first == Midnight(period.year, period.month, 1)
        next == Midnight(period.year, period.month + 1, 1)
        setBack == period.month >= 10 /\ Summer(first, zone) /\ ~ Summer(next, zone)
        outside == {n \in DOMAIN source.rows :
                      LET t == source.rows[n].date
                      IN  ~ InMonth(t) /\ ~ (setBack /\ t = next)}
    IN  zone.standard >= 0 /\ Steady(first) /\ Steady(next) =>
            /\ verdict = "accepted" => outside = {}
            /\ verdict = "invalid" => errors["unloading_date"] = outside

(***************************************************************************)
(* A validation on request accepts what a share would accept, and warns of *)
(* the fields that are not known and of no other, if a row has one.        *)
(***************************************************************************)
WarningIsExact ==
    verdict # "none" =>
        warning = {f \in {"unknown"} :
                     /\ caller = "validate" /\ verdict = "accepted"
                     /\ \E n \in DOMAIN source.rows : f \in source.rows[n].wrong}

(***************************************************************************)
(* What verification accepted is what the consumer gets: the transfer does *)
(* not fail on it, and each flag has the value the schema takes it for.    *)
(***************************************************************************)
ValidatedIsDelivered ==
    pc = "delivered" =>
        delivered = [ok |-> TRUE,
                     flags |-> [n \in DOMAIN source.rows |-> Meant(source.rows[n].flag)]]

=============================================================================
