----------------------- MODULE DataModelVerifierProofs -----------------------
(***************************************************************************)
(* Proofs about DataModelVerifier, for every size of chunk, number of      *)
(* rows, month, set of faults a row may have and time zone.                *)
(***************************************************************************)
EXTENDS DataModelVerifier, DivisionLemmas, SequenceTheorems, TLAPS

-----------------------------------------------------------------------------
(***************************************************************************)
(* The window of unloading dates.  For a process that runs in UTC or east  *)
(* of it the date the schema adds a month to is the first of the month, in *)
(* the zone of the process, and a month later is the first of the next, by *)
(* the clocks of that day.                                                 *)
(***************************************************************************)
LEMMA DaysAreNumbers ==
    \A y \in Int : \A m \in 1 .. 13 : DayNumber(y, m, 1) \in Int
  BY DEF DayNumber, DaysBefore, Leap

(* Months of a year follow one another.                                    *)
LEMMA MonthsFollow ==
    \A y \in Int : \A m, n \in 1 .. 13 : m < n => DayNumber(y, m, 1) < DayNumber(y, n, 1)
  BY DEF DayNumber, DaysBefore, Leap

(* The month after December is January of the next year.                   *)
LEMMA YearsFollow ==
    ASSUME NEW y \in Int
    PROVE  DayNumber(y - 1, 13, 1) = DayNumber(y, 1, 1)
  BY DEF DayNumber, DaysBefore, Leap

(* The first of a month is in that month and in no other.                  *)
LEMMA FirstIsInItsMonth ==
    ASSUME NEW y \in Int, NEW m \in 1 .. 12
    PROVE  MonthOf(DayNumber(y, m, 1), y) = [year |-> y, month |-> m]
<1> DEFINE Candidate == [year : {y - 1, y}, month : 1 .. 12]
           first == DayNumber(y, m, 1)
           In(c) == /\ DayNumber(c.year, c.month, 1) <= first
                    /\ first < DayNumber(c.year, c.month + 1, 1)
           this == [year |-> y, month |-> m]
<1>1. this \in Candidate /\ In(this)
  <2>0. m \in 1 .. 13 /\ m + 1 \in 1 .. 13 /\ m < m + 1
    OBVIOUS
  <2>1. first \in Int /\ first < DayNumber(y, m + 1, 1)
    BY <2>0, DaysAreNumbers, MonthsFollow
  <2>2. this.year = y /\ this.month = m
    OBVIOUS
  <2>3. QED
    BY <2>1, <2>2
<1>2. ASSUME NEW c \in Candidate, In(c) PROVE c = this
  <2>1. /\ c.year \in {y - 1, y} /\ c.year \in Int
        /\ c.month \in 1 .. 12 /\ c.month \in 1 .. 13 /\ c.month + 1 \in 1 .. 13
        /\ m \in 1 .. 13 /\ 1 \in 1 .. 13 /\ 13 \in 1 .. 13
        /\ c = [year |-> c.year, month |-> c.month]
    OBVIOUS
  <2> DEFINE from == DayNumber(c.year, c.month, 1)
             to == DayNumber(c.year, c.month + 1, 1)
  <2>2. /\ from \in Int /\ to \in Int /\ first \in Int
        /\ DayNumber(c.year, 13, 1) \in Int /\ DayNumber(y, 1, 1) \in Int
    BY <2>1, DaysAreNumbers
  <2>3. from <= first /\ first < to
    BY <1>2
  <2>4. c.year = y
    <3>1. to <= DayNumber(c.year, 13, 1)
      <4>1. c.month + 1 = 13 \/ c.month + 1 < 13
        BY <2>1
      <4>2. QED
        BY <2>1, <2>2, <4>1, MonthsFollow
    <3>2. DayNumber(y, 1, 1) <= first
      <4>1. m = 1 \/ 1 < m
        OBVIOUS
      <4>2. QED
        BY <2>1, <2>2, <4>1, MonthsFollow
    <3>3. c.year = y - 1 => DayNumber(c.year, 13, 1) = DayNumber(y, 1, 1)
      BY YearsFollow
    <3> HIDE DEF from, to, first
    <3>4. QED
      BY <2>1, <2>2, <2>3, <3>1, <3>2, <3>3
  <2>5. ~ (c.month < m)
    <3>1. c.month < m => to <= first
      <4>1. c.month < m => c.month + 1 = m \/ c.month + 1 < m
        BY <2>1
      <4>2. QED
        BY <2>1, <2>2, <2>4, <4>1, MonthsFollow
    <3> HIDE DEF from, to, first
    <3>2. QED
      BY <2>2, <2>3, <3>1
  <2>6. ~ (m < c.month)
    <3>1. m < c.month => first < from
      BY <2>1, <2>4, MonthsFollow
    <3> HIDE DEF from, to, first
    <3>2. QED
      BY <2>2, <2>3, <3>1
  <2>7. QED
    BY <2>1, <2>4, <2>5, <2>6
<1>3. MonthOf(first, y) = CHOOSE c \in Candidate : In(c)
  BY DEF MonthOf
<1> HIDE DEF Candidate, In, this
<1>4. (CHOOSE c \in Candidate : In(c)) \in Candidate /\ In(CHOOSE c \in Candidate : In(c))
  BY <1>1
<1>5. MonthOf(first, y) = this
  BY <1>2, <1>3, <1>4
<1>6. QED
  BY <1>5 DEF this

(* Around a midnight no change of clocks is near, one offset is in force,  *)
(* and a local time and its instant are that offset apart.                 *)
ZoneOK ==
    /\ zone.standard \in 0 .. 840 /\ zone.saving \in 1 .. 120
    /\ \A s \in zone.summer : s.from \in Int /\ s.to \in Int

LEMMA SummerAround ==
    ASSUME ZoneOK, NEW t \in Int, Steady(t),
           NEW u \in Int, t - Day < u, u < t + Day
    PROVE  /\ Summer(u, zone) <=> Summer(t, zone)
           /\ (\E s \in zone.summer : s.from < u /\ u <= s.to) <=> Summer(t, zone)
<1>1. ASSUME NEW s \in zone.summer
      PROVE  /\ s.from <= u /\ u < s.to <=> s.from <= t /\ t < s.to
             /\ s.from < u /\ u <= s.to <=> s.from <= t /\ t < s.to
  <2> DEFINE from == s.from
             to == s.to
  <2>1. /\ from \in Int /\ to \in Int
        /\ from <= t - Day \/ t + Day <= from
        /\ to <= t - Day \/ t + Day <= to
    BY DEF ZoneOK, Steady
  <2> HIDE DEF from, to
  <2>2. /\ from <= u /\ u < to <=> from <= t /\ t < to
        /\ from < u /\ u <= to <=> from <= t /\ t < to
    BY <2>1 DEF Day
  <2>3. QED
    BY <2>2 DEF from, to
<1>2. QED
  BY <1>1, Zenon DEF Summer

(* The offset is one of two.                                               *)
LEMMA OffsetIs ==
    ASSUME ZoneOK, NEW t \in Int, NEW std, NEW sav,
           std = zone.standard, sav = zone.saving
    PROVE  /\ std \in 0 .. 840 /\ sav \in 1 .. 120
           /\ Summer(t, zone) => Offset(t, zone) = std + sav
           /\ ~ Summer(t, zone) => Offset(t, zone) = std
<1>1. std \in 0 .. 840 /\ sav \in 1 .. 120
  BY Zenon DEF ZoneOK
<1>2. Offset(t, zone) = std + (IF Summer(t, zone) THEN sav ELSE 0)
  BY Zenon DEF Offset
<1>3. ASSUME NEW o, NEW summer \in BOOLEAN, o = std + (IF summer THEN sav ELSE 0)
      PROVE  (summer => o = std + sav) /\ (~ summer => o = std)
  BY <1>1, <1>3
<1>4. Summer(t, zone) \in BOOLEAN
  BY DEF Summer
<1>5. QED
  BY <1>1, <1>2, <1>3, <1>4, Zenon

LEMMA OffsetAround ==
    ASSUME ZoneOK, NEW t \in Int, Steady(t)
    PROVE  /\ Offset(t, zone) \in 0 .. 960
           /\ \A u \in Int : t - Day < u /\ u < t + Day => Offset(u, zone) = Offset(t, zone)
<1> DEFINE std == zone.standard
           sav == zone.saving
<1>1. /\ std \in 0 .. 840 /\ sav \in 1 .. 120
      /\ Summer(t, zone) => Offset(t, zone) = std + sav
      /\ ~ Summer(t, zone) => Offset(t, zone) = std
  BY OffsetIs
<1> HIDE DEF std, sav
<1>2. Offset(t, zone) \in 0 .. 960
  <2>1. CASE Summer(t, zone)
    BY <1>1, <2>1
  <2>2. CASE ~ Summer(t, zone)
    BY <1>1, <2>2
  <2>3. QED
    BY <2>1, <2>2
<1>3. ASSUME NEW u \in Int, t - Day < u, u < t + Day
      PROVE  Offset(u, zone) = Offset(t, zone)
  <2>1. Summer(u, zone) <=> Summer(t, zone)
    BY <1>3, SummerAround
  <2>2. QED
    BY <2>1 DEF Offset
<1>4. QED
  BY <1>2, <1>3

LEMMA InstantAround ==
    ASSUME ZoneOK, NEW t \in Int, Steady(t),
           NEW local \in Int, t <= local, local <= t + 960
    PROVE  /\ Instant(local, zone) = local - Offset(t, zone)
           /\ EndBefore(local, zone) = local - Offset(t, zone)
<1> DEFINE std == zone.standard
           sav == zone.saving
           early == local - std - sav
<1>1. /\ std \in 0 .. 840 /\ sav \in 1 .. 120
      /\ Summer(t, zone) => Offset(t, zone) = std + sav
      /\ ~ Summer(t, zone) => Offset(t, zone) = std
  BY OffsetIs
<1>2. Instant(local, zone) = IF Summer(early, zone) THEN early ELSE early + sav
  BY DEF Instant
<1>3. EndBefore(local, zone) =
        IF \E s \in zone.summer : s.from < early /\ early <= s.to
        THEN early ELSE early + sav
  BY DEF EndBefore
<1> HIDE DEF std, sav
<1>4. early \in Int /\ t - Day < early /\ early < t + Day
  BY <1>1 DEF Day
<1>5. Summer(t, zone) => early = local - Offset(t, zone)
  BY <1>1
<1>6. ~ Summer(t, zone) => early + sav = local - Offset(t, zone)
  BY <1>1
<1> HIDE DEF early
<1>7. /\ Summer(early, zone) <=> Summer(t, zone)
      /\ (\E s \in zone.summer : s.from < early /\ early <= s.to) <=> Summer(t, zone)
  BY <1>4, SummerAround
<1>8. CASE Summer(t, zone)
  BY <1>2, <1>3, <1>5, <1>7, <1>8
<1>9. CASE ~ Summer(t, zone)
  BY <1>2, <1>3, <1>6, <1>7, <1>9
<1>10. QED
  BY <1>8, <1>9

(* The window ends at the first of the next month, earlier by its offset;  *)
(* later again by that of the first of the month where the text of the     *)
(* month is an ISO date.                                                   *)
LEMMA WindowEnds ==
    ASSUME ZoneOK, NEW y \in Int, NEW m \in 1 .. 12,
           Steady(Midnight(y, m, 1)), Steady(Midnight(y, m + 1, 1))
    PROVE  LET first == Midnight(y, m, 1)
               next == Midnight(y, m + 1, 1)
           IN  /\ first \in Int /\ next \in Int /\ next % Day = 0
               /\ Offset(first, zone) \in 0 .. 960 /\ Offset(next, zone) \in 0 .. 960
               /\ LastDayOfMonth(y, m, zone)
                    = next - Offset(next, zone)
                        + (IF m >= 10 THEN Offset(first, zone) ELSE 0)
<1> DEFINE first == Midnight(y, m, 1)
           next == Midnight(y, m + 1, 1)
<1>0. Steady(first) /\ Steady(next)
  OBVIOUS
<1> DEFINE f == DayNumber(y, m, 1)
           n == DayNumber(y, m + 1, 1)
<1>1. f \in Int /\ n \in Int
  <2>1. m \in 1 .. 13 /\ m + 1 \in 1 .. 13
    OBVIOUS
  <2>2. QED
    BY <2>1, DaysAreNumbers
<1>2. first = 1440 * f /\ next = 1440 * n
  BY DEF Midnight, Day
<1> HIDE DEF f, n, first, next
<1>3. first \in Int /\ next \in Int /\ next % Day = 0
  BY <1>1, <1>2 DEF Day
<1> DEFINE here == Offset(first, zone)
           there == Offset(next, zone)
           rest == IF m >= 10 THEN here ELSE 0
           t == Parsed(y, m, zone)
<1>4. here \in 0 .. 960 /\ there \in 0 .. 960 /\ rest \in 0 .. 960
  BY <1>3, <1>0, OffsetAround
<1>5. t = first + rest - here
  <2>1. Instant(first, zone) = first - here
    <3>1. first <= first /\ first <= first + 960
      BY <1>3
    <3>2. QED
      BY <1>3, <3>1, <1>0, InstantAround
  <2> HIDE DEF here
  <2>2. QED
    <3>1. t = IF m >= 10 THEN first ELSE Instant(first, zone)
      BY DEF Parsed, first
    <3> HIDE DEF t
    <3>2. QED
      BY <1>3, <1>4, <2>1, <3>1
<1>6. Offset(t, zone) = here
  <2> HIDE DEF here, rest, t
  <2>1. t \in Int /\ first - Day < t /\ t < first + Day
    BY <1>3, <1>4, <1>5 DEF Day
  <2>2. QED
    BY <1>3, <2>1, <1>0, OffsetAround DEF here
<1> DEFINE local == t + Offset(t, zone)
<1>7. local \div Day = f /\ local % Day = rest
  <2> HIDE DEF here, rest, t
  <2>1. local = 1440 * f + rest
    BY <1>2, <1>1, <1>4, <1>5, <1>6
  <2> HIDE DEF local
  <2>2. QED
    BY <1>1, <1>4, <2>1 DEF Day
<1>8. AddMonth(t, y, zone) = next + rest - there
  <2>1. MonthOf(f, y) = [year |-> y, month |-> m]
    BY FirstIsInItsMonth DEF f
  <2>2. f - DayNumber(y, m, 1) + 1 = 1
    BY <1>1 DEF f
  <2> DEFINE c == MonthOf(local \div Day, y)
  <2>3. c.year = y /\ c.month = m
    BY <1>7, <2>1
  <2> HIDE DEF here, there, rest, t
  <2>4. AddMonth(t, y, zone) =
          Instant(Midnight(c.year, c.month + 1,
                           local \div Day - DayNumber(c.year, c.month, 1) + 1)
                    + (local % Day), zone)
    BY DEF AddMonth
  <2> HIDE DEF c, local
  <2>5. AddMonth(t, y, zone) = Instant(next + rest, zone)
    <3>1. Midnight(c.year, c.month + 1, local \div Day - DayNumber(c.year, c.month, 1) + 1)
            = next
      BY <1>7, <2>2, <2>3 DEF next
    <3>2. QED
      BY <1>7, <2>4, <3>1
  <2> DEFINE then == next + rest
  <2>6. then \in Int /\ next <= then /\ then <= next + 960
    BY <1>3, <1>4
  <2> HIDE DEF then
  <2>7. Instant(then, zone) = then - there
    BY <1>3, <2>6, <1>0, InstantAround DEF there
  <2>8. then = next + rest
    BY DEF then
  <2>9. QED
    BY <1>3, <1>4, <2>5, <2>7, <2>8
<1>9. LastDayOfMonth(y, m, zone) = next + rest - there
  <2> DEFINE u == AddMonth(t, y, zone)
             then == next + rest
  <2>1. LastDayOfMonth(y, m, zone) = EndBefore(u + Offset(u, zone), zone)
    BY DEF LastDayOfMonth
  <2>2. u = next + rest - there
    BY <1>8
  <2> HIDE DEF here, there, rest, u
  <2>3. u \in Int /\ next - Day < u /\ u < next + Day
    <3>1. u \in Int
      BY <1>3, <1>4, <2>2
    <3>2. next - Day < u
      BY <1>3, <1>4, <2>2 DEF Day
    <3>3. u < next + Day
      BY <1>3, <1>4, <2>2 DEF Day
    <3>4. QED
      BY <3>1, <3>2, <3>3
  <2>4. Offset(u, zone) = there
    BY <1>3, <2>3, <1>0, OffsetAround DEF there
  <2>5. u + Offset(u, zone) = then
    BY <1>3, <1>4, <2>2, <2>4
  <2>6. then \in Int /\ next <= then /\ then <= next + 960
    BY <1>3, <1>4
  <2> HIDE DEF then
  <2>7. EndBefore(then, zone) = then - there
    BY <1>3, <2>6, <1>0, InstantAround DEF there
  <2>8. then = next + rest
    BY DEF then
  <2>9. QED
    BY <1>3, <1>4, <2>1, <2>5, <2>7, <2>8
<1>10. QED
  <2>1. LastDayOfMonth(y, m, zone) = next - there + (IF m >= 10 THEN here ELSE 0)
    <3> HIDE DEF here, there, t
    <3>1. QED
      BY <1>3, <1>4, <1>9
  <2>2. QED
    BY <1>3, <1>4, <2>1, Zenon DEF first, next, here, there

-----------------------------------------------------------------------------
(***************************************************************************)
(* The invariant: in each pass the errors are those of the rows checked so *)
(* far, whatever the chunks, and as long as there are none the values are  *)
(* those rows; and what the passes that are over have found.               *)
(***************************************************************************)
Checked == IF chunk * ChunkSize < Size THEN chunk * ChunkSize ELSE Size

ErrorsInv ==
    \A f \in Field :
        errors[f] = {n \in 1 .. Checked : f \in Faults(source.rows[n], Schema)}

ValuesInv == ~ HasErrors => values = SubSeq(source.rows, 1, Checked)

(* The first pass is over and has found nothing.                           *)
Clean ==
    /\ verified = source.rows
    /\ \A n \in DOMAIN source.rows :
          Known(source.rows[n]) = {} /\ ~ OutOfMonth(source.rows[n], Schema)

PassInv ==
    /\ strict => caller = "validate" /\ Clean
    /\ verdict = "none" => warning = {}
    /\ verdict # "none" => pc \in {"done", "delivered"}
    /\ verdict \in {"unavailable", "empty"} => warning = {}
    /\ verdict = "invalid" => ~ strict /\ chunk = Chunks /\ warning = {}
    /\ verdict = "accepted" =>
          /\ Clean
          /\ caller = "share" => warning = {}
          /\ caller = "validate" =>
                strict /\ chunk = Chunks /\ warning = {f \in Field : errors[f] # {}}

VerifierInv ==
    /\ TypeOK
    /\ source \in Source(period)
    /\ ErrorsInv
    /\ ValuesInv
    /\ PassInv

(* The rows of a source are a sequence, not longer than the bound.         *)
LEMMA RowsAreTyped ==
    ASSUME NEW p \in Period, NEW s \in Source(p)
    PROVE  /\ s.rows \in Seq(Row(p))
           /\ Len(s.rows) \in 0 .. MaxRows
           /\ DOMAIN s.rows = 1 .. Len(s.rows)
<1>1. PICK n \in 0 .. MaxRows : s.rows \in [1 .. n -> Row(p)]
  BY DEF Source
<1>2. s.rows \in Seq(Row(p)) /\ Len(s.rows) = n
  BY <1>1, VerifierAssumption
<1>3. QED
  BY <1>1, <1>2

(* A row of the source has one of the sets of wrong fields, all of them    *)
(* fields of the schema, and one of the dates of its month.                *)
LEMMA EachRow ==
    ASSUME VerifierInv, NEW n \in DOMAIN source.rows
    PROVE  /\ source.rows[n].date \in Days[period]
           /\ source.rows[n].wrong \subseteq Field
           /\ "unloading_date" \notin source.rows[n].wrong
<1>1. /\ source.rows \in Seq(Row(period)) /\ Size \in Nat
      /\ DOMAIN source.rows = 1 .. Size /\ Size = Len(source.rows)
  BY RowsAreTyped DEF VerifierInv, TypeOK, Size
<1>2. source.rows[n] \in Row(period)
  BY <1>1
<1>3. source.rows[n].date \in Days[period] /\ source.rows[n].wrong \in Wrong
  BY <1>2 DEF Row
<1>4. QED
  BY <1>3, VerifierAssumption DEF Field

(* How far a pass has come, by its number of chunks.                       *)
LEMMA Progress ==
    ASSUME Size \in Nat, chunk \in 0 .. Chunks
    PROVE  /\ Chunks \in Nat
           /\ Checked \in 0 .. Size
           /\ chunk < Chunks => Checked = chunk * ChunkSize /\ Checked < Size
           /\ chunk = Chunks => Checked = Size
           /\ chunk = 0 => Checked = 0
<1>1. ChunkSize \in Nat \ {0}
  BY VerifierAssumption
<1>2. Chunks \in Nat
  BY <1>1, Ceiling DEF Chunks
<1>3. chunk \in Nat
  BY <1>2
<1>4. /\ chunk < Chunks => chunk * ChunkSize < Size
      /\ chunk = Chunks => Size <= chunk * ChunkSize
  BY <1>1, <1>3, Ceiling DEF Chunks
<1>5. chunk * ChunkSize \in Nat /\ (chunk = 0 => chunk * ChunkSize = 0)
  BY <1>1, <1>3
<1>6. QED
  BY <1>2, <1>4, <1>5 DEF Checked

(* Before the first chunk nothing is found.                                *)
LEMMA VerifierInit == Init => VerifierInv
<1> SUFFICES ASSUME Init PROVE VerifierInv
  OBVIOUS
<1>1. /\ source.rows \in Seq(Row(period)) /\ Size \in Nat
      /\ DOMAIN source.rows = 1 .. Size
  BY RowsAreTyped DEF Init, Size
<1>2. Chunks \in Nat /\ chunk \in 0 .. Chunks
  BY <1>1, VerifierAssumption, Ceiling DEF Init, Chunks
<1>3. Checked = 0
  BY <1>1, <1>2, Progress DEF Init
<1>4. TypeOK
  <2>1. errors \in [Field -> SUBSET (1 .. MaxRows)]
    BY DEF Init, NoErrors
  <2>2. delivered \in [ok : BOOLEAN, flags : Seq(BOOLEAN)]
    BY DEF Init, Undelivered
  <2>3. values \in Seq(Row(period)) /\ verified \in Seq(Row(period))
    BY DEF Init
  <2>4. QED
    BY <1>1, <1>2, <2>1, <2>2, <2>3 DEF Init, TypeOK
<1>5. ErrorsInv
  BY <1>3 DEF Init, ErrorsInv, NoErrors
<1>6. ValuesInv
  <2>1. SubSeq(source.rows, 1, 0) = <<>>
    BY SubSeqEmpty
  <2>2. QED
    BY <1>3, <2>1 DEF Init, ValuesInv
<1>7. PassInv
  BY DEF Init, PassInv
<1>8. QED
  BY <1>4, <1>5, <1>6, <1>7 DEF Init, VerifierInv

(* The input does not change, nor what is computed from it alone.          *)
LEMMA InputStays ==
    ASSUME [Next]_vars
    PROVE  UNCHANGED <<period, zone, source, caller, Size, Chunks, Schema>>
<1>1. UNCHANGED input
  BY DEF Next, vars, input, Fetch, FetchFails, Refuse, Convert, ValidateChunk,
         EndFirstPass, EndSecondPass, Deliver
<1>2. QED
  BY <1>1 DEF input, Size, Chunks, Schema

(* A slice holds the next rows, under the numbers they have in the file.   *)
LEMMA SliceIsNext ==
    ASSUME VerifierInv, chunk < Chunks, NEW last,
           last = IF (chunk + 1) * ChunkSize < Size THEN (chunk + 1) * ChunkSize ELSE Size
    PROVE  /\ Checked = chunk * ChunkSize /\ Checked \in Nat
           /\ last \in Nat /\ Checked < last /\ last <= Size
           /\ Slice = SubSeq(source.rows, Checked + 1, last)
           /\ Slice \in Seq(Row(period))
           /\ DOMAIN Slice = 1 .. (last - Checked)
           /\ \A i \in 1 .. (last - Checked) :
                 Slice[i] = source.rows[Checked + i] /\ RowNumber(i) = Checked + i
<1>1. /\ source.rows \in Seq(Row(period)) /\ Size \in Nat
      /\ DOMAIN source.rows = 1 .. Size
      /\ chunk \in 0 .. Chunks
  BY RowsAreTyped DEF VerifierInv, TypeOK, Size
<1>2. Chunks \in Nat /\ Checked = chunk * ChunkSize /\ Checked \in Nat /\ Checked < Size
  BY <1>1, Progress
<1>3. /\ ChunkSize \in Nat \ {0} /\ chunk \in Nat
      /\ (chunk + 1) * ChunkSize = chunk * ChunkSize + ChunkSize
  BY <1>1, <1>2, VerifierAssumption
<1>4. last \in Nat /\ Checked < last /\ last <= Size
  BY <1>1, <1>2, <1>3
<1>5. Slice = SubSeq(source.rows, Checked + 1, last)
  BY <1>2 DEF Slice
<1>6. \A i \in Checked + 1 .. last : source.rows[i] \in Row(period)
  BY <1>1, <1>2, <1>4
<1>7. /\ Slice \in Seq(Row(period))
      /\ Len(Slice) = last - Checked
      /\ \A i \in 1 .. (last - Checked) : Slice[i] = source.rows[Checked + i]
  <2>1. Checked + 1 \in Int /\ last \in Int
    BY <1>2, <1>4
  <2>2. /\ Slice \in Seq(Row(period))
        /\ Len(Slice) = IF Checked + 1 <= last THEN last - (Checked + 1) + 1 ELSE 0
        /\ \A i \in 1 .. last - (Checked + 1) + 1 : Slice[i] = source.rows[Checked + 1 + i - 1]
    BY <1>5, <1>6, <2>1, SubSeqProperties
  <2>3. last - (Checked + 1) + 1 = last - Checked /\ Checked + 1 <= last
    BY <1>2, <1>4
  <2>4. ASSUME NEW i \in 1 .. (last - Checked)
        PROVE  Slice[i] = source.rows[Checked + i]
    <3>1. Slice[i] = source.rows[Checked + 1 + i - 1]
      BY <2>2, <2>3
    <3>2. Checked + 1 + i - 1 = Checked + i
      BY <1>2, <1>4
    <3>3. QED
      BY <3>1, <3>2
  <2>5. QED
    BY <2>2, <2>3, <2>4
<1>8. QED
  BY <1>2, <1>4, <1>5, <1>7 DEF RowNumber

(* One chunk more: its errors join those of the rows before it.            *)
LEMMA ChunkStep ==
    ASSUME VerifierInv, ValidateChunk
    PROVE  VerifierInv'
<1> DEFINE last == IF (chunk + 1) * ChunkSize < Size THEN (chunk + 1) * ChunkSize ELSE Size
           Wrongly(f, n) == f \in Faults(source.rows[n], Schema)
           found == [f \in Field |-> {n \in Checked + 1 .. last : Wrongly(f, n)}]
<1>1. UNCHANGED <<period, zone, source, caller, Size, Chunks, Schema>>
  BY InputStays DEF Next
<1>2. /\ chunk < Chunks /\ chunk' = chunk + 1 /\ pc = "chunks"
      /\ UNCHANGED <<pc, strict, verified, warning, verdict, delivered>>
  BY DEF ValidateChunk
<1>3. /\ source.rows \in Seq(Row(period)) /\ Size \in 0 .. MaxRows
      /\ DOMAIN source.rows = 1 .. Size
      /\ chunk \in 0 .. Chunks
      /\ errors \in [Field -> SUBSET (1 .. MaxRows)]
      /\ values \in Seq(Row(period))
  BY RowsAreTyped DEF VerifierInv, TypeOK, Size
<1>4. Chunks \in Nat
  BY <1>3, Progress
<1>5. /\ Checked \in Nat /\ last \in Nat /\ Checked < last /\ last <= Size
      /\ Slice = SubSeq(source.rows, Checked + 1, last)
      /\ Slice \in Seq(Row(period))
      /\ DOMAIN Slice = 1 .. (last - Checked)
      /\ \A i \in 1 .. (last - Checked) :
            Slice[i] = source.rows[Checked + i] /\ RowNumber(i) = Checked + i
  BY <1>2, SliceIsNext
<1>6. Checked' = last
  BY <1>1, <1>2 DEF Checked
<1> HIDE DEF last
<1>7. ASSUME NEW f \in Field
      PROVE  {RowNumber(i) : i \in {j \in DOMAIN Slice : f \in Faults(Slice[j], Schema)}}
               = {n \in Checked + 1 .. last : Wrongly(f, n)}
  <2> DEFINE mine == {j \in DOMAIN Slice : f \in Faults(Slice[j], Schema)}
  <2>1. \A j \in 1 .. (last - Checked) : j \in mine <=> Wrongly(f, Checked + j)
    BY <1>5
  <2>2. ASSUME NEW j \in mine
        PROVE  /\ RowNumber(j) = Checked + j /\ Checked + j \in Checked + 1 .. last
               /\ Wrongly(f, Checked + j)
    <3>1. j \in 1 .. (last - Checked)
      BY <1>5
    <3>2. QED
      BY <1>5, <2>1, <3>1
  <2>3. ASSUME NEW n \in Checked + 1 .. last, Wrongly(f, n)
        PROVE  \E j \in mine : RowNumber(j) = n
    <3>1. n - Checked \in 1 .. (last - Checked) /\ Checked + (n - Checked) = n
      BY <1>5
    <3>2. n - Checked \in mine /\ RowNumber(n - Checked) = n
      BY <1>5, <2>1, <2>3, <3>1
    <3>3. QED
      BY <3>2
  <2> HIDE DEF mine, Wrongly
  <2>4. {RowNumber(i) : i \in mine} = {n \in Checked + 1 .. last : Wrongly(f, n)}
    BY <2>2, <2>3
  <2>5. QED
    BY <2>4 DEF mine
<1>8. \/ found = NoErrors /\ values' = values \o Slice /\ UNCHANGED errors
      \/ found # NoErrors /\ errors' = [f \in Field |-> errors[f] \cup found[f]]
           /\ UNCHANGED values
  <2>1. [f \in Field |-> {RowNumber(i) : i \in
            {j \in DOMAIN Slice : f \in Faults(Slice[j], Schema)}}] = found
    BY <1>7
  <2>2. QED
    BY <2>1 DEF ValidateChunk
<1>9. /\ errors' \in [Field -> SUBSET (1 .. MaxRows)]
      /\ \A f \in Field : errors'[f] = errors[f] \cup found[f]
  <2>1. \A f \in Field : found[f] \subseteq 1 .. MaxRows
    <3>1. Checked + 1 .. last \subseteq 1 .. MaxRows
      BY <1>3, <1>5, VerifierAssumption
    <3> HIDE DEF Wrongly
    <3>2. QED
      BY <3>1
  <2> HIDE DEF found
  <2>2. QED
    BY <1>3, <1>8, <2>1 DEF NoErrors
<1>10. TypeOK'
  <2>1. chunk' \in 0 .. Chunks
    BY <1>2, <1>3, <1>4
  <2>2. values' \in Seq(Row(period))
    <3>1. values \o Slice \in Seq(Row(period))
      BY <1>3, <1>5, ConcatProperties
    <3>2. values' = values \o Slice \/ values' = values
      BY <1>8
    <3>3. QED
      BY <1>3, <3>1, <3>2
  <2>3. QED
    BY <1>1, <1>2, <1>9, <2>1, <2>2 DEF VerifierInv, TypeOK
<1>11. ErrorsInv'
  <2> SUFFICES ASSUME NEW f \in Field
               PROVE  errors'[f] = {n \in 1 .. last : Wrongly(f, n)}
    BY <1>1, <1>2, <1>6 DEF ErrorsInv, Faults, OutOfMonth
  <2>1. errors[f] = {n \in 1 .. Checked : Wrongly(f, n)}
    BY DEF VerifierInv, ErrorsInv
  <2>2. errors'[f] = errors[f] \cup {n \in Checked + 1 .. last : Wrongly(f, n)}
    BY <1>9
  <2> HIDE DEF Wrongly
  <2>3. QED
    BY <1>5, <2>1, <2>2
<1>12. ValuesInv'
  <2> SUFFICES ASSUME ~ HasErrors' PROVE values' = SubSeq(source.rows, 1, last)
    BY <1>1, <1>6 DEF ValuesInv
  <2>1. ~ HasErrors /\ \A f \in Field : found[f] = {}
    BY <1>9 DEF HasErrors
  <2>2. found = NoErrors
    BY <2>1 DEF NoErrors
  <2>3. values = SubSeq(source.rows, 1, Checked)
    BY <2>1 DEF VerifierInv, ValuesInv
  <2>4. /\ 1 \in 1 .. Len(source.rows) + 1
        /\ Checked \in 1 - 1 .. Len(source.rows)
        /\ last \in Checked .. Len(source.rows)
    BY <1>3, <1>5 DEF Size
  <2>5. SubSeq(source.rows, 1, Checked) \o SubSeq(source.rows, Checked + 1, last)
          = SubSeq(source.rows, 1, last)
    BY <1>3, <2>4, ConcatAdjacentSubSeq
  <2>6. QED
    BY <1>5, <1>8, <2>2, <2>3, <2>5
<1>13. PassInv'
  BY <1>1, <1>2 DEF VerifierInv, PassInv, Clean, OutOfMonth
<1>14. QED
  BY <1>1, <1>10, <1>11, <1>12, <1>13 DEF VerifierInv

(* The end of the first pass, by a throw, a return or the second pass.     *)
LEMMA FirstPassStep ==
    ASSUME VerifierInv, EndFirstPass
    PROVE  VerifierInv'
<1>1. UNCHANGED <<period, zone, source, caller, Size, Chunks, Schema>>
  BY InputStays DEF Next
<1>2. /\ pc = "chunks" /\ ~ strict /\ chunk = Chunks
      /\ UNCHANGED <<errors, warning, delivered>>
  BY DEF EndFirstPass
<1>3. /\ source.rows \in Seq(Row(period)) /\ Size \in Nat
      /\ DOMAIN source.rows = 1 .. Size /\ Size = Len(source.rows)
      /\ chunk \in 0 .. Chunks
  BY RowsAreTyped DEF VerifierInv, TypeOK, Size
<1>4. Chunks \in Nat /\ Checked = Size
  BY <1>2, <1>3, Progress
<1>5. verdict = "none" /\ warning = {} /\ (verdict = "none" => verdict # "accepted")
  BY <1>2 DEF VerifierInv, PassInv, TypeOK
<1>6. CASE HasErrors
  <2>1. verdict' = "invalid" /\ pc' = "done" /\ UNCHANGED <<strict, chunk, values, verified>>
    BY <1>6 DEF EndFirstPass
  <2>2. TypeOK'
    BY <1>1, <1>2, <2>1 DEF VerifierInv, TypeOK
  <2>3. ErrorsInv' /\ ValuesInv'
    BY <1>1, <1>2, <2>1
       DEF VerifierInv, ErrorsInv, ValuesInv, Checked, Faults, OutOfMonth, HasErrors
  <2>4. PassInv'
    BY <1>1, <1>2, <1>5, <2>1 DEF PassInv
  <2>5. QED
    BY <1>1, <2>2, <2>3, <2>4 DEF VerifierInv
<1>7. CASE ~ HasErrors
  <2>1. verified' = values /\ verified' = source.rows
    <3>1. values = SubSeq(source.rows, 1, Len(source.rows))
      BY <1>3, <1>4, <1>7 DEF VerifierInv, ValuesInv
    <3>2. SubSeq(source.rows, 1, Len(source.rows)) = source.rows
      BY <1>3, SubSeqFull
    <3>3. verified' = values
      BY <1>7 DEF EndFirstPass
    <3>4. QED
      BY <3>1, <3>2, <3>3
  <2>2. Clean'
    <3> SUFFICES ASSUME NEW n \in DOMAIN source.rows
                 PROVE  Known(source.rows[n]) = {} /\ ~ OutOfMonth(source.rows[n], Schema)
      BY <1>1, <2>1 DEF Clean, OutOfMonth
    <3>1. \A f \in Field : f \notin Faults(source.rows[n], Schema)
      BY <1>3, <1>4, <1>7 DEF VerifierInv, ErrorsInv, HasErrors
    <3>2. "unloading_date" \in Field /\ source.rows[n].wrong \subseteq Field
      <4>1. source.rows[n] \in Row(period)
        BY <1>3
      <4>2. source.rows[n].wrong \in Wrong
        BY <4>1 DEF Row
      <4>3. QED
        BY <4>2 DEF Field
    <3>3. QED
      BY <1>2, <3>1, <3>2 DEF Faults, Known
  <2>3. CASE caller = "share"
    <3>1. verdict' = "accepted" /\ pc' = "done" /\ UNCHANGED <<strict, chunk, values>>
      BY <1>7, <2>3 DEF EndFirstPass
    <3>2. TypeOK'
      BY <1>1, <1>2, <2>1, <3>1 DEF VerifierInv, TypeOK
    <3>3. ErrorsInv' /\ ValuesInv'
      BY <1>1, <1>2, <3>1
         DEF VerifierInv, ErrorsInv, ValuesInv, Checked, Faults, OutOfMonth, HasErrors
    <3>4. PassInv'
      BY <1>1, <1>2, <1>5, <2>2, <2>3, <3>1 DEF PassInv
    <3>5. QED
      BY <1>1, <3>2, <3>3, <3>4 DEF VerifierInv
  <2>4. CASE caller # "share"
    <3>1. /\ strict' = TRUE /\ chunk' = 0 /\ values' = <<>>
          /\ caller = "validate" /\ UNCHANGED <<verdict, pc>>
      BY <1>7, <2>4 DEF EndFirstPass
    <3>2. Checked' = 0
      BY <1>1, <1>3, <3>1, VerifierAssumption DEF Checked
    <3>3. TypeOK'
      <4>1. values' \in Seq(Row(period))
        BY <3>1
      <4>2. verified' \in Seq(Row(period))
        BY <1>3, <2>1
      <4>3. QED
        BY <1>1, <1>2, <1>4, <3>1, <4>1, <4>2 DEF VerifierInv, TypeOK
    <3>4. ErrorsInv'
      BY <1>2, <1>7, <3>2 DEF ErrorsInv, HasErrors
    <3>5. ValuesInv'
      <4>1. SubSeq(source.rows, 1, 0) = <<>>
        BY SubSeqEmpty
      <4>2. QED
        BY <1>1, <3>1, <3>2, <4>1 DEF ValuesInv
    <3>6. PassInv'
      BY <1>1, <1>2, <1>5, <2>2, <3>1 DEF PassInv
    <3>7. QED
      BY <1>1, <3>3, <3>4, <3>5, <3>6 DEF VerifierInv
  <2>5. QED
    BY <2>3, <2>4
<1>8. QED
  BY <1>6, <1>7

(* The other steps leave the rows, the errors and the values alone.        *)
LEMMA OtherStep ==
    ASSUME VerifierInv,
           \/ Fetch \/ FetchFails \/ Refuse \/ Convert \/ EndSecondPass \/ Deliver
           \/ UNCHANGED vars
    PROVE  VerifierInv'
<1>1. UNCHANGED <<period, zone, source, caller, Size, Chunks, Schema>>
  BY InputStays DEF Next
<1>2. UNCHANGED <<strict, chunk, errors, values, verified>>
  BY DEF Fetch, FetchFails, Refuse, Convert, EndSecondPass, Deliver, vars
<1>3. ErrorsInv' /\ ValuesInv'
  BY <1>1, <1>2 DEF VerifierInv, ErrorsInv, ValuesInv, Checked, Faults, OutOfMonth, HasErrors
<1>4. delivered' \in [ok : BOOLEAN, flags : Seq(BOOLEAN)]
  <2>1. CASE Deliver
    <3> DEFINE flags == [i \in DOMAIN source.rows |-> Truthy(source.rows[i].flag)]
    <3>1. DOMAIN source.rows = 1 .. Len(source.rows) /\ Len(source.rows) \in Nat
      BY RowsAreTyped DEF VerifierInv, TypeOK
    <3>2. flags \in [1 .. Len(source.rows) -> BOOLEAN]
      BY <3>1 DEF Truthy
    <3>3. flags \in Seq(BOOLEAN)
      BY <3>1, <3>2
    <3> HIDE DEF flags
    <3>4. delivered' \in {[ok |-> TRUE, flags |-> flags], Undelivered}
      BY <2>1 DEF Deliver, flags
    <3>5. [ok |-> TRUE, flags |-> flags] \in [ok : BOOLEAN, flags : Seq(BOOLEAN)]
      BY <3>3
    <3>6. Undelivered \in [ok : BOOLEAN, flags : Seq(BOOLEAN)]
      BY DEF Undelivered
    <3>7. QED
      BY <3>4, <3>5, <3>6
  <2>2. CASE ~ Deliver
    BY <2>2 DEF VerifierInv, TypeOK, Fetch, FetchFails, Refuse, Convert, EndSecondPass, vars
  <2>3. QED
    BY <2>1, <2>2
<1>5. TypeOK'
  BY <1>1, <1>2, <1>4
     DEF VerifierInv, TypeOK, Fetch, FetchFails, Refuse, Convert, EndSecondPass, Deliver, vars
<1>6. PassInv'
  <2>1. Clean => Clean'
    BY <1>1, <1>2 DEF Clean, OutOfMonth
  <2>2. PassInv /\ UNCHANGED <<strict, caller, chunk, Chunks, errors>>
    BY <1>1, <1>2 DEF VerifierInv
  <2>3. CASE Fetch \/ Convert \/ Deliver \/ UNCHANGED vars
    BY <2>1, <2>2, <2>3 DEF Fetch, Convert, Deliver, vars, PassInv
  <2>4. CASE FetchFails \/ Refuse
    <3>1. pc \in {"fetch", "convert"} /\ pc' = "done" /\ UNCHANGED warning
          /\ verdict' \in {"unavailable", "empty"}
      BY <2>4 DEF FetchFails, Refuse
    <3>2. warning = {}
      BY <2>2, <3>1 DEF PassInv
    <3>3. QED
      BY <2>1, <2>2, <3>1, <3>2 DEF PassInv
  <2>5. CASE EndSecondPass
    <3>1. /\ strict /\ chunk = Chunks /\ verdict' = "accepted" /\ pc' = "done"
          /\ warning' = {f \in Field : errors[f] # {}}
      BY <2>5 DEF EndSecondPass
    <3>2. caller = "validate" /\ Clean
      BY <2>2, <3>1 DEF PassInv
    <3>3. QED
      BY <2>1, <2>2, <3>1, <3>2 DEF PassInv
  <2>6. QED
    BY <2>3, <2>4, <2>5
<1>7. QED
  BY <1>1, <1>3, <1>5, <1>6 DEF VerifierInv

(* Every step keeps the invariant.                                         *)
LEMMA VerifierStep == VerifierInv /\ [Next]_vars => VerifierInv'
  BY ChunkStep, FirstPassStep, OtherStep DEF Next

(* The invariant of the verification.                                      *)
LEMMA VerifierInvariant == Spec => []VerifierInv
  BY VerifierInit, VerifierStep, PTL DEF Spec

-----------------------------------------------------------------------------
(* Types; the loop over the chunks ends with the last.                     *)
THEOREM VerifierTypes == Spec => []TypeOK
<1>1. VerifierInv => TypeOK
  BY DEF VerifierInv
<1>2. QED
  BY <1>1, VerifierInvariant, PTL

(* A file that is rejected is reported with exactly its wrong rows, by     *)
(* their numbers in the file, however it is cut into chunks.               *)
THEOREM WrongRowsReported == Spec => []RowsReported
<1>1. ASSUME VerifierInv PROVE RowsReported
  <2> SUFFICES ASSUME verdict = "invalid", NEW f \in Field \ {"unloading_date"}
               PROVE  errors[f] = {n \in DOMAIN source.rows : f \in Known(source.rows[n])}
    BY DEF RowsReported
  <2>1. ~ strict /\ chunk = Chunks
    BY <1>1 DEF VerifierInv, PassInv
  <2>2. /\ DOMAIN source.rows = 1 .. Size /\ Size \in Nat /\ chunk \in 0 .. Chunks
    BY <1>1, RowsAreTyped DEF VerifierInv, TypeOK, Size
  <2>3. Checked = Size
    BY <2>1, <2>2, Progress
  <2>4. \A n : f \in Faults(source.rows[n], Schema) <=> f \in Known(source.rows[n])
    BY <2>1 DEF Faults, Known
  <2>5. QED
    BY <1>1, <2>2, <2>3, <2>4 DEF VerifierInv, ErrorsInv
<1>2. QED
  BY <1>1, VerifierInvariant, PTL

(* What is accepted has no wrong row, and what the verification returns is *)
(* the file, in its order, however it is cut into chunks.                  *)
THEOREM AcceptedRowsChecked == Spec => []EveryRowChecked
<1>1. VerifierInv => EveryRowChecked
  BY DEF VerifierInv, PassInv, Clean, EveryRowChecked
<1>2. QED
  BY <1>1, VerifierInvariant, PTL

(* A validation accepts what a share accepts, and warns of unknown fields  *)
(* exactly if a row has one.                                               *)
THEOREM WarningsAreExact == Spec => []WarningIsExact
<1>1. ASSUME VerifierInv PROVE WarningIsExact
  <2> SUFFICES ASSUME verdict # "none"
               PROVE  warning = {f \in {"unknown"} :
                        /\ caller = "validate" /\ verdict = "accepted"
                        /\ \E n \in DOMAIN source.rows : f \in source.rows[n].wrong}
    BY DEF WarningIsExact
  <2>1. CASE verdict = "accepted" /\ caller = "validate"
    <3>1. /\ Clean /\ strict /\ chunk = Chunks
          /\ warning = {f \in Field : errors[f] # {}}
      BY <1>1, <2>1 DEF VerifierInv, PassInv
    <3>2. /\ DOMAIN source.rows = 1 .. Size /\ Size \in Nat /\ chunk \in 0 .. Chunks
          /\ source.rows \in Seq(Row(period))
      BY <1>1, RowsAreTyped DEF VerifierInv, TypeOK, Size
    <3>3. Checked = Size
      BY <3>1, <3>2, Progress
    <3>4. \A f \in Field : errors[f] =
            {n \in DOMAIN source.rows : f \in Faults(source.rows[n], Schema)}
      BY <1>1, <3>2, <3>3 DEF VerifierInv, ErrorsInv
    <3>5. \A n \in DOMAIN source.rows, f \in Field :
            f \in Faults(source.rows[n], Schema) <=>
              f = "unknown" /\ f \in source.rows[n].wrong
      BY <3>1 DEF Clean, Known, Faults
    <3>6. \A n \in DOMAIN source.rows : source.rows[n].wrong \subseteq Field
      BY <1>1, EachRow
    <3>7. warning = {f \in {"unknown"} : \E n \in DOMAIN source.rows : f \in source.rows[n].wrong}
      BY <3>1, <3>4, <3>5, <3>6
    <3>8. QED
      BY <2>1, <3>7
  <2>2. CASE ~ (verdict = "accepted" /\ caller = "validate")
    <3>1. warning = {}
      BY <1>1, <2>2 DEF VerifierInv, PassInv, TypeOK
    <3>2. QED
      BY <2>2, <3>1
  <2>3. QED
    BY <2>1, <2>2
<1>2. QED
  BY <1>1, VerifierInvariant, PTL

(* Unloading dates are midnights, UTC.                                     *)
WholeDays == \A p \in Period : \A d \in Days[p] : d % Day = 0

(***************************************************************************)
(* Unloading dates without a time are accepted exactly if they are in the  *)
(* month, or are the first of the next in a month of two digits in which   *)
(* clocks are set back: in every month and every zone from UTC on to the   *)
(* east, if clocks do not change at either end of the month.               *)
(***************************************************************************)
THEOREM UnloadingDatesInMonth ==
    ASSUME WholeDays
    PROVE  Spec => []UnloadedInMonth
<1>1. ASSUME VerifierInv PROVE UnloadedInMonth
  <2> DEFINE first == Midnight(period.year, period.month, 1)
             next == Midnight(period.year, period.month + 1, 1)
             end == LastDayOfMonth(period.year, period.month, zone)
             setBack == period.month >= 10 /\ Summer(first, zone) /\ ~ Summer(next, zone)
             Out(t) == ~ InMonth(t) /\ ~ (setBack /\ t = next)
             outside == {n \in DOMAIN source.rows : Out(source.rows[n].date)}
  <2> SUFFICES ASSUME zone.standard >= 0, Steady(first), Steady(next)
               PROVE  /\ verdict = "accepted" => outside = {}
                      /\ verdict = "invalid" => errors["unloading_date"] = outside
    BY DEF UnloadedInMonth
  <2>1. /\ DOMAIN source.rows = 1 .. Size /\ Size \in Nat /\ chunk \in 0 .. Chunks
        /\ source.rows \in Seq(Row(period))
        /\ period \in Period /\ zone \in Zone
    BY <1>1, RowsAreTyped DEF VerifierInv, TypeOK, Size
  <2>2. period.year \in Int /\ period.month \in 1 .. 12 /\ ZoneOK
    <3> DEFINE std == zone.standard
    <3>1. /\ std \in -720 .. 840 /\ zone.saving \in 1 .. 120
          /\ \A s \in zone.summer : s.from \in Int /\ s.to \in Int
      BY <2>1, VerifierAssumption, Zenon
    <3>2. std \in 0 .. 840
      <4> HIDE DEF std
      <4>1. ASSUME std >= 0 PROVE std \in 0 .. 840
        BY <3>1, <4>1
      <4>2. QED
        BY <4>1 DEF std
    <3>3. period.year \in Int /\ period.month \in 1 .. 12
      BY <2>1, VerifierAssumption
    <3>4. QED
      BY <3>1, <3>2, <3>3, Zenon DEF ZoneOK
  <2>3. /\ first \in Int /\ next \in Int /\ next % Day = 0
        /\ Offset(first, zone) \in 0 .. 960 /\ Offset(next, zone) \in 0 .. 960
        /\ end = next - Offset(next, zone)
                   + (IF period.month >= 10 THEN Offset(first, zone) ELSE 0)
    BY <2>2, WindowEnds, Zenon
  <2> HIDE DEF first, next, end
  <2>4. IF setBack THEN next < end /\ end < next + Day
                   ELSE next - Day < end /\ end <= next
    <3> DEFINE std == zone.standard
               sav == zone.saving
    <3>1. /\ std \in 0 .. 840 /\ sav \in 1 .. 120
          /\ Summer(first, zone) => Offset(first, zone) = std + sav
          /\ ~ Summer(first, zone) => Offset(first, zone) = std
          /\ Summer(next, zone) => Offset(next, zone) = std + sav
          /\ ~ Summer(next, zone) => Offset(next, zone) = std
      BY <2>2, <2>3, OffsetIs
    <3> HIDE DEF std, sav
    <3>2. CASE setBack
      BY <2>3, <3>1, <3>2 DEF Day
    <3>3. CASE ~ setBack
      <4>1. CASE period.month < 10
        BY <2>2, <2>3, <4>1 DEF Day
      <4>2. CASE period.month >= 10
        <5>1. end = next - Offset(next, zone) + Offset(first, zone)
          BY <2>3, <4>2
        <5>2. CASE Summer(next, zone)
          BY <2>3, <3>1, <3>3, <5>1, <5>2 DEF Day
        <5>3. CASE ~ Summer(first, zone)
          BY <2>3, <3>1, <3>3, <5>1, <5>3 DEF Day
        <5>4. QED
          BY <3>3, <4>2, <5>2, <5>3
      <4>3. QED
        BY <2>2, <4>1, <4>2
    <3>4. QED
      BY <3>2, <3>3
  <2>5. ASSUME NEW t \in Int, t % Day = 0
        PROVE  t < first \/ t >= end <=> Out(t)
    <3>1. InMonth(t) <=> first <= t /\ t < next
      BY DEF InMonth, first, next
    <3>2. setBack => (t < end <=> t <= next)
      BY <2>3, <2>4, <2>5 DEF Day
    <3>3. ~ setBack => (t < end <=> t < next)
      BY <2>3, <2>4, <2>5 DEF Day
    <3>4. first <= next
      <4>1. /\ period.month \in 1 .. 13 /\ period.month + 1 \in 1 .. 13
            /\ period.month < period.month + 1
        BY <2>2
      <4> DEFINE f == DayNumber(period.year, period.month, 1)
                 n == DayNumber(period.year, period.month + 1, 1)
      <4>2. f \in Int /\ n \in Int /\ f < n
        BY <2>2, <4>1, MonthsFollow, DaysAreNumbers
      <4>3. first = 1440 * f /\ next = 1440 * n
        BY DEF first, next, Midnight, Day
      <4> HIDE DEF f, n
      <4>4. QED
        BY <4>2, <4>3
    <3>5. end \in Int
      BY <2>3
    <3>6. QED
      BY <2>3, <3>1, <3>2, <3>3, <3>4, <3>5
  <2>6. ASSUME NEW n \in DOMAIN source.rows
        PROVE  OutOfMonth(source.rows[n], Schema) <=> Out(source.rows[n].date)
    <3>1. source.rows[n].date \in Days[period]
      BY <1>1, EachRow
    <3>2. source.rows[n].date \in Int /\ source.rows[n].date % Day = 0
      BY <2>1, <3>1, WholeDays, VerifierAssumption DEF WholeDays
    <3>3. Schema = [min |-> first, end |-> end]
      BY DEF Schema, FirstDayOfMonth, first, end
    <3>4. OutOfMonth(source.rows[n], Schema)
            <=> source.rows[n].date < first \/ source.rows[n].date >= end
      BY <3>3 DEF OutOfMonth
    <3> HIDE DEF Out
    <3>5. QED
      BY <2>5, <3>2, <3>4
  <2> HIDE DEF Out
  <2>7. verdict = "accepted" => outside = {}
    BY <1>1, <2>6 DEF VerifierInv, PassInv, Clean
  <2>8. ASSUME verdict = "invalid" PROVE errors["unloading_date"] = outside
    <3>1. chunk = Chunks
      BY <1>1, <2>8 DEF VerifierInv, PassInv
    <3>2. Checked = Size
      BY <2>1, <3>1, Progress
    <3>3. \A n \in DOMAIN source.rows :
            "unloading_date" \in Faults(source.rows[n], Schema)
              <=> OutOfMonth(source.rows[n], Schema)
      BY <1>1, EachRow DEF Faults
    <3>4. errors["unloading_date"] =
            {n \in 1 .. Checked : "unloading_date" \in Faults(source.rows[n], Schema)}
      BY <1>1 DEF VerifierInv, ErrorsInv, Field
    <3>5. QED
      BY <2>1, <2>6, <3>2, <3>3, <3>4
  <2>9. QED
    BY <2>7, <2>8
<1>2. QED
  BY <1>1, VerifierInvariant, PTL

===============================================================================
