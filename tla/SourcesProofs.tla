---------------------------- MODULE SourcesProofs ---------------------------
(***************************************************************************)
(* Both workload sources hand out a proper stream of arrivals, and a       *)
(* replayed trace is its file: proofs about ArrivalSources.tla, for files  *)
(* of any length and order and all dates from year 1 on.                   *)
(*                                                                         *)
(* gregorian_to_jdn counts days: it differs from the days before a date,   *)
(* counted year by year and month by month, by one number for all dates.   *)
(* The stable sort lists each row once, so the records are the rows; and   *)
(* what has been handed out is the records up to the cursor.               *)
(***************************************************************************)
EXTENDS ArrivalSources, OperatorProofs

-----------------------------------------------------------------------------
(* The calendar *)

\* The leap years up to year n, as gregorian_to_jdn has them.
LeapDays(n) == n \div 4 - n \div 100 + n \div 400

\* They are the leap years.
LEMMA LeapYears ==
  ASSUME NEW n \in Nat
  PROVE  /\ Cardinality({y \in 1 .. n : IsLeap(y)}) = LeapDays(n)
         /\ LeapDays(n) \in Nat
<1> DEFINE Y(k) == {y \in 1 .. k : IsLeap(y)}
           P == {k \in Nat : Cardinality(Y(k)) = LeapDays(k)}
<1>1. 0 \in P
  <2>1. Y(0) = {}
    OBVIOUS
  <2>2. LeapDays(0) = 0
    BY DEF LeapDays
  <2> QED
    BY <2>1, <2>2, FS_EmptySet
<1>2. ASSUME NEW k \in Nat PROVE IsFiniteSet(Y(k)) /\ Cardinality(Y(k)) \in Nat
  <2>1. IsFiniteSet(1 .. k)
    BY FS_Interval
  <2>2. Y(k) \in SUBSET (1 .. k)
    OBVIOUS
  <2> HIDE DEF Y
  <2>3. IsFiniteSet(Y(k))
    BY <2>1, <2>2, FS_Subset
  <2> QED
    BY <2>3, FS_CardinalityType
<1>3. ASSUME NEW k \in Nat, k \in P PROVE k + 1 \in P
  <2>1. LeapDays(k + 1) = LeapDays(k) + (IF IsLeap(k + 1) THEN 1 ELSE 0)
    BY SMT DEF LeapDays, IsLeap
  <2>2. Cardinality(Y(k)) = LeapDays(k)
    BY <1>3
  <2>3. CASE IsLeap(k + 1)
    <3>1. Y(k + 1) = Y(k) \cup {k + 1} /\ k + 1 \notin Y(k)
      BY <2>3
    <3>2. IsFiniteSet(Y(k)) /\ Cardinality(Y(k)) \in Nat
      BY <1>2
    <3>3. Cardinality(Y(k + 1)) = Cardinality(Y(k)) + 1
      <4> HIDE DEF Y
      <4> QED
        BY <3>1, <3>2, FS_AddElement
    <3> HIDE DEF Y
    <3>4. Cardinality(Y(k + 1)) = LeapDays(k + 1)
      BY <2>1, <2>2, <2>3, <3>3
    <3> QED
      BY <3>4
  <2>4. CASE ~ IsLeap(k + 1)
    <3>1. Y(k + 1) = Y(k)
      BY <2>4
    <3> HIDE DEF Y
    <3>2. Cardinality(Y(k + 1)) = LeapDays(k + 1)
      BY <1>2, <2>1, <2>2, <2>4, <3>1
    <3> QED
      BY <3>2
  <2> QED
    BY <2>3, <2>4
<1>4. n \in P
  <2> HIDE DEF P
  <2> QED
    BY <1>1, <1>3, SetInduction
<1>5. Cardinality(Y(n)) = LeapDays(n)
  BY <1>4
<1> HIDE DEF Y
<1>6. LeapDays(n) \in Nat
  BY <1>2, <1>5
<1> QED
  BY <1>5, <1>6 DEF Y

\* The days in the first k months of year y.
MonthDays(y, k) == Cardinality(UNION {{m} \X (1 .. MonthLength(y, m)) : m \in 1 .. k})

\* They add up month by month.
LEMMA MonthByMonth ==
  ASSUME NEW y \in Nat
  PROVE  /\ MonthDays(y, 0) = 0
         /\ \A k \in 0 .. 11 : MonthDays(y, k + 1) = MonthDays(y, k) + MonthLength(y, k + 1)
<1> DEFINE f == [m \in 1 .. 12 |-> MonthLength(y, m)]
<1>1. \A m \in 1 .. 12 : MonthLength(y, m) \in Nat
  BY DEF MonthLength
<1>2. ASSUME NEW k \in 0 .. 12 PROVE MonthDays(y, k) = Total(1 .. k, f)
  <2>1. \A m \in 1 .. k : f[m] = MonthLength(y, m)
    OBVIOUS
  <2> HIDE DEF f
  <2>2. UNION {{m} \X (1 .. MonthLength(y, m)) : m \in 1 .. k} = Units(1 .. k, f)
    BY <2>1 DEF Units
  <2> QED
    BY <2>2 DEF MonthDays, Total
<1>3. \A m \in 1 .. 12 : f[m] \in Nat /\ f[m] = MonthLength(y, m)
  BY <1>1
<1> HIDE DEF f
<1>4. MonthDays(y, 0) = 0
  <2>1. MonthDays(y, 0) = Total(1 .. 0, f)
    BY <1>2
  <2>2. 1 .. 0 = {}
    OBVIOUS
  <2> QED
    BY <2>1, <2>2, TotalEmpty
<1>5. ASSUME NEW k \in 0 .. 11
      PROVE  MonthDays(y, k + 1) = MonthDays(y, k) + MonthLength(y, k + 1)
  <2> DEFINE S == 1 .. k + 1
  <2>1. k + 1 \in S /\ S \ {k + 1} = 1 .. k /\ k + 1 \in 1 .. 12
    OBVIOUS
  <2>2. IsFiniteSet(S)
    BY FS_Interval
  <2>3. \A m \in S : f[m] \in Nat
    BY <1>3
  <2>4. MonthDays(y, k + 1) = Total(S, f) /\ MonthDays(y, k) = Total(1 .. k, f)
    <3>1. k + 1 \in 0 .. 12 /\ k \in 0 .. 12
      OBVIOUS
    <3> QED
      BY <1>2, <3>1
  <2> HIDE DEF S
  <2>5. Total(S, f) = Total(S \ {k + 1}, f) + f[k + 1]
    BY <2>1, <2>2, <2>3, TotalRemove
  <2> QED
    BY <1>3, <2>1, <2>4, <2>5
<1> QED
  BY <1>4, <1>5

\* The days before month m, with the formula of gregorian_to_jdn from March on.
LEMMA DaysBeforeMonth ==
  ASSUME NEW y \in Nat, NEW m \in 1 .. 12
  PROVE  MonthDays(y, m - 1) =
           CASE m = 1 -> 0
             [] m = 2 -> 31
             [] OTHER -> 59 + (IF IsLeap(y) THEN 1 ELSE 0) + (153 * (m - 3) + 2) \div 5
<1> DEFINE D(k) == MonthDays(y, k)
           leap == IF IsLeap(y) THEN 1 ELSE 0
<1>1. /\ D(0) = 0
      /\ \A k \in 0 .. 11 : D(k + 1) = D(k) + MonthLength(y, k + 1)
  BY MonthByMonth
<1> HIDE DEF D
<1>2. /\ D(1) = D(0) + MonthLength(y, 1)   /\ D(2) = D(1) + MonthLength(y, 2)
      /\ D(3) = D(2) + MonthLength(y, 3)   /\ D(4) = D(3) + MonthLength(y, 4)
      /\ D(5) = D(4) + MonthLength(y, 5)   /\ D(6) = D(5) + MonthLength(y, 6)
      /\ D(7) = D(6) + MonthLength(y, 7)   /\ D(8) = D(7) + MonthLength(y, 8)
      /\ D(9) = D(8) + MonthLength(y, 9)   /\ D(10) = D(9) + MonthLength(y, 10)
      /\ D(11) = D(10) + MonthLength(y, 11)
  <2>1. \A k \in 1 .. 11 : D(k) = D(k - 1) + MonthLength(y, k)
    <3> TAKE k \in 1 .. 11
    <3>1. k - 1 \in 0 .. 11 /\ (k - 1) + 1 = k
      OBVIOUS
    <3> QED
      BY <1>1, <3>1
  <2> QED
    BY <2>1
<1>3. leap \in 0 .. 1
  OBVIOUS
<1>4. MonthLength(y, 2) = 28 + leap
  BY DEF MonthLength
<1> HIDE DEF leap
<1>5. /\ D(1) = 31 /\ D(2) = 59 + leap /\ D(3) = 90 + leap /\ D(4) = 120 + leap
      /\ D(5) = 151 + leap /\ D(6) = 181 + leap /\ D(7) = 212 + leap
      /\ D(8) = 243 + leap /\ D(9) = 273 + leap /\ D(10) = 304 + leap
      /\ D(11) = 334 + leap
  BY <1>1, <1>2, <1>3, <1>4 DEF MonthLength
<1>6. m >= 3 => D(m - 1) = 59 + leap + (153 * (m - 3) + 2) \div 5
  <2> SUFFICES ASSUME m >= 3 PROVE D(m - 1) = 59 + leap + (153 * (m - 3) + 2) \div 5
    OBVIOUS
  <2>1. \/ m = 3 \/ m = 4 \/ m = 5 \/ m = 6 \/ m = 7 \/ m = 8 \/ m = 9 \/ m = 10
        \/ m = 11 \/ m = 12
    OBVIOUS
  <2> QED
    BY <1>3, <1>5, <2>1
<1>7. m = 1 => D(m - 1) = 0
  BY <1>1
<1>8. m = 2 => D(m - 1) = 31
  BY <1>5
<1> QED
  BY <1>6, <1>7, <1>8 DEF D, leap

\* The day from which gregorian_to_jdn counts.
FirstDay == 1721060

\* gregorian_to_jdn counts the days before a date, from a fixed day on.
LEMMA JdnCountsDays ==
  ASSUME NEW t, t.year \in Nat \ {0}, t.month \in 1 .. 12, t.day \in Nat
  PROVE  /\ gregorian_to_jdn(t.year, t.month, t.day) = DaysBefore(t) + FirstDay
         /\ DaysBefore(t) \in Int /\ FirstDay \in Int
<1> DEFINE y == t.year
           m == t.month
           d == t.day
           Months == MonthDays(y, m - 1)
           leap == IF IsLeap(y) THEN 1 ELSE 0
<1>1. y \in Nat \ {0} /\ m \in 1 .. 12 /\ d \in Nat /\ y - 1 \in Nat /\ y \in Nat
  OBVIOUS
<1>2. DaysBefore(t) = 365 * y + Cardinality({k \in 1 .. y - 1 : IsLeap(k)}) + Months + d
  BY DEF DaysBefore, MonthDays
<1> HIDE DEF y, m, d
<1>3. Cardinality({k \in 1 .. y - 1 : IsLeap(k)}) = LeapDays(y - 1)
  <2> DEFINE n == y - 1
  <2>1. n \in Nat
    BY <1>1
  <2> HIDE DEF n
  <2>2. Cardinality({k \in 1 .. n : IsLeap(k)}) = LeapDays(n)
    BY <2>1, LeapYears
  <2> QED
    BY <2>2 DEF n
<1>4. Months = CASE m = 1 -> 0 [] m = 2 -> 31
                 [] OTHER -> 59 + leap + (153 * (m - 3) + 2) \div 5
  BY <1>1, DaysBeforeMonth
<1>5. leap \in 0 .. 1 /\ LeapDays(y) = LeapDays(y - 1) + leap
  BY <1>1, SMT DEF LeapDays, IsLeap
<1>6. LeapDays(y) \in Int /\ LeapDays(y - 1) \in Int
  BY <1>1, SMT DEF LeapDays
<1> HIDE DEF Months, leap
<1>7. DaysBefore(t) = 365 * y + LeapDays(y - 1) + Months + d
  BY <1>2, <1>3
<1>8. Months \in Int
  BY <1>1, <1>4, <1>5
<1>9. gregorian_to_jdn(y, m, d) = 365 * y + LeapDays(y - 1) + Months + d + FirstDay
  <2>1. CASE m >= 3
    <3>1. (14 - m) \div 12 = 0
      BY <1>1, <2>1, SMT
    <3>2. gregorian_to_jdn(y, m, d)
            = d + (153 * (m - 3) + 2) \div 5 + 365 * (y + 4800) + LeapDays(y + 4800) - 32045
      BY <1>1, <3>1, SMT DEF gregorian_to_jdn, LeapDays
    <3>3. LeapDays(y + 4800) = LeapDays(y) + 1164
      BY <1>1, SMT DEF LeapDays
    <3>4. Months = 59 + leap + (153 * (m - 3) + 2) \div 5
      BY <1>1, <1>4, <2>1
    <3>5. (153 * (m - 3) + 2) \div 5 \in Int
      BY <1>1, SMT
    <3> QED
      BY <1>1, <1>5, <1>6, <3>2, <3>3, <3>4, <3>5, SMT DEF FirstDay
  <2>2. CASE m < 3
    <3>1. (14 - m) \div 12 = 1
      BY <1>1, <2>2, SMT
    <3>2. gregorian_to_jdn(y, m, d)
            = d + (153 * (m + 9) + 2) \div 5 + 365 * (y + 4799) + LeapDays(y + 4799) - 32045
      BY <1>1, <3>1, SMT DEF gregorian_to_jdn, LeapDays
    <3>3. LeapDays(y + 4799) = LeapDays(y - 1) + 1164
      BY <1>1, SMT DEF LeapDays
    <3>4. /\ m = 1 \/ m = 2
          /\ Months = IF m = 1 THEN 0 ELSE 31
          /\ (153 * (m + 9) + 2) \div 5 = IF m = 1 THEN 306 ELSE 337
      BY <1>1, <1>4, <2>2
    <3> QED
      BY <1>1, <1>6, <3>2, <3>3, <3>4, SMT DEF FirstDay
  <2> QED
    BY <1>1, <2>1, <2>2
<1>10. DaysBefore(t) \in Int
  BY <1>1, <1>6, <1>7, <1>8
<1>11. FirstDay \in Int
  BY SMT DEF FirstDay
<1> QED
  BY <1>7, <1>9, <1>10, <1>11 DEF y, m, d

-----------------------------------------------------------------------------
(* The records of a file *)

\* Files that from_csv reads to the end.
Readable(f) == f \in Files /\ \A i \in DOMAIN f.rows : f.rows[i] # Malformed

\* Happened, for a file given by name.
HappenedIn(f, i) ==
  LET t == f.rows[i].time
  IN  IF f.is_azure THEN DayCount[t] * 24 + t.hour ELSE t \div 1000

\* Raw times are the times at which rows happened, on another scale.
LEMMA RawIsHappened ==
  ASSUME NEW f, Readable(f), NEW n, n = Len(f.rows), NEW raw, raw = RawTimes(f)
  PROVE  /\ n \in Nat /\ DOMAIN f.rows = 1 .. n /\ DOMAIN raw = 1 .. n
         /\ f.is_azure \in BOOLEAN /\ FirstDay \in Int
         /\ \A i \in 1 .. n :
              /\ f.rows[i].prompt \in Nat /\ f.rows[i].output \in Nat
              /\ raw[i] \in Int /\ HappenedIn(f, i) \in Int
              /\ raw[i] = IF f.is_azure THEN HappenedIn(f, i) + FirstDay * 24
                          ELSE HappenedIn(f, i) * 1000
<1>1. /\ n \in Nat /\ DOMAIN f.rows = 1 .. n /\ f.is_azure \in BOOLEAN
      /\ \A i \in 1 .. n :
           /\ f.rows[i].prompt \in Nat /\ f.rows[i].output \in Nat
           /\ IF f.is_azure THEN AzureRow(f.rows[i]) ELSE NativeRow(f.rows[i])
  BY FilesAssumption DEF Readable
<1>2. DOMAIN raw = 1 .. n
  BY <1>1 DEF RawTimes
<1>3. ASSUME NEW i \in 1 .. n, f.is_azure
      PROVE  raw[i] \in Int /\ HappenedIn(f, i) \in Int
             /\ raw[i] = HappenedIn(f, i) + FirstDay * 24
  <2> DEFINE t == f.rows[i].time
             jdn == gregorian_to_jdn(t.year, t.month, t.day)
             days == DaysBefore(t)
  <2>1. /\ t.year \in Nat \ {0} /\ t.month \in 1 .. 12 /\ t.day \in Nat /\ t.hour \in Nat
    BY <1>1, <1>3 DEF AzureRow
  <2>2. t \in Dates
    BY <1>1, <1>3 DEF Dates, Readable
  <2>3. raw[i] = jdn * 24 + t.hour
    BY <1>1, <1>3 DEF RawTimes, parse_iso_datetime
  <2>4. HappenedIn(f, i) = days * 24 + t.hour
    <3> HIDE DEF t
    <3>1. DayCount[t] = days
      BY <2>2 DEF DayCount
    <3> HIDE DEF days
    <3> QED
      BY <1>3, <3>1 DEF HappenedIn, t
  <2> HIDE DEF t
  <2>5. jdn = days + FirstDay /\ days \in Int
    BY <2>1, JdnCountsDays
  <2>6. FirstDay \in Int
    BY SMT DEF FirstDay
  <2> HIDE DEF jdn, days
  <2> QED
    BY <2>1, <2>3, <2>4, <2>5, <2>6
<1>4. ASSUME NEW i \in 1 .. n, ~ f.is_azure
      PROVE  raw[i] \in Int /\ HappenedIn(f, i) \in Int
             /\ raw[i] = HappenedIn(f, i) * 1000
  <2> DEFINE t == f.rows[i].time
  <2>1. t \in Int /\ t % 1000 = 0
    BY <1>1, <1>4 DEF NativeRow
  <2>2. raw[i] = t /\ HappenedIn(f, i) = t \div 1000
    BY <1>1, <1>4 DEF RawTimes, HappenedIn
  <2> HIDE DEF t
  <2>3. t \div 1000 \in Int /\ t = (t \div 1000) * 1000
    BY <2>1, SMT
  <2> QED
    BY <2>1, <2>2, <2>3
<1>5. FirstDay \in Int
  BY SMT DEF FirstDay
<1> QED
  BY <1>1, <1>2, <1>3, <1>4, <1>5

\* The sort lists every row once, and by time.
LEMMA SortListsRows ==
  ASSUME NEW f, Readable(f)
  PROVE  ListsByKey(SortedRows(f), Len(f.rows), RawTimes(f))
<1> DEFINE n == Len(f.rows)
           raw == RawTimes(f)
<1>1. n \in Nat /\ DOMAIN f.rows = 1 .. n /\ \A i \in 1 .. n : raw[i] \in Int
  BY RawIsHappened
<1>2. DOMAIN raw = 1 .. n
  BY <1>1 DEF RawTimes
<1> HIDE DEF raw, n
<1>3. ListsByKey(SortedByKey(raw), n, raw)
  BY <1>1, <1>2, SortListsKeys
<1> QED
  BY <1>3 DEF SortedRows, raw, n

\* Requests that arrive.
Arrivals == [req_id : Nat, prompt_tokens : Nat \ {0}, max_output_tokens : Nat \ {0},
             arrival_time : Nat]

\* A sampled or read count of tokens ends up as one or more.
LEMMA AtLeast1Type == \A n \in Nat : AtLeast1(n) \in Nat \ {0}
BY DEF AtLeast1

\* What a replay of f owes to its rows one by one, and to any two of them.
RowByRow(recs, f) ==
  \A k \in 1 .. Len(f.rows) :
    /\ recs[k].req_id = k - 1
    /\ recs[k].prompt_tokens = AtLeast1(f.rows[SortedRows(f)[k]].prompt)
    /\ recs[k].max_output_tokens = AtLeast1(f.rows[SortedRows(f)[k]].output)
TwoByTwo(recs, f) ==
  \A k, l \in 1 .. Len(f.rows) : k < l =>
    LET a == SortedRows(f)[k]
        b == SortedRows(f)[l]
    IN  /\ recs[k].arrival_time <= recs[l].arrival_time
        /\ recs[l].arrival_time - recs[k].arrival_time = HappenedIn(f, b) - HappenedIn(f, a)
        /\ HappenedIn(f, a) = HappenedIn(f, b) => a < b

\* The records are the rows in that order, and times count from the first of them.
LEMMA RecordsReplay ==
  ASSUME NEW f, Readable(f), NEW n, n = Len(f.rows), NEW order, order = SortedRows(f),
         NEW recs, recs = Records(f)
  PROVE  /\ n \in Nat /\ DOMAIN f.rows = 1 .. n
         /\ order \in [1 .. n -> 1 .. n]
         /\ \A i \in 1 .. n : \E k \in 1 .. n : order[k] = i
         /\ recs \in [1 .. n -> Arrivals]
         /\ RowByRow(recs, f) /\ TwoByTwo(recs, f)
<1> DEFINE raw == RawTimes(f)
           base == raw[order[1]]
           Since(t) == IF f.is_azure THEN t - base ELSE (t - base) \div 1000
           h(k) == HappenedIn(f, order[k])
<1>1. /\ n \in Nat /\ DOMAIN f.rows = 1 .. n /\ DOMAIN raw = 1 .. n
      /\ f.is_azure \in BOOLEAN /\ FirstDay \in Int
      /\ \A i \in 1 .. n :
           /\ f.rows[i].prompt \in Nat /\ f.rows[i].output \in Nat
           /\ raw[i] \in Int /\ HappenedIn(f, i) \in Int
           /\ raw[i] = IF f.is_azure THEN HappenedIn(f, i) + FirstDay * 24
                       ELSE HappenedIn(f, i) * 1000
  BY RawIsHappened
<1>2. /\ order \in [1 .. n -> 1 .. n]
      /\ \A i \in 1 .. n : \E k \in 1 .. n : order[k] = i
      /\ \A k, l \in 1 .. n : k < l => \/ raw[order[k]] < raw[order[l]]
                                       \/ raw[order[k]] = raw[order[l]] /\ order[k] < order[l]
  <2>1. ListsByKey(order, n, raw)
    BY SortListsRows
  <2> HIDE DEF raw
  <2> QED
    BY <2>1 DEF ListsByKey
<1>3. recs = [k \in 1 .. n |->
                Request(k - 1, AtLeast1(f.rows[order[k]].prompt),
                        AtLeast1(f.rows[order[k]].output), Since(raw[order[k]]))]
  <2>1. recs = [k \in DOMAIN order |->
                  Request(k - 1, AtLeast1(f.rows[order[k]].prompt),
                          AtLeast1(f.rows[order[k]].output), Since(raw[order[k]]))]
    <3> HIDE DEF raw
    <3>1. Records(f) = [k \in DOMAIN order |->
                          Request(k - 1, AtLeast1(f.rows[order[k]].prompt),
                                  AtLeast1(f.rows[order[k]].output), Since(raw[order[k]]))]
      BY DEF Records, raw
    <3> QED
      BY <3>1, Zenon
  <2>2. DOMAIN order = 1 .. n
    BY <1>2
  <2> HIDE DEF Since
  <2> QED
    BY <2>1, <2>2
<1> HIDE DEF raw
<1>4. \A k \in 1 .. n : h(k) \in Int /\ raw[order[k]] \in Int
                        /\ raw[order[k]] = IF f.is_azure THEN h(k) + FirstDay * 24
                                           ELSE h(k) * 1000
  <2> TAKE k \in 1 .. n
  <2>1. order[k] \in 1 .. n
    BY <1>2
  <2> HIDE DEF h
  <2>2. h(k) = HappenedIn(f, order[k])
    BY DEF h
  <2> QED
    BY <1>1, <2>1, <2>2
<1> HIDE DEF h
<1>5. ASSUME NEW k \in 1 .. n PROVE Since(raw[order[k]]) = h(k) - h(1) /\ 1 \in 1 .. n
  <2>1. 1 \in 1 .. n
    BY <1>1
  <2>2. h(1) \in Int /\ base = IF f.is_azure THEN h(1) + FirstDay * 24 ELSE h(1) * 1000
    BY <1>4, <2>1
  <2>3. h(k) \in Int /\ raw[order[k]] = IF f.is_azure THEN h(k) + FirstDay * 24
                                        ELSE h(k) * 1000
    BY <1>4
  <2> HIDE DEF base
  <2>4. (h(k) * 1000 - h(1) * 1000) \div 1000 = h(k) - h(1)
    BY <2>2, <2>3, SMT
  <2>5. Since(raw[order[k]]) = h(k) - h(1)
    BY <1>1, <2>2, <2>3, <2>4
  <2> QED
    BY <2>1, <2>5
<1> HIDE DEF Since
<1>6. \A k, l \in 1 .. n : k < l => h(k) <= h(l) /\ (h(k) = h(l) => order[k] < order[l])
  <2> TAKE k, l \in 1 .. n
  <2> HAVE k < l
  <2>1. /\ h(k) \in Int /\ raw[order[k]] = IF f.is_azure THEN h(k) + FirstDay * 24
                                            ELSE h(k) * 1000
        /\ h(l) \in Int /\ raw[order[l]] = IF f.is_azure THEN h(l) + FirstDay * 24
                                            ELSE h(l) * 1000
    BY <1>4
  <2>2. \/ raw[order[k]] < raw[order[l]]
        \/ raw[order[k]] = raw[order[l]] /\ order[k] < order[l]
    BY <1>2
  <2>3. FirstDay * 24 \in Int
    BY <1>1
  <2>4. CASE f.is_azure
    BY <2>1, <2>2, <2>3, <2>4
  <2>5. CASE ~ f.is_azure
    BY <2>1, <2>2, <2>5
  <2> QED
    BY <2>4, <2>5
<1>7. \A k \in 1 .. n : h(k) - h(1) \in Nat
  <2> TAKE k \in 1 .. n
  <2>1. 1 \in 1 .. n /\ (k = 1 \/ 1 < k)
    BY <1>1
  <2> QED
    BY <1>4, <1>6, <2>1
<1>8. ASSUME NEW k \in 1 .. n
      PROVE  /\ recs[k] = Request(k - 1, AtLeast1(f.rows[order[k]].prompt),
                                  AtLeast1(f.rows[order[k]].output), h(k) - h(1))
             /\ recs[k] \in Arrivals
  <2>1. recs[k] = Request(k - 1, AtLeast1(f.rows[order[k]].prompt),
                          AtLeast1(f.rows[order[k]].output), h(k) - h(1))
    <3>1. Since(raw[order[k]]) = h(k) - h(1)
      BY <1>5
    <3> QED
      BY <1>3, <3>1, Zenon
  <2>2. /\ AtLeast1(f.rows[order[k]].prompt) \in Nat \ {0}
        /\ AtLeast1(f.rows[order[k]].output) \in Nat \ {0}
    <3>1. order[k] \in 1 .. n
      BY <1>2
    <3>2. f.rows[order[k]].prompt \in Nat /\ f.rows[order[k]].output \in Nat
      BY <1>1, <3>1
    <3> QED
      BY <3>2, AtLeast1Type, Zenon
  <2>3. k - 1 \in Nat /\ h(k) - h(1) \in Nat
    BY <1>1, <1>7
  <2> QED
    BY <2>1, <2>2, <2>3 DEF Request, Arrivals
<1>9. \A k \in 1 .. n :
        /\ recs[k].req_id = k - 1
        /\ recs[k].prompt_tokens = AtLeast1(f.rows[order[k]].prompt)
        /\ recs[k].max_output_tokens = AtLeast1(f.rows[order[k]].output)
        /\ recs[k].arrival_time = h(k) - h(1)
  <2> TAKE k \in 1 .. n
  <2>1. recs[k] = Request(k - 1, AtLeast1(f.rows[order[k]].prompt),
                          AtLeast1(f.rows[order[k]].output), h(k) - h(1))
    BY <1>8, Zenon
  <2> DEFINE prompt == AtLeast1(f.rows[order[k]].prompt)
             output == AtLeast1(f.rows[order[k]].output)
             t == h(k) - h(1)
  <2>2. recs[k] = Request(k - 1, prompt, output, t)
    BY <2>1
  <2> HIDE DEF prompt, output, t
  <2>3. /\ recs[k].req_id = k - 1 /\ recs[k].prompt_tokens = prompt
        /\ recs[k].max_output_tokens = output /\ recs[k].arrival_time = t
    BY <2>2 DEF Request
  <2> QED
    BY <2>3 DEF prompt, output, t
<1>10. recs \in [1 .. n -> Arrivals]
  BY <1>3, <1>8
<1>11. ASSUME NEW k \in 1 .. n, NEW l \in 1 .. n, k < l
       PROVE  /\ recs[k].arrival_time <= recs[l].arrival_time
              /\ recs[l].arrival_time - recs[k].arrival_time = h(l) - h(k)
              /\ h(k) = h(l) => order[k] < order[l]
  <2>1. h(k) \in Int /\ h(l) \in Int /\ h(1) \in Int
    BY <1>4, <1>5
  <2>2. recs[k].arrival_time = h(k) - h(1) /\ recs[l].arrival_time = h(l) - h(1)
    BY <1>9
  <2>3. h(k) <= h(l) /\ (h(k) = h(l) => order[k] < order[l])
    BY <1>6, <1>11
  <2> QED
    BY <2>1, <2>2, <2>3
<1>12. RowByRow(recs, f)
  BY <1>9 DEF RowByRow
<1>13. TwoByTwo(recs, f)
  BY <1>11 DEF TwoByTwo, h
<1> QED
  BY <1>1, <1>2, <1>10, <1>12, <1>13

-----------------------------------------------------------------------------
(* Loading and draining *)

\* What was handed out is the records up to the cursor, of a file that could be
\* read.
TraceInv ==
  /\ file \in Files
  /\ phase = "loading" => handed = <<>> /\ cursor = 0
  /\ phase \in {"draining", "drained"} =>
       /\ Readable(file)
       /\ records = Records(file)
       /\ cursor \in 0 .. Len(file.rows)
       /\ Len(handed) = cursor
       /\ \A k \in 1 .. cursor : handed[k] = records[k]
  /\ phase = "drained" => cursor = Len(file.rows)

\* The clock is no earlier than the newest arrival.
SyntheticInv ==
  /\ phase \in {"draining", "drained"}
  /\ clock \in Nat
  /\ next_id \in Nat /\ Len(handed) = next_id
  /\ handed # <<>> => handed[Len(handed)].arrival_time <= clock

SourcesInv ==
  /\ source \in {"trace", "synthetic"}
  /\ phase \in {"loading", "draining", "drained", "failed"}
  /\ handed \in Seq(Arrivals)
  /\ source = "trace" => TraceInv
  /\ source = "synthetic" => SyntheticInv

\* Handing out one more arrival keeps those handed out before.
LEMMA HandOutOne ==
  ASSUME handed \in Seq(Arrivals), NEW a \in Arrivals, Stream!Follows(handed, a),
         phase = "draining", phase' = phase, handed' = Append(handed, a)
  PROVE  /\ handed' \in Seq(Arrivals) /\ Len(handed') = Len(handed) + 1
         /\ handed' # <<>> /\ handed'[Len(handed')] = a
         /\ \A k \in 1 .. Len(handed) : handed'[k] = handed[k]
         /\ Stream!HandOut
<1> DEFINE n == Len(handed)
           h == Append(handed, a)
           t == SubSeq(h, 1, n)
<1>1. n \in Nat /\ \A k \in 1 .. n : handed[k] \in Arrivals
  BY LenProperties, ElementOfSeq
<1>2. /\ h \in Seq(Arrivals) /\ h # <<>> /\ Len(h) = n + 1
      /\ \A k \in 1 .. n : h[k] = handed[k]
      /\ h[n + 1] = a
  BY AppendProperties
<1> HIDE DEF h, n
<1>3. t \in Seq(Arrivals) /\ Len(t) = n /\ \A k \in 1 .. n : t[k] = handed[k]
  <2>1. \A k \in 1 .. n : h[k] \in Arrivals
    BY <1>1, <1>2
  <2>2. /\ t \in Seq(Arrivals) /\ Len(t) = IF 1 <= n THEN n - 1 + 1 ELSE 0
        /\ \A k \in 1 .. n - 1 + 1 : t[k] = h[1 + k - 1]
    BY <1>1, <2>1, SubSeqProperties
  <2> HIDE DEF t
  <2>3. \A k \in 1 .. n : t[k] = h[k]
    BY <1>1, <2>2
  <2> QED
    BY <1>1, <1>2, <2>2, <2>3
<1> HIDE DEF t
<1>4. t = handed
  BY <1>3, SeqEqual DEF n
<1>5. Stream!HandOut
  BY <1>1, <1>2, <1>4 DEF Stream!HandOut, h, n, t
<1> QED
  BY <1>1, <1>2, <1>5 DEF h, n

\* The invariant at the start, when nothing was handed out, ...
LEMMA SourcesInvInit == Init => SourcesInv /\ Stream!Init
<1> SUFFICES ASSUME Init PROVE SourcesInv /\ Stream!Init
  OBVIOUS
<1>1. /\ handed = <<>> /\ cursor = 0 /\ clock = 0 /\ next_id = 0
      /\ \/ source = "trace" /\ phase = "loading" /\ file \in Files
         \/ source = "synthetic" /\ phase = "draining"
  BY DEF Init
<1>2. handed \in Seq(Arrivals) /\ Len(handed) = 0
  BY <1>1
<1>3. SourcesInv
  BY <1>1, <1>2 DEF SourcesInv, TraceInv, SyntheticInv
<1>4. Stream!Init
  BY <1>1 DEF Stream!Init
<1> QED
  BY <1>3, <1>4

\* ... when a trace is loaded, ...
LEMMA SourcesInvLoad ==
  ASSUME SourcesInv, LoadTrace
  PROVE  SourcesInv' /\ [Stream!HandOut \/ Stream!Close]_<<handed, phase \in {"drained", "failed"}>>
<1>1. /\ phase = "loading" /\ source = "trace" /\ file \in Files
      /\ handed = <<>> /\ cursor = 0
      /\ UNCHANGED <<source, file, cursor, handed>>
  BY DEF SourcesInv, SyntheticInv, TraceInv, LoadTrace
<1>2. CASE \E i \in DOMAIN file.rows : file.rows[i] = Malformed
  <2>1. phase' = "failed"
    BY <1>2 DEF LoadTrace
  <2>2. SourcesInv'
    BY <1>1, <2>1 DEF SourcesInv, TraceInv
  <2>3. Stream!Close
    BY <1>1, <2>1 DEF Stream!Close
  <2> QED
    BY <2>2, <2>3
<1>3. CASE ~ \E i \in DOMAIN file.rows : file.rows[i] = Malformed
  <2>1. phase' = "draining" /\ records' = Records(file)
    BY <1>3 DEF LoadTrace
  <2>2. Readable(file) /\ Len(file.rows) \in Nat
    BY <1>1, <1>3, FilesAssumption DEF Readable
  <2>3. Len(handed) = 0
    BY <1>1
  <2>4. SourcesInv'
    BY <1>1, <2>1, <2>2, <2>3 DEF SourcesInv, TraceInv
  <2> QED
    BY <1>1, <2>1, <2>4
<1> QED
  BY <1>2, <1>3

\* ... when it hands out its next record or has no more, ...
LEMMA SourcesInvTrace ==
  ASSUME SourcesInv, TraceArrival
  PROVE  SourcesInv' /\ [Stream!HandOut \/ Stream!Close]_<<handed, phase \in {"drained", "failed"}>>
<1> DEFINE n == Len(file.rows)
<1>1. /\ phase = "draining" /\ source = "trace" /\ TraceInv /\ handed \in Seq(Arrivals)
      /\ UNCHANGED <<source, file, records>>
  BY DEF SourcesInv, TraceArrival
<1>2. /\ Readable(file) /\ records = Records(file) /\ file \in Files
      /\ cursor \in 0 .. n /\ Len(handed) = cursor
      /\ \A k \in 1 .. cursor : handed[k] = records[k]
  BY <1>1 DEF TraceInv
<1>3. /\ n \in Nat /\ records \in [1 .. n -> Arrivals]
      /\ \A k \in 1 .. n : records[k].req_id = k - 1
      /\ \A k, l \in 1 .. n : k < l => records[k].arrival_time <= records[l].arrival_time
  <2>1. /\ n \in Nat /\ records \in [1 .. n -> Arrivals]
        /\ RowByRow(records, file) /\ TwoByTwo(records, file)
    BY <1>2, RecordsReplay
  <2>2. \A k \in 1 .. n : records[k].req_id = k - 1
    BY <2>1 DEF RowByRow
  <2>3. \A k, l \in 1 .. n : k < l => records[k].arrival_time <= records[l].arrival_time
    BY <2>1 DEF TwoByTwo
  <2> QED
    BY <2>1, <2>2, <2>3
<1> HIDE DEF n
<1>4. Len(records) = n
  BY <1>3, SequenceShape
<1>5. CASE cursor >= Len(records)
  <2>1. phase' = "drained" /\ UNCHANGED <<cursor, handed>>
    BY <1>5 DEF TraceArrival
  <2>2. cursor = n
    BY <1>2, <1>3, <1>4, <1>5
  <2>3. TraceInv'
    BY <1>1, <1>2, <2>1, <2>2 DEF TraceInv, n
  <2>4. SourcesInv'
    BY <1>1, <2>1, <2>3 DEF SourcesInv
  <2>5. Stream!Close
    BY <1>1, <2>1 DEF Stream!Close
  <2> QED
    BY <2>4, <2>5
<1>6. CASE ~ (cursor >= Len(records))
  <2> DEFINE a == records[cursor + 1]
  <2>1. handed' = Append(handed, a) /\ cursor' = cursor + 1 /\ phase' = phase
    BY <1>6 DEF TraceArrival
  <2>2. cursor + 1 \in 1 .. n /\ cursor \in Nat
    BY <1>2, <1>3, <1>4, <1>6
  <2>3. a \in Arrivals /\ a.req_id = cursor
    BY <1>3, <2>2
  <2>4. Stream!Follows(handed, a)
    <3>1. a.prompt_tokens >= 1 /\ a.max_output_tokens >= 1 /\ a.arrival_time >= 0
      <4> HIDE DEF a
      <4> QED
        BY <2>3 DEF Arrivals
    <3>2. ASSUME handed # <<>> PROVE a.arrival_time >= handed[Len(handed)].arrival_time
      <4>1. cursor # 0
        BY <1>1, <1>2, <3>2, EmptySeq
      <4>2. cursor \in 1 .. n /\ cursor \in 1 .. cursor /\ cursor < cursor + 1
        BY <1>2, <2>2, <4>1
      <4>3. handed[Len(handed)] = records[cursor]
        BY <1>2, <4>2
      <4>4. records[cursor].arrival_time <= records[cursor + 1].arrival_time
        BY <1>3, <2>2, <4>2
      <4>5. records[cursor].arrival_time \in Nat /\ records[cursor + 1].arrival_time \in Nat
        BY <1>3, <2>2, <4>2 DEF Arrivals
      <4> QED
        BY <4>3, <4>4, <4>5
    <3> QED
      BY <1>2, <2>3, <3>1, <3>2 DEF Stream!Follows
  <2> HIDE DEF a
  <2>5. /\ handed' \in Seq(Arrivals) /\ Len(handed') = Len(handed) + 1
        /\ handed'[Len(handed')] = a
        /\ \A k \in 1 .. Len(handed) : handed'[k] = handed[k]
        /\ Stream!HandOut
    BY <1>1, <2>1, <2>3, <2>4, HandOutOne
  <2>6. \A k \in 1 .. cursor' : handed'[k] = records'[k]
    <3>1. \A k \in 1 .. cursor + 1 : k \in 1 .. cursor \/ k = cursor + 1
      BY <2>2
    <3>2. handed'[cursor + 1] = records[cursor + 1]
      BY <1>2, <2>5 DEF a
    <3> QED
      BY <1>1, <1>2, <2>1, <2>5, <3>1, <3>2
  <2>7. cursor' \in 0 .. n /\ Len(handed') = cursor'
    BY <1>2, <1>3, <2>1, <2>2, <2>5
  <2>8. TraceInv'
    BY <1>1, <1>2, <2>1, <2>6, <2>7 DEF TraceInv, n
  <2>9. SourcesInv'
    BY <1>1, <2>1, <2>5, <2>8 DEF SourcesInv
  <2> QED
    BY <2>5, <2>9
<1> QED
  BY <1>5, <1>6

\* ... and when an arrival is sampled, or the end time has been passed.
LEMMA SourcesInvSynthetic ==
  ASSUME SourcesInv, SyntheticArrival
  PROVE  SourcesInv' /\ [Stream!HandOut \/ Stream!Close]_<<handed, phase \in {"drained", "failed"}>>
<1>1. /\ phase = "draining" /\ source = "synthetic" /\ source' = source
      /\ handed \in Seq(Arrivals) /\ clock \in Nat
      /\ next_id \in Nat /\ Len(handed) = next_id
      /\ handed # <<>> => handed[Len(handed)].arrival_time <= clock
  BY DEF SourcesInv, SyntheticInv, SyntheticArrival
<1>2. clock' \in Nat /\ clock <= clock'
  <2>1. PICK gap \in Gaps : clock' = clock + gap
    BY DEF SyntheticArrival
  <2>2. gap \in Nat
    BY SourcesAssumption
  <2> QED
    BY <1>1, <2>1, <2>2
<1>3. handed # <<>> => handed[Len(handed)].arrival_time \in Nat
  <2> SUFFICES ASSUME handed # <<>> PROVE handed[Len(handed)].arrival_time \in Nat
    OBVIOUS
  <2>1. Len(handed) \in 1 .. Len(handed)
    BY <1>1, EmptySeq
  <2>2. handed[Len(handed)] \in Arrivals
    BY <1>1, <2>1, ElementOfSeq
  <2> QED
    BY <2>2 DEF Arrivals
<1>4. handed # <<>> => handed[Len(handed)].arrival_time <= clock'
  BY <1>1, <1>2, <1>3
<1>5. CASE clock' > end_time
  <2>1. phase' = "drained" /\ UNCHANGED <<next_id, handed>>
    BY <1>5 DEF SyntheticArrival
  <2>2. SyntheticInv'
    BY <1>1, <1>2, <1>4, <2>1 DEF SyntheticInv
  <2>3. SourcesInv'
    BY <1>1, <2>1, <2>2 DEF SourcesInv
  <2>4. Stream!Close
    BY <1>1, <2>1 DEF Stream!Close
  <2> QED
    BY <2>3, <2>4
<1>6. CASE ~ (clock' > end_time)
  <2>1. PICK prompt \in Samples, output \in Samples :
          handed' = Append(handed, Request(next_id, AtLeast1(prompt), AtLeast1(output),
                                           clock'))
    BY <1>6 DEF SyntheticArrival
  <2>2. next_id' = next_id + 1 /\ phase' = phase
    BY <1>6 DEF SyntheticArrival
  <2> DEFINE p == AtLeast1(prompt)
             o == AtLeast1(output)
             a == Request(next_id, p, o, clock')
  <2>3. p \in Nat \ {0} /\ o \in Nat \ {0}
    <3>1. prompt \in Nat /\ output \in Nat
      BY SourcesAssumption
    <3> QED
      BY <3>1, AtLeast1Type
  <2> HIDE DEF p, o
  <2>4. /\ a \in Arrivals /\ a.req_id = Len(handed) /\ a.arrival_time = clock'
        /\ a.prompt_tokens = p /\ a.max_output_tokens = o
    BY <1>1, <1>2, <2>3 DEF Request, Arrivals
  <2>5. handed' = Append(handed, a)
    BY <2>1 DEF p, o
  <2> HIDE DEF a
  <2>6. Stream!Follows(handed, a)
    <3>1. p >= 1 /\ o >= 1 /\ clock' >= 0
      BY <1>2, <2>3
    <3>2. handed # <<>> => clock' >= handed[Len(handed)].arrival_time
      BY <1>2, <1>3, <1>4
    <3> QED
      BY <2>4, <3>1, <3>2 DEF Stream!Follows
  <2>7. /\ handed' \in Seq(Arrivals) /\ Len(handed') = Len(handed) + 1
        /\ handed'[Len(handed')] = a /\ Stream!HandOut
    BY <1>1, <2>2, <2>4, <2>5, <2>6, HandOutOne
  <2>8. SyntheticInv'
    BY <1>1, <1>2, <2>2, <2>4, <2>7 DEF SyntheticInv
  <2>9. SourcesInv'
    BY <1>1, <2>2, <2>7, <2>8 DEF SourcesInv
  <2> QED
    BY <2>7, <2>9
<1> QED
  BY <1>5, <1>6

\* Every step keeps the invariant, and is a step of the stream or none.
LEMMA SourcesInvStep ==
  SourcesInv /\ [Next]_vars =>
    SourcesInv' /\ [Stream!HandOut \/ Stream!Close]_<<handed, phase \in {"drained", "failed"}>>
<1> SUFFICES ASSUME SourcesInv, [Next]_vars
             PROVE  SourcesInv' /\ [Stream!HandOut \/ Stream!Close]_<<handed, phase \in {"drained", "failed"}>>
  OBVIOUS
<1>1. CASE UNCHANGED vars
  BY <1>1 DEF vars, SourcesInv, TraceInv, SyntheticInv
<1> QED
  BY <1>1, SourcesInvLoad, SourcesInvTrace, SourcesInvSynthetic DEF Next

\* The invariant holds in every behaviour.
LEMMA SourcesInvariant == Spec => []SourcesInv
BY SourcesInvInit, SourcesInvStep, PTL DEF Spec

\* Both sources hand out arrivals numbered from 0, none before time 0 or before
\* the one handed out last, each with tokens to read and to write
\* (next_arrival in trace_replay.rs and synthetic.rs).
THEOREM SourcesImplementStream == Spec => ImplementsArrivalStream
BY SourcesInvInit, SourcesInvStep, PTL DEF Spec, ImplementsArrivalStream, Stream!Spec

\* A trace is replayed as its file has it, whatever the order of its rows, and
\* across month ends, leap days and centuries (from_csv, gregorian_to_jdn).
THEOREM SourcesReplayFile == Spec => []ReplaysTheFile
<1>1. ASSUME SourcesInv PROVE ReplaysTheFile
  <2> SUFFICES ASSUME source = "trace", phase = "drained"
               PROVE  \E row \in [DOMAIN handed -> DOMAIN file.rows] :
                        /\ \A i \in DOMAIN file.rows : \E k \in DOMAIN handed : row[k] = i
                        /\ \A k \in DOMAIN handed :
                             /\ handed[k].prompt_tokens = AtLeast1(file.rows[row[k]].prompt)
                             /\ handed[k].max_output_tokens
                                  = AtLeast1(file.rows[row[k]].output)
                        /\ \A k, l \in DOMAIN handed :
                             k < l =>
                               /\ handed[l].arrival_time - handed[k].arrival_time
                                    = Happened(row[l]) - Happened(row[k])
                               /\ Happened(row[k]) = Happened(row[l]) => row[k] < row[l]
    BY DEF ReplaysTheFile
  <2> DEFINE n == Len(file.rows)
             order == SortedRows(file)
             recs == Records(file)
  <2>1. /\ Readable(file) /\ handed \in Seq(Arrivals) /\ Len(handed) = n
        /\ \A k \in 1 .. n : handed[k] = recs[k]
    BY <1>1 DEF SourcesInv, TraceInv
  <2>2. /\ n \in Nat /\ DOMAIN file.rows = 1 .. n
        /\ order \in [1 .. n -> 1 .. n]
        /\ \A i \in 1 .. n : \E k \in 1 .. n : order[k] = i
        /\ RowByRow(recs, file) /\ TwoByTwo(recs, file)
    BY <2>1, RecordsReplay
  <2>3. DOMAIN handed = 1 .. n
    BY <2>1, LenProperties
  <2>4. \A i : Happened(i) = HappenedIn(file, i)
    BY DEF Happened, HappenedIn
  <2> HIDE DEF n, order, recs
  <2> order \in [DOMAIN handed -> DOMAIN file.rows]
    BY <2>2, <2>3
  <2> WITNESS order \in [DOMAIN handed -> DOMAIN file.rows]
  <2>5. \A k \in 1 .. n :
          /\ handed[k].prompt_tokens = AtLeast1(file.rows[order[k]].prompt)
          /\ handed[k].max_output_tokens = AtLeast1(file.rows[order[k]].output)
    BY <2>1, <2>2 DEF RowByRow, n, order
  <2>6. ASSUME NEW k \in 1 .. n, NEW l \in 1 .. n, k < l
        PROVE  /\ handed[l].arrival_time - handed[k].arrival_time
                    = Happened(order[l]) - Happened(order[k])
               /\ Happened(order[k]) = Happened(order[l]) => order[k] < order[l]
    <3>1. handed[k] = recs[k] /\ handed[l] = recs[l]
      BY <2>1
    <3>2. /\ recs[l].arrival_time - recs[k].arrival_time
               = HappenedIn(file, order[l]) - HappenedIn(file, order[k])
          /\ HappenedIn(file, order[k]) = HappenedIn(file, order[l])
               => order[k] < order[l]
      BY <2>2, <2>6 DEF TwoByTwo, n, order
    <3> QED
      BY <2>4, <3>1, <3>2
  <2> QED
    BY <2>2, <2>3, <2>5, <2>6
<1> QED
  BY <1>1, SourcesInvariant, PTL
=============================================================================
