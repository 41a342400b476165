--------------------------- MODULE ArrivalSources ---------------------------
(***************************************************************************)
(* The two workload sources and the loop that drains them:                 *)
(* workload/trace_replay.rs, workload/synthetic.rs and the head of         *)
(* Simulator::new.  A trace is a file of rows in any order, with times in  *)
(* milliseconds or as dates; a synthetic workload samples gaps and token   *)
(* counts.  Times are whole seconds in a native file and whole hours in    *)
(* an Azure file: what is smaller obeys the same arithmetic.               *)
(***************************************************************************)
EXTENDS Integers, Sequences, Tally

CONSTANTS
  Files,       \* the trace files: [is_azure, rows]
  Malformed,   \* a row that does not parse
  Gaps,        \* what the gap distribution may sample,
  Samples,     \* ... and the token distributions, truncated to integers
  EndTimes,    \* the end times of synthetic workloads
  MaxArrivals  \* bound of a check: arrivals sampled in a behaviour

ASSUME SourcesAssumption ==
  /\ Gaps \cup Samples \cup EndTimes \subseteq Nat
  /\ MaxArrivals \in Nat

\* A row of a native file, in milliseconds, and of an Azure file.
NativeRow(row) == row.time \in Int /\ row.time % 1000 = 0
AzureRow(row) ==
  /\ row.time.year \in Nat \ {0} /\ row.time.month \in 1 .. 12
  /\ row.time.day \in Nat /\ row.time.hour \in Nat

ASSUME FilesAssumption ==
  \A f \in Files :
    /\ f.is_azure \in BOOLEAN
    /\ Len(f.rows) \in Nat /\ DOMAIN f.rows = 1 .. Len(f.rows)
    /\ \A i \in DOMAIN f.rows : f.rows[i] # Malformed =>
         /\ f.rows[i].prompt \in Nat /\ f.rows[i].output \in Nat
         /\ IF f.is_azure THEN AzureRow(f.rows[i]) ELSE NativeRow(f.rows[i])

VARIABLES
  source,    \* "trace" or "synthetic"
  file,      \* the file of a trace
  records,   \* TraceReplay: records
  cursor,    \* ... and cursor
  clock,     \* SyntheticWorkload: clock,
  next_id,   \* ... next_id
  end_time,  \* ... and end_time
  phase,     \* "loading", "draining", then "drained" or "failed"
  handed     \* the arrivals that Simulator::new has pushed

vars == <<source, file, records, cursor, clock, next_id, end_time, phase, handed>>

Request(id, prompt, output, t) ==
  [req_id |-> id, prompt_tokens |-> prompt, max_output_tokens |-> output,
   arrival_time |-> t]

AtLeast1(n) == IF n >= 1 THEN n ELSE 1

-----------------------------------------------------------------------------
(* Trace files *)

\* Mutant of gregorian_to_jdn: forgets that centuries are no leap years.
gregorian_to_jdn_Julian(year, month, day) ==
  LET a == (14 - month) \div 12
      y == year + 4800 - a
      m == month + 12 * a - 3
  IN  day + (153 * m + 2) \div 5 + 365 * y + y \div 4 - 32045

gregorian_to_jdn(year, month, day) ==
  LET a == (14 - month) \div 12
      y == year + 4800 - a
      m == month + 12 * a - 3
  IN  day + (153 * m + 2) \div 5 + 365 * y
        + y \div 4 - y \div 100 + y \div 400 - 32045

\* parse_iso_datetime, in hours.
parse_iso_datetime(t) == gregorian_to_jdn(t.year, t.month, t.day) * 24 + t.hour

\* raw_time of each row.
RawTimes(f) ==
  [i \in DOMAIN f.rows |-> IF f.is_azure THEN parse_iso_datetime(f.rows[i].time)
                                         ELSE f.rows[i].time]

\* The row numbers in the order of sort_by.
SortedRows(f) == SortedByKey(RawTimes(f))

\* The records of a file: ids in time order, times from the first row on.
Records(f) ==
  LET order == SortedRows(f)
      raw == RawTimes(f)
      base == raw[order[1]]
      Since(t) == IF f.is_azure THEN t - base ELSE (t - base) \div 1000
  IN  [k \in DOMAIN order |->
         LET row == f.rows[order[k]]
         IN  Request(k - 1, AtLeast1(row.prompt), AtLeast1(row.output),
                     Since(raw[order[k]]))]

-----------------------------------------------------------------------------
(* Loading and draining *)

Init ==
  /\ \/ source = "trace" /\ phase = "loading" /\ file \in Files /\ end_time = 0
     \/ /\ source = "synthetic" /\ phase = "draining"
        /\ file = [is_azure |-> FALSE, rows |-> <<>>]
        /\ end_time \in EndTimes
  /\ records = <<>> /\ cursor = 0
  /\ clock = 0 /\ next_id = 0
  /\ handed = <<>>

\* TraceReplay::from_csv, and run_once's panic when it returns an error.
LoadTrace ==
  /\ phase = "loading"
  /\ IF \E i \in DOMAIN file.rows : file.rows[i] = Malformed
     THEN phase' = "failed" /\ UNCHANGED records
     ELSE phase' = "draining" /\ records' = Records(file)
  /\ UNCHANGED <<source, file, cursor, clock, next_id, end_time, handed>>

\* TraceReplay::next_arrival, until it returns None.
TraceArrival ==
  /\ phase = "draining" /\ source = "trace"
  /\ IF cursor >= Len(records)
     THEN phase' = "drained" /\ UNCHANGED <<cursor, handed>>
     ELSE /\ handed' = Append(handed, records[cursor + 1])
          /\ cursor' = cursor + 1
          /\ UNCHANGED phase
  /\ UNCHANGED <<source, file, records, clock, next_id, end_time>>

\* Mutant of SyntheticArrival: a sample of no tokens is taken as it is.
SyntheticArrival_NoTokens ==
  /\ phase = "draining" /\ source = "synthetic"
  /\ next_id < MaxArrivals
  /\ \E gap \in Gaps : clock' = clock + gap
  /\ IF clock' > end_time
     THEN phase' = "drained" /\ UNCHANGED <<next_id, handed>>
     ELSE /\ \E prompt, output \in Samples :
               handed' = Append(handed, Request(next_id, prompt, output, clock'))
          /\ next_id' = next_id + 1
          /\ UNCHANGED phase
  /\ UNCHANGED <<source, file, records, cursor, end_time>>

\* SyntheticWorkload::next_arrival, until it returns None.
SyntheticArrival ==
  /\ phase = "draining" /\ source = "synthetic"
  /\ next_id < MaxArrivals
  /\ \E gap \in Gaps : clock' = clock + gap
  /\ IF clock' > end_time
     THEN phase' = "drained" /\ UNCHANGED <<next_id, handed>>
     ELSE /\ \E prompt, output \in Samples :
               handed' = Append(handed, Request(next_id, AtLeast1(prompt),
                                                AtLeast1(output), clock'))
          /\ next_id' = next_id + 1
          /\ UNCHANGED phase
  /\ UNCHANGED <<source, file, records, cursor, end_time>>

Next == LoadTrace \/ TraceArrival \/ SyntheticArrival

Spec == Init /\ [][Next]_vars

-----------------------------------------------------------------------------
(* What a source promises *)

Stream == INSTANCE ArrivalStream WITH closed <- phase \in {"drained", "failed"}

\* Either source hands out a stream of arrivals as Simulator::new needs it,
\* whatever the order and the format of a trace's rows and whatever is sampled.
ImplementsArrivalStream == Stream!Spec

\* A calendar that counts: the days of each month, and the days before a date.
IsLeap(y) == y % 4 = 0 /\ (y % 100 # 0 \/ y % 400 = 0)
MonthLength(y, m) ==
  CASE m = 2 -> IF IsLeap(y) THEN 29 ELSE 28
    [] m \in {4, 6, 9, 11} -> 30
    [] OTHER -> 31
DaysBefore(t) ==
  365 * t.year + Cardinality({y \in 1 .. t.year - 1 : IsLeap(y)})
    + Cardinality(UNION {{m} \X (1 .. MonthLength(t.year, m)) : m \in 1 .. t.month - 1})
    + t.day

\* The day counts of all dates in the files.
Dates == UNION {{f.rows[i].time : i \in {j \in DOMAIN f.rows : f.rows[j] # Malformed}}
                  : f \in {g \in Files : g.is_azure}}
DayCount == [t \in Dates |-> DaysBefore(t)]

\* When a row happened, in the unit of arrival times.
Happened(i) ==
  LET t == file.rows[i].time
  IN  IF file.is_azure THEN DayCount[t] * 24 + t.hour ELSE t \div 1000

\* A replayed trace is the file: one arrival for each row, with its tokens (one
\* where the row has none), in the order in which they happened, rows of one
\* time in the order of the file, and the time between any two arrivals is the
\* time between their rows, across month ends, leap days and centuries.
ReplaysTheFile ==
  (source = "trace" /\ phase = "drained") =>
    \E row \in [DOMAIN handed -> DOMAIN file.rows] :
      /\ \A i \in DOMAIN file.rows : \E k \in DOMAIN handed : row[k] = i
      /\ \A k \in DOMAIN handed :
           /\ handed[k].prompt_tokens = AtLeast1(file.rows[row[k]].prompt)
           /\ handed[k].max_output_tokens = AtLeast1(file.rows[row[k]].output)
      /\ \A k, l \in DOMAIN handed :
           k < l =>
             /\ handed[l].arrival_time - handed[k].arrival_time
                  = Happened(row[l]) - Happened(row[k])
             /\ Happened(row[k]) = Happened(row[l]) => row[k] < row[l]
=============================================================================
