----------------------------- MODULE KernelTable ----------------------------
(***************************************************************************)
(* The table of profiled kernel latencies, hardware/kernel_table.rs: how   *)
(* it is filled from the rows of a file, in whatever order they come, and  *)
(* what it answers.  An answer is a fraction, since interpolation divides. *)
(* A GPU and a model, always compared together, are one target.            *)
(***************************************************************************)
EXTENDS Tally, Fractions

CONSTANTS
  Rows,       \* what a row may be: [target, op, batch, seq_len, latency],
  Malformed,  \* ... or one that does not parse
  MaxRows     \* bound of a check: rows of a file

ASSUME TableAssumption ==
  /\ \A r \in Rows \ {Malformed} : {r.batch, r.seq_len, r.latency} \subseteq Nat
  /\ None \notin [num : Int, den : Int]
  /\ MaxRows \in Nat

VARIABLES
  read,    \* the rows read so far
  exact,   \* exact: the latency at each key
  by_seq,  \* by_seq: for each partial key, pairs of seq_len and latency
  phase    \* "reading", then "loaded" or "failed"

vars == <<read, exact, by_seq, phase>>

KernelOps == {"prefill", "decode"}

PartialKey(target, op, batch) == <<target, op, batch>>
KernelKey(target, op, batch, seq_len) == <<target, op, batch, seq_len>>

-----------------------------------------------------------------------------
(* Filling the table *)

Init == read = <<>> /\ exact = Empty /\ by_seq = Empty /\ phase = "reading"

\* Mutant of Insert: a key that is bound already stays as it is.
Insert_KeepsFirst(r) ==
  LET key == KernelKey(r.target, r.op, r.batch, r.seq_len)
      pkey == PartialKey(r.target, r.op, r.batch)
      entries == IF pkey \in DOMAIN by_seq THEN by_seq[pkey] ELSE <<>>
  IN  /\ exact' = IF key \in DOMAIN exact THEN exact ELSE With(exact, key, r.latency)
      /\ by_seq' = With(by_seq, pkey, Append(entries, <<r.seq_len, r.latency>>))

Insert(r) ==
  LET pkey == PartialKey(r.target, r.op, r.batch)
      entries == IF pkey \in DOMAIN by_seq THEN by_seq[pkey] ELSE <<>>
  IN  /\ exact' = With(exact, KernelKey(r.target, r.op, r.batch, r.seq_len), r.latency)
      /\ by_seq' = With(by_seq, pkey, Append(entries, <<r.seq_len, r.latency>>))

\* One turn of the loop of from_csv: a row of another operation is skipped, one
\* that does not parse ends the load.
ReadRow ==
  /\ phase = "reading" /\ Len(read) < MaxRows
  /\ \E r \in Rows :
       /\ read' = Append(read, r)
       /\ \/ r = Malformed /\ phase' = "failed" /\ UNCHANGED <<exact, by_seq>>
          \/ /\ r # Malformed /\ phase' = "reading"
             /\ IF r.op \in KernelOps THEN Insert(r) ELSE UNCHANGED <<exact, by_seq>>

\* sort_by_key.
SortedEntries(v) ==
  LET order == SortedByKey([i \in DOMAIN v |-> v[i][1]])
  IN  [k \in DOMAIN v |-> v[order[k]]]

\* The end of from_csv.
Finish ==
  /\ phase = "reading" /\ phase' = "loaded"
  /\ by_seq' = [pkey \in DOMAIN by_seq |-> SortedEntries(by_seq[pkey])]
  /\ UNCHANGED <<read, exact>>

Next == ReadRow \/ Finish

Spec == Init /\ [][Next]_vars

-----------------------------------------------------------------------------
(* Asking the table *)

\* Mutant of Interpolate: measures the distance from the far end.
Interpolate_FromAbove(lo, hi, seq_len) ==
  [num |-> lo[2] * (hi[1] - lo[1]) + (hi[1] - seq_len) * (hi[2] - lo[2]),
   den |-> hi[1] - lo[1]]

\* l0 + t * (l1 - l0), where t is the part of the way from s0 to s1.
Interpolate(lo, hi, seq_len) ==
  [num |-> lo[2] * (hi[1] - lo[1]) + (seq_len - lo[1]) * (hi[2] - lo[2]),
   den |-> hi[1] - lo[1]]

\* How many entries, counted from 1, come before those beyond seq_len.
PartitionPoint(entries, seq_len) ==
  Cardinality({i \in DOMAIN entries : entries[i][1] <= seq_len})

\* lookup, for a key that was not measured.
BetweenEntries(entries, seq_len) ==
  LET pos == PartitionPoint(entries, seq_len)
  IN  IF seq_len <= entries[1][1] THEN Whole(entries[1][2])
      ELSE IF seq_len >= Last(entries)[1] THEN Whole(Last(entries)[2])
      ELSE Interpolate(entries[pos], entries[pos + 1], seq_len)

Lookup(target, op, batch, seq_len) ==
  LET key == KernelKey(target, op, batch, seq_len)
      pkey == PartialKey(target, op, batch)
  IN  IF key \in DOMAIN exact THEN Whole(exact[key])
      ELSE IF pkey \in DOMAIN by_seq THEN BetweenEntries(by_seq[pkey], seq_len)
      ELSE None

\* Mutant of AbsDiff: the difference of unsigned numbers, cut off at 0.
AbsDiff_Saturating(a, b) == IF a >= b THEN a - b ELSE 0

AbsDiff(a, b) == IF a >= b THEN a - b ELSE b - a

\* lookup_nearest_batch: the answers it may give, as the order of keys in a hash
\* map decides between two batch sizes at one distance.
LookupNearestBatch(target, op, batch, seq_len) ==
  LET direct == Lookup(target, op, batch, seq_len)
      available == {b \in {pkey[3] : pkey \in DOMAIN by_seq} :
                      PartialKey(target, op, b) \in DOMAIN by_seq}
      nearest == {b \in available :
                    \A c \in available : AbsDiff(b, batch) <= AbsDiff(c, batch)}
  IN  IF direct # None THEN {direct}
      ELSE IF available = {} THEN {None}
      ELSE {Lookup(target, op, b, seq_len) : b \in nearest}
=============================================================================
