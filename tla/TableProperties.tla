--------------------------- MODULE TableProperties --------------------------
(***************************************************************************)
(* What the kernel table owes to the file it was filled from, in terms of  *)
(* the rows of the file.                                                   *)
(***************************************************************************)
EXTENDS KernelTable

CONSTANTS
  Targets,  \* what is asked: the targets,
  Batches,  \* ... the batch sizes
  SeqLens   \* ... and the sequence lengths

ASSUME QuestionsAssumption == Batches \cup SeqLens \subseteq Nat

\* The rows measured for a target, an operation and a batch size.
Measured(target, op, batch) ==
  {i \in DOMAIN read : /\ read[i].target = target /\ read[i].op = op
                       /\ read[i].batch = batch}

\* The batch sizes measured for a target and an operation.
MeasuredBatches(target, op) ==
  {b \in {read[i].batch : i \in DOMAIN read} : Measured(target, op, b) # {}}

\* The last row of the nearest measured at or below n, the first row of the
\* nearest at or above n.
Below(rows, n) ==
  {i \in rows : /\ read[i].seq_len <= n
                /\ \A j \in rows : read[j].seq_len <= n =>
                     \/ read[j].seq_len < read[i].seq_len
                     \/ read[j].seq_len = read[i].seq_len /\ j <= i}
Above(rows, n) ==
  {i \in rows : /\ read[i].seq_len >= n
                /\ \A j \in rows : read[j].seq_len >= n =>
                     \/ read[j].seq_len > read[i].seq_len
                     \/ read[j].seq_len = read[i].seq_len /\ j >= i}

\* Answer v is l, or lies on the line through the rows i and j.
Equals(v, l) == v.den > 0 /\ v.num = l * v.den
OnLine(v, i, j, n) ==
  /\ v.den > 0
  /\ v.num * (read[j].seq_len - read[i].seq_len)
       = v.den * (read[i].latency * (read[j].seq_len - n)
                    + read[j].latency * (n - read[i].seq_len))
Distance(b, c) == IF b < c THEN c - b ELSE b - c

\* What the rows say of an answer for length n: what was measured last at that
\* length; on the line between the two lengths around it; beyond the measured
\* lengths, what the nearest one took; nothing if there are no rows.
MatchesRows(v, rows, n) ==
  /\ v = None <=> rows = {}
  /\ \A i \in Below(rows, n) :
       (read[i].seq_len = n \/ Above(rows, n) = {}) => Equals(v, read[i].latency)
  /\ \A j \in Above(rows, n) : Below(rows, n) = {} => Equals(v, read[j].latency)
  /\ \A i \in Below(rows, n), j \in Above(rows, n) :
       read[i].seq_len < n => OnLine(v, i, j, n)

\* lookup answers from the rows of the file for that target, operation and batch
\* size, whatever their order.  It never divides by zero, though a file may
\* measure a length twice.
LookupMatchesRows ==
  phase = "loaded" =>
    \A target \in Targets, op \in KernelOps, batch \in Batches, n \in SeqLens :
      MatchesRows(Lookup(target, op, batch, n), Measured(target, op, batch), n)

\* A longer sequence never takes less time than a shorter one, wherever the two
\* lengths lie among the measured ones, if that is so of what was measured.
LongerTakesLonger ==
  phase = "loaded" =>
    \A target \in Targets, op \in KernelOps :
      \A batch \in MeasuredBatches(target, op) :
        (\A i, j \in Measured(target, op, batch) :
           read[i].seq_len <= read[j].seq_len => read[i].latency <= read[j].latency)
        => \A m, n \in SeqLens :
             m <= n => AtMost(Lookup(target, op, batch, m), Lookup(target, op, batch, n))

\* lookup_nearest_batch falls back to the roofline only if the operation was
\* never measured on the target, and otherwise answers for a batch size that no
\* measured one is nearer than; so for the one asked for, if it was measured.
NearestBatchAnswers ==
  phase = "loaded" =>
    \A target \in Targets, op \in KernelOps, batch \in Batches, n \in SeqLens :
      LET batches == MeasuredBatches(target, op)
          answers == LookupNearestBatch(target, op, batch, n)
      IN  /\ answers # {}
          /\ \A v \in answers :
               IF batches = {} THEN v = None
               ELSE \E b \in batches :
                      /\ v = Lookup(target, op, b, n)
                      /\ \A c \in batches : Distance(b, batch) <= Distance(c, batch)
=============================================================================
