---------------------------- MODULE PricedProofs ----------------------------
(***************************************************************************)
(* What prefills and decode steps cost, and what that owes to the cluster, *)
(* the GPU and the model: proofs about PricedDecode.tla and the latencies  *)
(* it is built from, for every command line in CommandLines, every table   *)
(* and every batch.                                                        *)
(*                                                                         *)
(* The invariant says little, as a step changes the contexts only: the     *)
(* set-up is one that run_once makes, the table is what its file says      *)
(* (TableProofs.tla) and the contexts are numbers.  The work is in the     *)
(* latencies.  A latency is a chain of sums, products and quotients of     *)
(* fractions, rounded in places, and each theorem compares two of these    *)
(* chains link by link: on one large node and on several, over one GPU's   *)
(* experts and over many, with a longer context, with a larger batch, in   *)
(* fewer bits.  So the first parts say of each link, from a hop to a step, *)
(* what it is at most when its arguments are at most others.               *)
(***************************************************************************)
EXTENDS PricedProperties, TableProofs

-----------------------------------------------------------------------------
(* Division *)

\* The quotient is the most times that the divisor goes into a number.
LEMMA DivHolds ==
  ASSUME NEW n \in Nat, NEW d \in Nat \ {0}
  PROVE  /\ n \div d \in Nat /\ (n \div d) * d <= n /\ n < (n \div d + 1) * d
         /\ \A q \in Nat : q * d <= n => q <= n \div d
         /\ \A q \in Nat : n < q * d => n \div d < q
<1> DEFINE p == n \div d
<1>1. p \in Nat /\ p * d <= n /\ n < (p + 1) * d
  BY SMT
<1> HIDE DEF p
<1>2. ASSUME NEW q \in Nat, q * d <= n PROVE q <= p
  <2>1. SUFFICES ASSUME p + 1 <= q PROVE FALSE
    BY <1>1
  <2>2. (p + 1) * d <= q * d
    BY <1>1, <2>1, ProductGrows
  <2>3. (p + 1) * d \in Nat /\ q * d \in Nat
    BY <1>1, SMT
  <2> QED
    BY <1>1, <1>2, <2>2, <2>3
<1>3. ASSUME NEW q \in Nat, n < q * d PROVE p < q
  <2>1. SUFFICES ASSUME q <= p PROVE FALSE
    BY <1>1
  <2>2. q * d <= p * d
    BY <1>1, <2>1, ProductGrows
  <2>3. p * d \in Nat /\ q * d \in Nat
    BY <1>1, SMT
  <2> QED
    BY <1>1, <1>3, <2>2, <2>3
<1> QED
  BY <1>1, <1>2, <1>3 DEF p

\* More divided by the same is no less.
LEMMA DivGrows ==
  ASSUME NEW n \in Nat, NEW m \in Nat, NEW d \in Nat \ {0}, n <= m
  PROVE  n \div d \in Nat /\ m \div d \in Nat /\ n \div d <= m \div d
<1>1. n \div d \in Nat /\ (n \div d) * d <= n /\ m \div d \in Nat
  BY DivHolds
<1>2. (n \div d) * d <= m
  <2>1. (n \div d) * d \in Nat
    BY <1>1, SMT
  <2> QED
    BY <1>1, <2>1
<1> QED
  BY <1>1, <1>2, DivHolds

-----------------------------------------------------------------------------
(* Costs at most n times as high *)

\* Sums of what is at most n times as high ...
LEMMA BoundPlus ==
  ASSUME NEW n \in Nat, NEW a \in LowestTerms, NEW b \in LowestTerms,
         NEW x \in LowestTerms, NEW y \in LowestTerms,
         AtMost(x, Times(Whole(n), a)), AtMost(y, Times(Whole(n), b))
  PROVE  /\ Plus(a, b) \in LowestTerms /\ Plus(x, y) \in LowestTerms
         /\ AtMost(Plus(x, y), Times(Whole(n), Plus(a, b)))
<1>1. Whole(n) \in LowestTerms
  BY WholeLaws
<1>2. /\ Times(Whole(n), a) \in LowestTerms /\ Times(Whole(n), b) \in LowestTerms
      /\ Times(Whole(n), Plus(a, b)) = Plus(Times(Whole(n), a), Times(Whole(n), b))
  BY <1>1, TimesLaws
<1>3. AtMost(Plus(x, y), Plus(Times(Whole(n), a), Times(Whole(n), b)))
  BY <1>2, PlusGrows
<1> QED
  BY <1>2, <1>3, PlusLaws

\* ... products with the same ...
LEMMA BoundTimes ==
  ASSUME NEW n \in Nat, NEW a \in LowestTerms, NEW x \in LowestTerms,
         NEW k \in LowestTerms, AtMost(x, Times(Whole(n), a))
  PROVE  /\ Times(k, a) \in LowestTerms /\ Times(k, x) \in LowestTerms
         /\ AtMost(Times(k, x), Times(Whole(n), Times(k, a)))
<1>1. Whole(n) \in LowestTerms
  BY WholeLaws
<1>2. /\ Times(Whole(n), a) \in LowestTerms /\ Times(Whole(n), k) = Times(k, Whole(n))
      /\ Times(Times(Whole(n), k), a) = Times(Whole(n), Times(k, a))
      /\ Times(Times(k, Whole(n)), a) = Times(k, Times(Whole(n), a))
  BY <1>1, TimesLaws
<1>3. AtMost(k, k)
  BY OrderLaws
<1>4. AtMost(Times(k, x), Times(k, Times(Whole(n), a)))
  BY <1>2, <1>3, TimesGrows
<1> QED
  BY <1>2, <1>4, TimesLaws

\* ... quotients by the same ...
LEMMA BoundOver ==
  ASSUME NEW n \in Nat, NEW a \in LowestTerms, NEW x \in LowestTerms,
         NEW d \in LowestTerms, d # Zero, AtMost(x, Times(Whole(n), a))
  PROVE  /\ Over(a, d) \in LowestTerms /\ Over(x, d) \in LowestTerms
         /\ AtMost(Over(x, d), Times(Whole(n), Over(a, d)))
<1> DEFINE r == Reciprocal(d)
<1>1. /\ r \in LowestTerms
      /\ Over(a, d) = Times(a, r) /\ Over(x, d) = Times(x, r)
  BY OverLaws
<1> HIDE DEF r
<1>2. Times(a, r) = Times(r, a) /\ Times(x, r) = Times(r, x)
  BY <1>1, TimesLaws
<1> QED
  BY <1>1, <1>2, BoundTimes

\* ... and nothing at all.
LEMMA BoundZero ==
  ASSUME NEW n \in Nat
  PROVE  Zero \in LowestTerms /\ AtMost(Zero, Times(Whole(n), Zero))
<1>1. Zero \in LowestTerms /\ Whole(n) \in LowestTerms
  BY WholeLaws
<1>2. Times(Whole(n), Zero) \in LowestTerms
  BY <1>1, TimesLaws
<1> QED
  BY <1>1, <1>2, OrderLaws

\* Once as high is as high.
LEMMA BoundOnce ==
  ASSUME NEW a \in LowestTerms
  PROVE  Times(Whole(1), a) = a
<1>1. Whole(1) \in LowestTerms
  BY WholeLaws
<1> QED
  BY <1>1, TimesLaws

-----------------------------------------------------------------------------
(* Messages *)

Clusters ==
  [tp : Nat, pp : Nat, ep : Nat, scale_up_bw : Nat, scale_up_latency : Nat,
   gpus_per_node : Nat, scale_out_bw : Nat, scale_out_latency : Nat,
   internode_bw : Nat, disaggregate : BOOLEAN]

\* A node has a GPU at least.
LEMMA NodeSizeType ==
  ASSUME NEW c \in Clusters
  PROVE  NodeSize(c) \in Nat \ {0}
BY DEF Clusters, NodeSize, Greatest

\* A message n times as long takes at most n times as long over a link.
LEMMA HopBound ==
  ASSUME NEW n \in Nat \ {0}, NEW b \in Nat, NEW x \in Nat, x <= n * b,
         NEW bw \in Nat \ {0}, NEW latency \in Nat
  PROVE  /\ Hop(b, bw, latency) \in LowestTerms /\ Hop(x, bw, latency) \in LowestTerms
         /\ AtMost(Hop(x, bw, latency), Times(Whole(n), Hop(b, bw, latency)))
<1>1. /\ Whole(latency) \in LowestTerms /\ Frac(b, bw) \in LowestTerms
      /\ Frac(x, bw) \in LowestTerms
  BY WholeLaws, FracType
<1>2. AtMost(Whole(latency), Times(Whole(n), Whole(latency)))
  <2>1. n * latency \in Nat /\ latency <= n * latency
    <3>1. latency * 1 <= latency * n
      BY ProductGrows
    <3> QED
      BY <3>1, SMT
  <2> QED
    BY <2>1, WholeLaws
<1>3. AtMost(Frac(x, bw), Times(Whole(n), Frac(b, bw)))
  <2>1. n * b \in Nat
    BY SMT
  <2>2. Times(Whole(n), Frac(b, bw)) = Frac(n * b, bw)
    BY FracLaws
  <2> QED
    BY <2>1, <2>2, FracLaws
<1> QED
  BY <1>1, <1>2, <1>3, BoundPlus DEF Hop

\* A slower link takes longer.
LEMMA HopGrows ==
  ASSUME NEW b \in Nat, NEW x \in Nat, x <= b, NEW bw \in Nat \ {0}, NEW faster \in Nat \ {0},
         bw <= faster, NEW latency \in Nat, NEW sooner \in Nat, sooner <= latency
  PROVE  /\ Hop(b, bw, latency) \in LowestTerms /\ Hop(x, faster, sooner) \in LowestTerms
         /\ AtMost(Hop(x, faster, sooner), Hop(b, bw, latency))
<1>1. /\ Whole(latency) \in LowestTerms /\ Frac(b, bw) \in LowestTerms
      /\ Whole(sooner) \in LowestTerms /\ Frac(x, faster) \in LowestTerms
  BY WholeLaws, FracType
<1>2. AtMost(Whole(sooner), Whole(latency))
  BY WholeLaws
<1>3. AtMost(Frac(x, faster), Frac(b, bw))
  BY FracGrows
<1> QED
  BY <1>1, <1>2, <1>3, PlusGrows, PlusLaws DEF Hop

\* A ring passes on at most n times as much in at most n times the time (ring_latency).
LEMMA RingBound ==
  ASSUME NEW n \in Nat \ {0}, NEW b \in Nat, NEW x \in Nat, x <= n * b,
         NEW bw \in Nat, NEW latency \in Nat, NEW k \in Nat
  PROVE  /\ RingLatency(k, b, bw, latency) \in LowestTerms
         /\ RingLatency(k, x, bw, latency) \in LowestTerms
         /\ AtMost(RingLatency(k, x, bw, latency), Times(Whole(n), RingLatency(k, b, bw, latency)))
<1>1. CASE k <= 1 \/ bw = 0
  <2>1. RingLatency(k, b, bw, latency) = Zero /\ RingLatency(k, x, bw, latency) = Zero
    BY <1>1 DEF RingLatency
  <2> QED
    BY <2>1, BoundZero
<1>2. CASE ~ (k <= 1 \/ bw = 0)
  <2>1. k * bw \in Nat \ {0} /\ 2 * (k - 1) \in Nat
    BY <1>2, SMT
  <2>2. /\ RingLatency(k, b, bw, latency) = Times(Whole(2 * (k - 1)), Hop(b, k * bw, latency))
        /\ RingLatency(k, x, bw, latency) = Times(Whole(2 * (k - 1)), Hop(x, k * bw, latency))
    BY <1>2 DEF RingLatency
  <2>3. Whole(2 * (k - 1)) \in LowestTerms
    BY <2>1, WholeLaws
  <2>4. /\ Hop(b, k * bw, latency) \in LowestTerms /\ Hop(x, k * bw, latency) \in LowestTerms
        /\ AtMost(Hop(x, k * bw, latency), Times(Whole(n), Hop(b, k * bw, latency)))
    BY <2>1, HopBound
  <2> QED
    BY <2>2, <2>3, <2>4, BoundTimes
<1> QED
  BY <1>1, <1>2

\* The fields of a cluster.
LEMMA ClusterFields ==
  ASSUME NEW c \in Clusters
  PROVE  /\ {c.tp, c.pp, c.ep, c.scale_up_bw, c.scale_up_latency, c.gpus_per_node,
             c.scale_out_bw, c.scale_out_latency, c.internode_bw} \subseteq Nat
         /\ c.disaggregate \in BOOLEAN
BY DEF Clusters

\* The numbers of GPUs of a node and of nodes that reduce.
LEMMA ReduceParts ==
  ASSUME NEW c \in Clusters
  PROVE  Least(NodeSize(c), c.tp) \in Nat /\ CeilDiv(c.tp, NodeSize(c)) \in Nat
<1>1. NodeSize(c) \in Nat \ {0} /\ c.tp \in Nat
  BY NodeSizeType, ClusterFields
<1>2. CeilDiv(c.tp, NodeSize(c)) \in Nat
  <2>1. c.tp + NodeSize(c) - 1 \in Nat
    BY <1>1
  <2> QED
    BY <1>1, <2>1, DivHolds DEF CeilDiv
<1> QED
  BY <1>1, <1>2 DEF Least

\* The same of an all-reduce (all_reduce_latency) ...
LEMMA AllReduceBound ==
  ASSUME NEW n \in Nat \ {0}, NEW b \in Nat, NEW x \in Nat, x <= n * b, NEW c \in Clusters
  PROVE  /\ AllReduceLatency(c, b) \in LowestTerms /\ AllReduceLatency(c, x) \in LowestTerms
         /\ AtMost(AllReduceLatency(c, x), Times(Whole(n), AllReduceLatency(c, b)))
<1>0. /\ {c.tp, c.scale_up_bw, c.scale_up_latency, c.scale_out_bw, c.scale_out_latency}
           \subseteq Nat
      /\ Least(NodeSize(c), c.tp) \in Nat /\ CeilDiv(c.tp, NodeSize(c)) \in Nat
  BY ClusterFields, ReduceParts
<1>1. CASE c.tp <= 1 \/ c.scale_up_bw = 0
  <2>1. AllReduceLatency(c, b) = Zero /\ AllReduceLatency(c, x) = Zero
    BY <1>1 DEF AllReduceLatency
  <2> QED
    BY <2>1, BoundZero
<1>2. CASE ~ (c.tp <= 1 \/ c.scale_up_bw = 0) /\ SpansScaleOut(c, c.tp)
  <2> DEFINE Up(y) == RingLatency(Least(NodeSize(c), c.tp), y, c.scale_up_bw, c.scale_up_latency)
             Out(y) == RingLatency(CeilDiv(c.tp, NodeSize(c)), y, c.scale_out_bw,
                                   c.scale_out_latency)
  <2>1. /\ AllReduceLatency(c, b) = Plus(Times(Whole(2), Up(b)), Out(b))
        /\ AllReduceLatency(c, x) = Plus(Times(Whole(2), Up(x)), Out(x))
    BY <1>2 DEF AllReduceLatency, HierarchicalReduce
  <2>2. /\ Up(b) \in LowestTerms /\ Up(x) \in LowestTerms /\ AtMost(Up(x), Times(Whole(n), Up(b)))
        /\ Out(b) \in LowestTerms /\ Out(x) \in LowestTerms
        /\ AtMost(Out(x), Times(Whole(n), Out(b)))
    BY <1>0, RingBound
  <2> HIDE DEF Up, Out
  <2>3. Whole(2) \in LowestTerms
    BY WholeLaws
  <2>4. /\ Times(Whole(2), Up(b)) \in LowestTerms /\ Times(Whole(2), Up(x)) \in LowestTerms
        /\ AtMost(Times(Whole(2), Up(x)), Times(Whole(n), Times(Whole(2), Up(b))))
    BY <2>2, <2>3, BoundTimes
  <2> QED
    BY <2>1, <2>2, <2>4, BoundPlus
<1>3. CASE ~ (c.tp <= 1 \/ c.scale_up_bw = 0) /\ ~ SpansScaleOut(c, c.tp)
  <2>1. /\ AllReduceLatency(c, b) = RingLatency(c.tp, b, c.scale_up_bw, c.scale_up_latency)
        /\ AllReduceLatency(c, x) = RingLatency(c.tp, x, c.scale_up_bw, c.scale_up_latency)
    BY <1>3 DEF AllReduceLatency
  <2> QED
    BY <1>0, <2>1, RingBound
<1> QED
  BY <1>1, <1>2, <1>3

\* How many boundaries of a pipeline cross, and how many do not.
LEMMA Boundaries ==
  ASSUME NEW c \in Clusters, c.pp > 1
  PROVE  /\ CrossBoundaries(c) \in Nat /\ c.pp - 1 \in Nat \ {0}
         /\ CrossBoundaries(c) <= c.pp - 1 /\ c.pp - 1 - CrossBoundaries(c) \in Nat
<1>1. NodeSize(c) \in Nat \ {0} /\ c.pp \in Nat
  BY NodeSizeType, ClusterFields
<1> DEFINE q == CrossBoundaries(c)
           p == c.pp - 1
           k == NodeSize(c)
<1>2. p \in Nat \ {0} /\ k \in Nat \ {0}
  BY <1>1
<1>3. q = p \div k
  BY DEF CrossBoundaries
<1> HIDE DEF q, p, k
<1>4. q \in Nat /\ q * k <= p
  BY <1>2, <1>3, DivHolds
<1>5. q * 1 <= q * k
  BY <1>2, <1>4, ProductGrows
<1>6. q <= p
  BY <1>2, <1>4, <1>5
<1> QED
  BY <1>2, <1>4, <1>6 DEF q, p

\* ... of a hand-over between stages (pp_transfer_latency) ...
LEMMA PpBound ==
  ASSUME NEW n \in Nat \ {0}, NEW b \in Nat, NEW x \in Nat, x <= n * b, NEW c \in Clusters
  PROVE  /\ PpTransferLatency(c, b, TRUE) \in LowestTerms
         /\ PpTransferLatency(c, x, TRUE) \in LowestTerms
         /\ AtMost(PpTransferLatency(c, x, TRUE), Times(Whole(n), PpTransferLatency(c, b, TRUE)))
<1>0. {c.pp, c.scale_up_bw, c.scale_up_latency, c.scale_out_bw, c.scale_out_latency,
       c.internode_bw} \subseteq Nat
  BY ClusterFields
<1>1. CASE c.pp <= 1 \/ (~ SpansScaleOut(c, c.pp) /\ c.scale_up_bw = 0)
  <2>1. PpTransferLatency(c, b, TRUE) = Zero /\ PpTransferLatency(c, x, TRUE) = Zero
    BY <1>1 DEF PpTransferLatency
  <2> QED
    BY <2>1, BoundZero
<1>2. CASE ~ (c.pp <= 1) /\ SpansScaleOut(c, c.pp)
  <2> DEFINE Up(y) == Hop(y, Greatest(c.scale_up_bw, 1), c.scale_up_latency)
             Out(y) == Hop(y, Greatest(c.scale_out_bw, 1), c.scale_out_latency)
             up == Whole(c.pp - 1 - CrossBoundaries(c))
             out == Whole(CrossBoundaries(c))
             all == Whole(c.pp - 1)
  <2>1. /\ PpTransferLatency(c, b, TRUE) = Over(Plus(Times(up, Up(b)), Times(out, Out(b))), all)
        /\ PpTransferLatency(c, x, TRUE) = Over(Plus(Times(up, Up(x)), Times(out, Out(x))), all)
    BY <1>2 DEF PpTransferLatency, MeanBoundary, SpansScaleOut
  <2>2. Greatest(c.scale_up_bw, 1) \in Nat \ {0} /\ Greatest(c.scale_out_bw, 1) \in Nat \ {0}
    BY <1>0 DEF Greatest
  <2>3. /\ Up(b) \in LowestTerms /\ Up(x) \in LowestTerms /\ AtMost(Up(x), Times(Whole(n), Up(b)))
        /\ Out(b) \in LowestTerms /\ Out(x) \in LowestTerms
        /\ AtMost(Out(x), Times(Whole(n), Out(b)))
    BY <1>0, <2>2, HopBound
  <2>4. up \in LowestTerms /\ out \in LowestTerms /\ all \in LowestTerms /\ all # Zero
    <3>1. /\ CrossBoundaries(c) \in Nat /\ c.pp - 1 \in Nat \ {0}
          /\ c.pp - 1 - CrossBoundaries(c) \in Nat
      BY <1>0, <1>2, Boundaries
    <3> QED
      BY <3>1, WholeLaws
  <2> HIDE DEF Up, Out, up, out, all
  <2>5. /\ Times(up, Up(b)) \in LowestTerms /\ Times(up, Up(x)) \in LowestTerms
        /\ AtMost(Times(up, Up(x)), Times(Whole(n), Times(up, Up(b))))
    BY <2>3, <2>4, BoundTimes
  <2>6. /\ Times(out, Out(b)) \in LowestTerms /\ Times(out, Out(x)) \in LowestTerms
        /\ AtMost(Times(out, Out(x)), Times(Whole(n), Times(out, Out(b))))
    BY <2>3, <2>4, BoundTimes
  <2> DEFINE A == Plus(Times(up, Up(b)), Times(out, Out(b)))
             X == Plus(Times(up, Up(x)), Times(out, Out(x)))
  <2>7. A \in LowestTerms /\ X \in LowestTerms /\ AtMost(X, Times(Whole(n), A))
    BY <2>5, <2>6, BoundPlus
  <2> HIDE DEF A, X
  <2>8. Over(A, all) \in LowestTerms /\ Over(X, all) \in LowestTerms
        /\ AtMost(Over(X, all), Times(Whole(n), Over(A, all)))
    BY <2>4, <2>7, BoundOver
  <2> QED
    BY <2>1, <2>8 DEF A, X
<1>3. CASE ~ (c.pp <= 1) /\ ~ SpansScaleOut(c, c.pp) /\ c.scale_up_bw # 0
  <2>1. /\ PpTransferLatency(c, b, TRUE) = Hop(b, c.scale_up_bw, c.scale_up_latency)
        /\ PpTransferLatency(c, x, TRUE) = Hop(x, c.scale_up_bw, c.scale_up_latency)
    BY <1>3 DEF PpTransferLatency
  <2>2. c.scale_up_bw \in Nat \ {0} /\ c.scale_up_latency \in Nat
    BY <1>0, <1>3
  <2>3. /\ Hop(b, c.scale_up_bw, c.scale_up_latency) \in LowestTerms
        /\ Hop(x, c.scale_up_bw, c.scale_up_latency) \in LowestTerms
        /\ AtMost(Hop(x, c.scale_up_bw, c.scale_up_latency),
                  Times(Whole(n), Hop(b, c.scale_up_bw, c.scale_up_latency)))
    BY <2>2, HopBound
  <2> QED
    BY <2>1, <2>3
<1> QED
  BY <1>1, <1>2, <1>3

\* By the bytes to dispatch.
EpByMessage(c, msg_bytes) ==
  IF c.ep <= 1 \/ c.scale_up_bw = 0 THEN Zero
  ELSE IF SpansScaleOut(c, c.ep) THEN SpreadLatency(c, msg_bytes)
  ELSE Hop(msg_bytes * (c.ep - 1), c.ep * c.scale_up_bw, c.scale_up_latency)

\* ... and of an exchange between experts (ep_all_to_all_latency).
LEMMA EpBound ==
  ASSUME NEW n \in Nat \ {0}, NEW b \in Nat, NEW x \in Nat, x <= n * b, NEW c \in Clusters
  PROVE  /\ EpByMessage(c, b) \in LowestTerms /\ EpByMessage(c, x) \in LowestTerms
         /\ AtMost(EpByMessage(c, x), Times(Whole(n), EpByMessage(c, b)))
<1>0. {c.ep, c.scale_up_bw, c.scale_up_latency, c.scale_out_bw, c.scale_out_latency}
         \subseteq Nat
  BY ClusterFields
<1>1. CASE c.ep <= 1 \/ c.scale_up_bw = 0
  <2>1. EpByMessage(c, b) = Zero /\ EpByMessage(c, x) = Zero
    BY <1>1 DEF EpByMessage
  <2> QED
    BY <2>1, BoundZero
<1>2. ASSUME NEW k \in Nat, NEW bw \in Nat \ {0}, NEW latency \in Nat
      PROVE  /\ Hop(b * k, bw, latency) \in LowestTerms /\ Hop(x * k, bw, latency) \in LowestTerms
             /\ AtMost(Hop(x * k, bw, latency), Times(Whole(n), Hop(b * k, bw, latency)))
  <2>1. n * b \in Nat
    BY SMT
  <2>2. x * k <= (n * b) * k
    BY <2>1, ProductGrows
  <2>3. (n * b) * k = n * (b * k) /\ b * k \in Nat /\ x * k \in Nat
    BY SMT
  <2>4. x * k <= n * (b * k)
    BY <2>2, <2>3
  <2> QED
    BY <2>3, <2>4, HopBound
<1>3. CASE ~ (c.ep <= 1 \/ c.scale_up_bw = 0) /\ SpansScaleOut(c, c.ep)
  <2> DEFINE l == Least(NodeSize(c), c.ep)
             Up(y) == Hop(y * (l - 1), c.ep * c.scale_up_bw, c.scale_up_latency)
             Out(y) == Hop(y * (c.ep - l), c.ep * c.scale_out_bw, c.scale_out_latency)
  <2>1. EpByMessage(c, b) = Plus(Up(b), Out(b)) /\ EpByMessage(c, x) = Plus(Up(x), Out(x))
    BY <1>3 DEF EpByMessage, SpreadLatency
  <2>2. l - 1 \in Nat /\ c.ep - l \in Nat
    BY <1>0, <1>3, NodeSizeType DEF Least
  <2>3. c.ep * c.scale_up_bw \in Nat \ {0} /\ c.ep * c.scale_out_bw \in Nat \ {0}
    <3>1. c.ep \in Nat \ {0} /\ c.scale_up_bw \in Nat \ {0} /\ c.scale_out_bw \in Nat \ {0}
      BY <1>0, <1>3 DEF SpansScaleOut
    <3> QED
      BY <3>1, SMT
  <2>4. /\ Up(b) \in LowestTerms /\ Up(x) \in LowestTerms /\ AtMost(Up(x), Times(Whole(n), Up(b)))
        /\ Out(b) \in LowestTerms /\ Out(x) \in LowestTerms
        /\ AtMost(Out(x), Times(Whole(n), Out(b)))
    <3> HIDE DEF l
    <3> QED
      BY <1>0, <1>2, <2>2, <2>3
  <2> HIDE DEF Up, Out
  <2> QED
    BY <2>1, <2>4, BoundPlus
<1>4. CASE ~ (c.ep <= 1 \/ c.scale_up_bw = 0) /\ ~ SpansScaleOut(c, c.ep)
  <2>1. \A y : EpByMessage(c, y) = Hop(y * (c.ep - 1), c.ep * c.scale_up_bw, c.scale_up_latency)
    BY <1>4 DEF EpByMessage
  <2>2. c.ep - 1 \in Nat /\ c.ep \in Nat \ {0} /\ c.scale_up_bw \in Nat \ {0}
    BY <1>0, <1>4
  <2>3. c.ep * c.scale_up_bw \in Nat \ {0}
    BY <2>2, SMT
  <2> QED
    BY <1>0, <1>2, <2>1, <2>2, <2>3
<1> QED
  BY <1>1, <1>3, <1>4

-----------------------------------------------------------------------------
(* Sizes *)

\* The types of the fields of a model ...
LEMMA ModelFields ==
  ASSUME NEW m \in LlmConfigs
  PROVE  /\ {m.d_model, m.n_kv_heads, m.head_dim, m.ffn_hidden, m.activation_bits, m.kv_bits,
             m.weight_bytes, m.active_weight_bytes, m.n_experts, m.n_active_experts,
             m.n_shared_experts, m.n_moe_layers, m.expert_hidden, m.kv_lora_rank} \subseteq Nat
         /\ m.n_layers \in Nat \ {0} /\ m.weight_bits \in {4, 8, 16}
         /\ m.weight_sparsity \in LowestTerms /\ m.n_moe_layers <= m.n_layers
BY DEF LlmConfigs

\* ... and of a GPU.
LEMMA GpuFields ==
  ASSUME NEW gpu \in GpuSpecs
  PROVE  /\ {gpu.flops_fp8, gpu.flops_fp4, gpu.memory_capacity, gpu.on_chip_sram,
             gpu.scale_up_bandwidth, gpu.scale_up_latency} \subseteq Nat
         /\ gpu.flops_bf16 \in Nat \ {0} /\ gpu.memory_bandwidth \in Nat \ {0}
         /\ gpu.mfu_prefill \in LowestTerms \ {Zero} /\ gpu.mfu_decode \in LowestTerms \ {Zero}
BY DEF GpuSpecs

\* What an entry of the KV cache, an activation and a parameter take.
LEMMA WidthTypes ==
  ASSUME NEW m \in LlmConfigs
  PROVE  /\ EffectiveKvBits(m) \in Nat \ {0} /\ EffectiveActivationBits(m) \in Nat \ {0}
         /\ ActivationBytes(m) \in Nat \ {0} /\ KvEntries(m) \in Nat
         /\ WeightBytesPerParam(m) \in LowestTerms /\ WeightBytesPerParam(m) # Zero
<1>1. m.kv_bits \in Nat /\ m.activation_bits \in Nat /\ m.weight_bits \in Nat \ {0}
  BY ModelFields
<1>2. EffectiveKvBits(m) \in Nat \ {0} /\ EffectiveActivationBits(m) \in Nat \ {0}
  BY <1>1 DEF EffectiveKvBits, EffectiveActivationBits
<1>3. ActivationBytes(m) \in Nat \ {0}
  <2>1. EffectiveActivationBits(m) + 8 - 1 \in Nat
    BY <1>2
  <2>2. CeilDiv(EffectiveActivationBits(m), 8) \in Nat
    BY <2>1, DivHolds DEF CeilDiv
  <2> QED
    BY <2>2 DEF ActivationBytes, Greatest
<1>4. KvEntries(m) \in Nat
  <2> DEFINE l == m.n_layers
             r == m.kv_lora_rank
             h == m.n_kv_heads
             d == m.head_dim
  <2>1. l \in Nat /\ r \in Nat /\ h \in Nat /\ d \in Nat
    BY ModelFields
  <2>2. KvEntries(m) = IF r > 0 THEN l * r ELSE 2 * l * h * d
    BY DEF KvEntries
  <2> HIDE DEF l, r, h, d
  <2>3. l * r \in Nat /\ 2 * l * h * d \in Nat
    <3>1. 2 * l \in Nat /\ l * r \in Nat
      BY <2>1, SMT
    <3>2. 2 * l * h \in Nat
      BY <2>1, <3>1, SMT
    <3> QED
      BY <2>1, <3>1, <3>2, SMT
  <2> QED
    BY <2>2, <2>3
<1>5. WeightBytesPerParam(m) \in LowestTerms /\ WeightBytesPerParam(m) # Zero
  <2>1. WeightBytesPerParam(m) \in LowestTerms
    BY <1>1, FracType DEF WeightBytesPerParam
  <2>2. Frac(0, 1) = Zero
    BY FracLaws
  <2>3. Frac(m.weight_bits, 8) # Frac(0, 1)
    <3>1. m.weight_bits * 1 # 0 * 8
      BY <1>1
    <3> QED
      BY <1>1, <3>1, FracSame
  <2> QED
    BY <2>1, <2>2, <2>3 DEF WeightBytesPerParam
<1> QED
  BY <1>2, <1>3, <1>4, <1>5

\* The KV cache grows with the context.
LEMMA KvBytesGrows ==
  ASSUME NEW m \in LlmConfigs, NEW x \in Nat, NEW y \in Nat, x <= y
  PROVE  KvBytes(m, x) \in Nat /\ KvBytes(m, y) \in Nat /\ KvBytes(m, x) <= KvBytes(m, y)
<1> DEFINE e == KvEntries(m)
           b == EffectiveKvBits(m)
<1>1. e \in Nat /\ b \in Nat
  BY WidthTypes
<1>2. KvBytes(m, x) = (e * x * b) \div 8 /\ KvBytes(m, y) = (e * y * b) \div 8
  BY DEF KvBytes
<1> HIDE DEF e, b
<1>3. x * e <= y * e
  BY <1>1, ProductGrows
<1>4. e * x \in Nat /\ e * y \in Nat /\ e * x <= e * y
  BY <1>1, <1>3, SMT
<1>5. (e * x) * b <= (e * y) * b
  BY <1>1, <1>4, ProductGrows
<1>6. (e * x) * b \in Nat /\ (e * y) * b \in Nat
  BY <1>1, <1>4, SMT
<1> QED
  BY <1>2, <1>5, <1>6, DivGrows

\* Rounded down, a fraction is a number.
LEMMA FloorType ==
  ASSUME NEW a \in LowestTerms
  PROVE  Floor(a) \in Nat
<1>1. a.num \in Nat /\ a.den \in Nat \ {0}
  BY FractionType
<1> QED
  BY <1>1, DivHolds DEF Floor

\* Rounding down keeps the order.
LEMMA FloorGrows ==
  ASSUME NEW a \in LowestTerms, NEW b \in LowestTerms, AtMost(a, b)
  PROVE  Floor(a) \in Nat /\ Floor(b) \in Nat /\ Floor(a) <= Floor(b)
<1>1. /\ a.num \in Nat /\ a.den \in Nat \ {0} /\ b.num \in Nat /\ b.den \in Nat \ {0}
  BY FractionType
<1> DEFINE n == a.num
           d == a.den
           m == b.num
           e == b.den
           q == n \div d
<1>2. n * e <= m * d
  BY DEF AtMost
<1>3. Floor(a) = q /\ Floor(b) = m \div e
  BY DEF Floor
<1>4. n \in Nat /\ d \in Nat \ {0} /\ m \in Nat /\ e \in Nat \ {0}
  BY <1>1
<1> HIDE DEF n, d, m, e
<1>5. q \in Nat /\ q * d <= n
  BY <1>4, DivHolds
<1> HIDE DEF q
<1>6. (q * d) * e <= n * e
  BY <1>4, <1>5, ProductGrows
<1>7. (q * e) * d <= m * d
  <2>1. /\ (q * d) * e = (q * e) * d /\ (q * e) * d \in Nat /\ n * e \in Nat /\ m * d \in Nat
    BY <1>4, <1>5, SMT
  <2> QED
    BY <1>2, <1>6, <2>1
<1>8. q * e <= m
  <2>1. SUFFICES ASSUME m + 1 <= q * e PROVE FALSE
    BY <1>4, <1>5, SMT
  <2>2. q * e \in Nat
    BY <1>4, <1>5, SMT
  <2>3. (m + 1) * d <= (q * e) * d
    BY <1>4, <2>1, <2>2, ProductGrows
  <2>4. (m + 1) * d = m * d + d /\ m * d \in Nat
    BY <1>4, SMT
  <2>5. (q * e) * d \in Nat
    BY <1>4, <2>2, SMT
  <2> QED
    BY <1>4, <1>7, <2>3, <2>4, <2>5
<1>9. q <= m \div e /\ m \div e \in Nat
  BY <1>4, <1>5, <1>8, DivHolds
<1> QED
  BY <1>3, <1>5, <1>9

\* A number of bytes times a fraction, and over one, rounded down.
LEMMA ActiveFractionType ==
  ASSUME NEW m \in LlmConfigs
  PROVE  ActiveParamFraction(m) \in LowestTerms
<1>1. /\ {m.weight_bytes, m.active_weight_bytes, m.n_experts, m.n_active_experts,
          m.n_shared_experts, m.n_moe_layers} \subseteq Nat
      /\ m.n_layers \in Nat \ {0} /\ m.n_moe_layers <= m.n_layers
  BY ModelFields
<1>2. CASE ~IsMoe(m)
  BY <1>2, WholeLaws DEF ActiveParamFraction
<1>3. CASE IsMoe(m) /\ m.active_weight_bytes > 0 /\ m.weight_bytes > 0
  <2>1. m.active_weight_bytes \in Nat /\ m.weight_bytes \in Nat \ {0}
    BY <1>1, <1>3
  <2>2. ActiveParamFraction(m) = Frac(m.active_weight_bytes, m.weight_bytes)
    BY <1>3 DEF ActiveParamFraction
  <2> QED
    BY <2>1, <2>2, FracType
<1>4. CASE IsMoe(m) /\ ~ (m.active_weight_bytes > 0 /\ m.weight_bytes > 0)
  <2> DEFINE expert_ratio == Frac(m.n_active_experts + m.n_shared_experts,
                                  m.n_experts + m.n_shared_experts)
             moe_frac == Frac(m.n_moe_layers, m.n_layers)
             dense_frac == Minus(Whole(1), moe_frac)
  <2>1. ActiveParamFraction(m)
          = Plus(Frac(1, 3), Times(Frac(2, 3), Plus(dense_frac, Times(moe_frac, expert_ratio))))
    BY <1>4 DEF ActiveParamFraction
  <2>2. expert_ratio \in LowestTerms
    <3>1. /\ m.n_active_experts + m.n_shared_experts \in Nat
          /\ m.n_experts + m.n_shared_experts \in Nat \ {0}
      BY <1>1, <1>4 DEF IsMoe
    <3> QED
      BY <3>1, FracType
  <2>3. moe_frac \in LowestTerms
    BY <1>1, FracType
  <2>4. dense_frac \in LowestTerms
    <3>1. Whole(1) = Frac(1, 1)
      BY WholeIsFrac
    <3>2. m.n_moe_layers * 1 <= 1 * m.n_layers
      BY <1>1
    <3>3. m.n_moe_layers \in Nat /\ m.n_layers \in Nat \ {0}
      BY <1>1
    <3>4. dense_frac = Frac(1 * m.n_layers - m.n_moe_layers * 1, 1 * m.n_layers)
      BY <3>1, <3>2, <3>3, FracMinus
    <3>5. 1 * m.n_layers - m.n_moe_layers * 1 \in Nat /\ 1 * m.n_layers \in Nat \ {0}
      BY <3>2, <3>3
    <3> QED
      BY <3>4, <3>5, FracType
  <2>5. Frac(1, 3) \in LowestTerms /\ Frac(2, 3) \in LowestTerms
    BY FracType
  <2> HIDE DEF expert_ratio, moe_frac, dense_frac
  <2>6. Times(moe_frac, expert_ratio) \in LowestTerms
    BY <2>2, <2>3, TimesLaws
  <2>7. Plus(dense_frac, Times(moe_frac, expert_ratio)) \in LowestTerms
    BY <2>4, <2>6, PlusLaws
  <2>8. Times(Frac(2, 3), Plus(dense_frac, Times(moe_frac, expert_ratio))) \in LowestTerms
    BY <2>5, <2>7, TimesLaws
  <2> QED
    BY <2>1, <2>5, <2>8, PlusLaws
<1> QED
  BY <1>2, <1>3, <1>4

\* The bytes of the weights that a token passes ...
LEMMA ActiveBytesType ==
  ASSUME NEW m \in LlmConfigs
  PROVE  WeightBytesActive(m) \in Nat
<1>1. m.active_weight_bytes \in Nat /\ m.weight_bytes \in Nat
  BY ModelFields
<1>2. Whole(m.weight_bytes) \in LowestTerms /\ ActiveParamFraction(m) \in LowestTerms
  BY <1>1, WholeLaws, ActiveFractionType
<1>3. Times(Whole(m.weight_bytes), ActiveParamFraction(m)) \in LowestTerms
  BY <1>2, TimesLaws
<1>4. Floor(Times(Whole(m.weight_bytes), ActiveParamFraction(m))) \in Nat
  BY <1>3, FloorType
<1> QED
  BY <1>1, <1>4 DEF WeightBytesActive

\* Experts times parameters of an expert: two projections each, so the bytes are
\* whole whatever the width.
ExpertPairs(m) ==
  IF ~IsMoe(m) \/ m.n_moe_layers = 0 THEN 0
  ELSE m.n_moe_layers * (m.n_active_experts + m.n_shared_experts) * m.d_model
         * (IF m.expert_hidden > 0 THEN m.expert_hidden ELSE m.ffn_hidden)

\* ... and those of the experts among them, which need no rounding.
LEMMA ExpertBytes ==
  ASSUME NEW m \in LlmConfigs
  PROVE  /\ ExpertPairs(m) \in Nat /\ ExpertWeightBytesActive(m) \in Nat
         /\ ExpertWeightBytesActive(m) * 4 = ExpertPairs(m) * m.weight_bits
<1>1. /\ {m.d_model, m.ffn_hidden, m.n_active_experts, m.n_shared_experts, m.n_moe_layers,
          m.expert_hidden} \subseteq Nat
      /\ m.weight_bits \in {4, 8, 16}
  BY ModelFields
<1>2. CASE ~IsMoe(m) \/ m.n_moe_layers = 0
  BY <1>1, <1>2 DEF ExpertPairs, ExpertWeightBytesActive
<1>3. CASE ~ (~IsMoe(m) \/ m.n_moe_layers = 0)
  <2> DEFINE hidden == IF m.expert_hidden > 0 THEN m.expert_hidden ELSE m.ffn_hidden
             experts == m.n_moe_layers * (m.n_active_experts + m.n_shared_experts)
             d == m.d_model
             w == m.weight_bits
             p == experts * d * hidden
  <2>1. /\ ExpertWeightBytesActive(m)
             = Floor(Times(Whole(experts * 2 * d * hidden), Frac(w, 8)))
        /\ ExpertPairs(m) = p
    BY <1>3 DEF ExpertWeightBytesActive, ExpertPairs, WeightBytesPerParam
  <2>2. hidden \in Nat /\ experts \in Nat /\ d \in Nat /\ w \in {4, 8, 16}
    <3>1. m.n_active_experts + m.n_shared_experts \in Nat /\ m.n_moe_layers \in Nat
      BY <1>1
    <3>2. experts \in Nat
      BY <3>1, SMT
    <3> QED
      BY <1>1, <3>2
  <2> HIDE DEF hidden, experts, d, w
  <2>3. p \in Nat /\ experts * 2 * d * hidden = 2 * p
    <3>1. experts * d \in Nat
      BY <2>2, SMT
    <3>2. (experts * d) * hidden \in Nat
      BY <2>2, <3>1, SMT
    <3>3. experts * 2 * d * hidden = 2 * ((experts * d) * hidden)
      BY <2>2, SMT
    <3> QED
      BY <3>2, <3>3
  <2> HIDE DEF p
  <2>4. 2 * p \in Nat /\ (2 * p) * w \in Nat
    BY <2>2, <2>3
  <2>5. Times(Whole(2 * p), Frac(w, 8)) = Frac((2 * p) * w, 8)
    <3>1. w \in Nat /\ 8 \in Nat \ {0} /\ 2 * p \in Nat
      BY <2>2, <2>4
    <3> DEFINE y == 2 * p
    <3>2. y \in Nat
      BY <3>1
    <3> HIDE DEF y
    <3>3. Times(Whole(y), Frac(w, 8)) = Frac(y * w, 8)
      BY <3>1, <3>2, FracLaws
    <3> QED
      BY <3>3 DEF y
  <2>6. Floor(Frac((2 * p) * w, 8)) = ((2 * p) * w) \div 8
    BY <2>4, RoundedFrac
  <2>7. ((2 * p) * w) \div 8 \in Nat /\ (((2 * p) * w) \div 8) * 4 = p * w
    <3>1. CASE w = 4
      BY <2>3, <3>1
    <3>2. CASE w = 8
      BY <2>3, <3>2
    <3>3. CASE w = 16
      BY <2>3, <3>3
    <3> QED
      BY <2>2, <3>1, <3>2, <3>3
  <2> QED
    BY <2>1, <2>3, <2>5, <2>6, <2>7 DEF w
<1> QED
  BY <1>2, <1>3

-----------------------------------------------------------------------------
(* Sparsity *)

\* A sparsity divides by at least 1.
LEMMA SparsityType ==
  ASSUME NEW m \in LlmConfigs, NEW gpu
  PROVE  /\ EffectiveSparsity(gpu, m) \in LowestTerms /\ EffectiveSparsity(gpu, m) # Zero
         /\ AtMost(Whole(1), EffectiveSparsity(gpu, m))
<1> DEFINE s == EffectiveSparsity(gpu, m)
<1>1. m.weight_sparsity \in LowestTerms /\ Whole(1) \in LowestTerms
  BY ModelFields, WholeLaws
<1>2. s \in LowestTerms /\ AtMost(Whole(1), s)
  BY <1>1, OrderLaws DEF EffectiveSparsity
<1>3. ~ AtMost(Whole(1), Zero)
  BY DEF AtMost, Whole, Zero
<1> QED
  BY <1>2, <1>3

\* Sparsity of at least one leaves at most the bytes there are, and no fewer of
\* more bytes.
LEMMA SparseBytes ==
  ASSUME NEW s \in LowestTerms, s # Zero, NEW x \in Nat, NEW y \in Nat, x <= y
  PROVE  /\ Floor(Over(Whole(x), s)) \in Nat /\ Floor(Over(Whole(y), s)) \in Nat
         /\ Floor(Over(Whole(x), s)) <= Floor(Over(Whole(y), s))
<1>1. Whole(x) \in LowestTerms /\ Whole(y) \in LowestTerms /\ AtMost(Whole(x), Whole(y))
  BY WholeLaws
<1>2. /\ Over(Whole(x), s) \in LowestTerms /\ AtMost(Over(Whole(x), s), Over(Whole(y), s))
  BY <1>1, OverGrows
<1>3. Over(Whole(y), s) \in LowestTerms
  <2>1. AtMost(Whole(y), Whole(y))
    BY <1>1, OrderLaws
  <2> QED
    BY <1>1, <2>1, OverGrows
<1> QED
  BY <1>2, <1>3, FloorGrows

\* The bytes that it leaves of the weights.
LEMMA SparseTypes ==
  ASSUME NEW m \in LlmConfigs, NEW gpu
  PROVE  /\ EffectiveWeightBytesActive(gpu, m) \in Nat
         /\ EffectiveExpertWeightBytesActive(gpu, m) \in Nat
<1> DEFINE s == EffectiveSparsity(gpu, m)
<1>1. s \in LowestTerms /\ s # Zero
  BY SparsityType
<1>2. WeightBytesActive(m) \in Nat /\ ExpertWeightBytesActive(m) \in Nat
  BY ActiveBytesType, ExpertBytes
<1>3. /\ EffectiveWeightBytesActive(gpu, m) = Floor(Over(Whole(WeightBytesActive(m)), s))
      /\ EffectiveExpertWeightBytesActive(gpu, m)
           = Floor(Over(Whole(ExpertWeightBytesActive(m)), s))
  BY DEF EffectiveWeightBytesActive, EffectiveExpertWeightBytesActive
<1> HIDE DEF s
<1>4. \A x \in Nat : Floor(Over(Whole(x), s)) \in Nat
  BY <1>1, SparseBytes
<1> QED
  BY <1>2, <1>3, <1>4

\* The bytes a GPU reads of the weights.
LEMMA ChipBytesType ==
  ASSUME NEW m \in LlmConfigs, NEW gpu, NEW tp \in Nat \ {0}, NEW ep \in Nat
  PROVE  WeightBytesPerChip(gpu, m, tp, ep) \in Nat
<1> DEFINE e == EffectiveExpertWeightBytesActive(gpu, m)
           w == EffectiveWeightBytesActive(gpu, m)
<1>1. e \in Nat /\ w \in Nat
  BY SparseTypes
<1>2. WeightBytesPerChip(gpu, m, tp, ep)
        = IF ShardsExperts(m, ep) THEN SatSub(w, e) \div tp + e \div ep ELSE w \div tp
  BY DEF WeightBytesPerChip
<1> HIDE DEF e, w
<1>3. SatSub(w, e) \in Nat
  BY <1>1 DEF SatSub
<1>4. SatSub(w, e) \div tp \in Nat /\ w \div tp \in Nat
  BY <1>1, <1>3, DivHolds
<1>5. ShardsExperts(m, ep) => e \div ep \in Nat
  <2>1. ShardsExperts(m, ep) => ep \in Nat \ {0}
    BY DEF ShardsExperts
  <2> QED
    BY <1>1, <2>1, DivHolds
<1> QED
  BY <1>2, <1>4, <1>5

-----------------------------------------------------------------------------
(* The KV cache of a batch *)

\* More KV is no fewer bytes, whether or not either fits on the chip.
LEMMA KvEffectiveGrows ==
  ASSUME NEW gpu \in GpuSpecs, NEW x \in Nat, NEW y \in Nat, x <= y,
         NEW tp \in Nat \ {0}, NEW pp \in Nat \ {0}
  PROVE  /\ KvEffectiveBytes(gpu, x, tp, pp) \in Nat /\ KvEffectiveBytes(gpu, y, tp, pp) \in Nat
         /\ KvEffectiveBytes(gpu, x, tp, pp) <= KvEffectiveBytes(gpu, y, tp, pp)
<1> DEFINE sram == gpu.on_chip_sram
           k == tp * pp
           a == x \div tp
           b == y \div tp
<1>1. sram \in Nat
  BY GpuFields
<1>2. k \in Nat \ {0}
  BY SMT
<1>3. /\ KvEffectiveBytes(gpu, x, tp, pp)
           = IF sram > 0 /\ x \div k <= sram THEN a \div 10 ELSE a
      /\ KvEffectiveBytes(gpu, y, tp, pp)
           = IF sram > 0 /\ y \div k <= sram THEN b \div 10 ELSE b
  BY DEF KvEffectiveBytes
<1> HIDE DEF k, sram
<1>4. x \div k \in Nat /\ y \div k \in Nat /\ x \div k <= y \div k
  BY <1>2, DivGrows
<1>5. a \in Nat /\ b \in Nat /\ a <= b
  BY DivGrows
<1> HIDE DEF a, b
<1>6. a \div 10 \in Nat /\ b \div 10 \in Nat /\ a \div 10 <= b \div 10 /\ a \div 10 <= a
  BY <1>5
<1> QED
  BY <1>1, <1>3, <1>4, <1>5, <1>6

-----------------------------------------------------------------------------
(* Rooflines *)

\* A rate at some utilisation is positive.
LEMMA RateType ==
  ASSUME NEW n \in Nat \ {0}, NEW f \in LowestTerms, f # Zero
  PROVE  Times(Whole(n), f) \in LowestTerms /\ Times(Whole(n), f) # Zero
<1>1. Whole(n) \in LowestTerms /\ Whole(n) # Zero
  BY WholeLaws
<1>2. Times(Whole(n), f) \in LowestTerms
  BY <1>1, TimesLaws
<1>3. PICK p \in Nat, q \in Nat \ {0} : f = Frac(p, q)
  BY AsFrac
<1>4. p # 0
  BY <1>3, FracLaws
<1>5. Times(Whole(n), f) = Frac(n * p, q) /\ n * p \in Nat
  BY <1>3, FracLaws, SMT
<1>6. Frac(n * p, q) # Frac(0, q)
  <2>1. n * p # 0
    BY <1>4, SMT
  <2>2. (n * p) * q # 0 * q
    <3> DEFINE r == n * p
    <3>1. r \in Nat /\ r # 0
      BY <1>5, <2>1
    <3> HIDE DEF r
    <3>2. r * q # 0 /\ 0 * q = 0
      BY <3>1, SMT
    <3> QED
      BY <3>2 DEF r
  <2> QED
    BY <1>5, <2>2, FracSame
<1>7. Frac(0, q) = Zero
  BY FracLaws
<1> QED
  BY <1>2, <1>5, <1>6, <1>7

\* Memory rate of a GPU.
DecodeRate(gpu) == Times(Whole(gpu.memory_bandwidth), gpu.mfu_decode)

\* The bytes a GPU reads in a unit of time.
LEMMA DecodeRateType ==
  ASSUME NEW gpu \in GpuSpecs
  PROVE  DecodeRate(gpu) \in LowestTerms /\ DecodeRate(gpu) # Zero
<1>1. /\ gpu.memory_bandwidth \in Nat \ {0}
      /\ gpu.mfu_decode \in LowestTerms /\ gpu.mfu_decode # Zero
  BY GpuFields
<1> QED
  BY <1>1, RateType DEF DecodeRate

\* The work of a step is the time for a whole number of bytes (roofline_decode).
LEMMA RooflineBytes ==
  ASSUME NEW gpu \in GpuSpecs, NEW m \in LlmConfigs, NEW batch \in Nat, NEW avg_kv_len \in Nat,
         NEW tp \in Nat \ {0}, NEW pp \in Nat \ {0}, NEW ep \in Nat
  PROVE  LET bytes == WeightBytesPerChip(gpu, m, tp, ep)
                        + KvEffectiveBytes(gpu, KvBytes(m, avg_kv_len) * batch, tp, pp)
         IN  /\ bytes \in Nat
             /\ RooflineDecode(gpu, batch, avg_kv_len, m, tp, pp, ep)
                  = Over(Whole(bytes), DecodeRate(gpu))
             /\ RooflineDecode(gpu, batch, avg_kv_len, m, tp, pp, ep) \in LowestTerms
<1> DEFINE bytes == WeightBytesPerChip(gpu, m, tp, ep)
                      + KvEffectiveBytes(gpu, KvBytes(m, avg_kv_len) * batch, tp, pp)
<1>1. bytes \in Nat
  <2>1. WeightBytesPerChip(gpu, m, tp, ep) \in Nat
    BY ChipBytesType
  <2>2. KvBytes(m, avg_kv_len) \in Nat
    BY KvBytesGrows
  <2>3. KvBytes(m, avg_kv_len) * batch \in Nat
    BY <2>2, SMT
  <2>4. KvEffectiveBytes(gpu, KvBytes(m, avg_kv_len) * batch, tp, pp) \in Nat
    BY <2>3, KvEffectiveGrows
  <2> QED
    BY <2>1, <2>4
<1>2. RooflineDecode(gpu, batch, avg_kv_len, m, tp, pp, ep) = Over(Whole(bytes), DecodeRate(gpu))
  BY DEF RooflineDecode, DecodeRate
<1> HIDE DEF bytes
<1>3. Over(Whole(bytes), DecodeRate(gpu)) \in LowestTerms
  <2>1. Whole(bytes) \in LowestTerms /\ AtMost(Whole(bytes), Whole(bytes))
    BY <1>1, WholeLaws, OrderLaws
  <2> QED
    BY <2>1, DecodeRateType, OverGrows
<1> QED
  BY <1>1, <1>2, <1>3 DEF bytes

\* Longer contexts take no less time to read.
LEMMA RooflineGrows ==
  ASSUME NEW gpu \in GpuSpecs, NEW m \in LlmConfigs, NEW batch \in Nat,
         NEW x \in Nat, NEW y \in Nat, x <= y,
         NEW tp \in Nat \ {0}, NEW pp \in Nat \ {0}, NEW ep \in Nat
  PROVE  AtMost(RooflineDecode(gpu, batch, x, m, tp, pp, ep),
                RooflineDecode(gpu, batch, y, m, tp, pp, ep))
<1> DEFINE w == WeightBytesPerChip(gpu, m, tp, ep)
           p == KvBytes(m, x)
           q == KvBytes(m, y)
           a == KvEffectiveBytes(gpu, p * batch, tp, pp)
           b == KvEffectiveBytes(gpu, q * batch, tp, pp)
<1>1. p \in Nat /\ q \in Nat /\ p <= q
  BY KvBytesGrows
<1>2. p * batch \in Nat /\ q * batch \in Nat /\ p * batch <= q * batch
  BY <1>1, ProductGrows, SMT
<1>3. a \in Nat /\ b \in Nat /\ a <= b
  BY <1>2, KvEffectiveGrows
<1>4. w \in Nat
  BY ChipBytesType
<1>5. /\ RooflineDecode(gpu, batch, x, m, tp, pp, ep) = Over(Whole(w + a), DecodeRate(gpu))
      /\ RooflineDecode(gpu, batch, y, m, tp, pp, ep) = Over(Whole(w + b), DecodeRate(gpu))
  BY RooflineBytes
<1> HIDE DEF w, a, b
<1>6. /\ Whole(w + a) \in LowestTerms /\ Whole(w + b) \in LowestTerms
      /\ AtMost(Whole(w + a), Whole(w + b))
  <2>1. w + a \in Nat /\ w + b \in Nat /\ w + a <= w + b
    BY <1>3, <1>4
  <2> QED
    BY <2>1, WholeLaws
<1>7. DecodeRate(gpu) \in LowestTerms /\ DecodeRate(gpu) # Zero
  BY DecodeRateType
<1> QED
  BY <1>5, <1>6, <1>7, OverGrows

-----------------------------------------------------------------------------
(* Collectives and pipelines *)

TopK(m) == Greatest(m.n_active_experts + m.n_shared_experts, 1)

\* The tokens of so many that a GPU sends away.
Share(c, tokens) == Greatest(tokens \div c.ep, 1)

\* They are a number.
LEMMA ShareType ==
  ASSUME NEW c \in Clusters, c.ep > 1, NEW x \in Nat
  PROVE  Share(c, x) \in Nat
<1>1. c.ep \in Nat \ {0}
  BY ClusterFields
<1>2. x \div c.ep \in Nat
  BY <1>1, DivHolds
<1> QED
  BY <1>2 DEF Share, Greatest

\* Products grow with their parts.
LEMMA ProductBound ==
  ASSUME NEW n \in Nat, NEW p \in Nat, NEW q \in Nat, p <= n * q, NEW d \in Nat,
         NEW v \in Nat, NEW w \in Nat, v <= w
  PROVE  p * d * v \in Nat /\ q * d * w \in Nat /\ p * d * v <= n * (q * d * w)
<1>1. n * q \in Nat /\ p * d \in Nat /\ q * d \in Nat
  BY SMT
<1>2. p * d <= (n * q) * d
  BY <1>1, ProductGrows
<1>3. (n * q) * d = n * (q * d) /\ n * (q * d) \in Nat
  BY <1>1, SMT
<1>4. (p * d) * v <= (n * (q * d)) * v
  BY <1>1, <1>2, <1>3, ProductGrows
<1>5. v * (n * (q * d)) <= w * (n * (q * d))
  BY <1>3, ProductGrows
<1>6. /\ (p * d) * v \in Nat /\ (q * d) * w \in Nat /\ (n * (q * d)) * v \in Nat
      /\ v * (n * (q * d)) = (n * (q * d)) * v /\ w * (n * (q * d)) \in Nat
      /\ w * (n * (q * d)) = n * ((q * d) * w)
  <2> DEFINE u == q * d
             z == n * u
  <2>1. u \in Nat /\ z \in Nat
    BY <1>1, <1>3
  <2>2. w * z = n * (u * w)
    <3> HIDE DEF u
    <3> QED
      BY <2>1, SMT
  <2> HIDE DEF u, z
  <2>3. u * w \in Nat /\ z * v \in Nat /\ v * z = z * v /\ w * z \in Nat
    BY <2>1, SMT
  <2>4. (p * d) * v \in Nat
    BY <1>1, SMT
  <2> QED
    BY <2>2, <2>3, <2>4 DEF u, z
<1> QED
  BY <1>4, <1>5, <1>6

\* The bytes of an exchange, for at most n times the tokens sent away ...
LEMMA DispatchBound ==
  ASSUME NEW n \in Nat, NEW c \in Clusters, c.ep > 1, NEW x \in Nat, NEW y \in Nat,
         NEW d \in Nat, NEW v \in Nat, NEW w \in Nat, v <= w,
         Share(c, x) <= n * Share(c, y)
  PROVE  /\ DispatchBytes(c, x, d, v) \in Nat /\ DispatchBytes(c, y, d, w) \in Nat
         /\ DispatchBytes(c, x, d, v) <= n * DispatchBytes(c, y, d, w)
<1> DEFINE p == Share(c, x)
           q == Share(c, y)
<1>1. p \in Nat /\ q \in Nat /\ p <= n * q
  BY ShareType
<1>2. DispatchBytes(c, x, d, v) = p * d * v /\ DispatchBytes(c, y, d, w) = q * d * w
  BY DEF DispatchBytes, Share
<1> HIDE DEF p, q
<1> QED
  BY <1>1, <1>2, ProductBound

\* ... and the time it takes.
LEMMA ExchangeBound ==
  ASSUME NEW n \in Nat \ {0}, NEW c \in Clusters, NEW x \in Nat, NEW y \in Nat,
         NEW d \in Nat, NEW a \in Nat, NEW b \in Nat, a <= b,
         c.ep > 1 => Share(c, x) <= n * Share(c, y)
  PROVE  /\ EpAllToAllLatency(c, x, d, a) \in LowestTerms
         /\ EpAllToAllLatency(c, y, d, b) \in LowestTerms
         /\ AtMost(EpAllToAllLatency(c, x, d, a), Times(Whole(n), EpAllToAllLatency(c, y, d, b)))
<1>1. CASE c.ep > 1
  <2> DEFINE p == DispatchBytes(c, x, d, a)
             q == DispatchBytes(c, y, d, b)
  <2>1. p \in Nat /\ q \in Nat
    BY <1>1, DispatchBound
  <2>2. p <= n * q
    BY <1>1, DispatchBound
  <2>3. /\ EpAllToAllLatency(c, x, d, a) = EpByMessage(c, p)
        /\ EpAllToAllLatency(c, y, d, b) = EpByMessage(c, q)
    BY DEF EpAllToAllLatency, EpByMessage
  <2> HIDE DEF p, q
  <2>4. /\ EpByMessage(c, q) \in LowestTerms /\ EpByMessage(c, p) \in LowestTerms
        /\ AtMost(EpByMessage(c, p), Times(Whole(n), EpByMessage(c, q)))
    BY <2>1, <2>2, EpBound
  <2> QED
    BY <2>3, <2>4
<1>2. CASE ~ (c.ep > 1)
  <2>1. c.ep <= 1
    BY <1>2, ClusterFields
  <2>2. EpAllToAllLatency(c, x, d, a) = Zero /\ EpAllToAllLatency(c, y, d, b) = Zero
    BY <2>1 DEF EpAllToAllLatency
  <2> QED
    BY <2>2, BoundZero
<1> QED
  BY <1>1, <1>2

\* Models that run as many collectives, of as many experts.
Alike(k, m) ==
  /\ k.n_layers = m.n_layers /\ k.n_moe_layers = m.n_moe_layers
  /\ k.n_experts = m.n_experts /\ k.n_active_experts = m.n_active_experts
  /\ k.n_shared_experts = m.n_shared_experts /\ k.d_model = m.d_model

\* What the collectives of a layer take.
Reduce(tokens, m, c) == AllReduceLatency(c, tokens * m.d_model * ActivationBytes(m))
Exchange(tokens, m, c) ==
  EpAllToAllLatency(c, tokens * TopK(m), m.d_model, ActivationBytes(m))
HandOver(tokens, m, c) ==
  PpTransferLatency(c, tokens * m.d_model * ActivationBytes(m), TRUE)

\* What the collectives of all layers take (collective_cost).
LEMMA CollectiveBound ==
  ASSUME NEW n \in Nat, NEW m \in LlmConfigs, NEW k \in LlmConfigs, Alike(k, m),
         NEW c, NEW d, NEW x, NEW y,
         Reduce(y, m, c) \in LowestTerms, Reduce(x, k, d) \in LowestTerms,
         AtMost(Reduce(x, k, d), Times(Whole(n), Reduce(y, m, c))),
         Exchange(y, m, c) \in LowestTerms, Exchange(x, k, d) \in LowestTerms,
         AtMost(Exchange(x, k, d), Times(Whole(n), Exchange(y, m, c)))
  PROVE  /\ CollectiveCost(y, m, c) \in LowestTerms /\ CollectiveCost(x, k, d) \in LowestTerms
         /\ AtMost(CollectiveCost(x, k, d), Times(Whole(n), CollectiveCost(y, m, c)))
<1> DEFINE l == Whole(m.n_layers * 2)
           e == Whole(m.n_moe_layers * 2)
           R == Reduce(y, m, c)
           r == Reduce(x, k, d)
           E == Exchange(y, m, c)
           f == Exchange(x, k, d)
           moe == IsMoe(m) /\ m.n_moe_layers > 0
<1>1. /\ CollectiveCost(y, m, c) = IF moe THEN Plus(Times(l, R), Times(e, E)) ELSE Times(l, R)
      /\ CollectiveCost(x, k, d) = IF moe THEN Plus(Times(l, r), Times(e, f)) ELSE Times(l, r)
  BY DEF CollectiveCost, Reduce, Exchange, TopK, Alike, IsMoe
<1>2. l \in LowestTerms /\ e \in LowestTerms
  <2>1. m.n_layers * 2 \in Nat /\ m.n_moe_layers * 2 \in Nat
    BY ModelFields
  <2> QED
    BY <2>1, WholeLaws
<1>3. /\ R \in LowestTerms /\ r \in LowestTerms /\ AtMost(r, Times(Whole(n), R))
      /\ E \in LowestTerms /\ f \in LowestTerms /\ AtMost(f, Times(Whole(n), E))
  OBVIOUS
<1> HIDE DEF l, e, R, r, E, f, moe
<1>4. /\ Times(l, R) \in LowestTerms /\ Times(l, r) \in LowestTerms
      /\ AtMost(Times(l, r), Times(Whole(n), Times(l, R)))
  BY <1>2, <1>3, BoundTimes
<1>5. /\ Times(e, E) \in LowestTerms /\ Times(e, f) \in LowestTerms
      /\ AtMost(Times(e, f), Times(Whole(n), Times(e, E)))
  BY <1>2, <1>3, BoundTimes
<1>6. /\ Plus(Times(l, R), Times(e, E)) \in LowestTerms
      /\ Plus(Times(l, r), Times(e, f)) \in LowestTerms
      /\ AtMost(Plus(Times(l, r), Times(e, f)),
                Times(Whole(n), Plus(Times(l, R), Times(e, E))))
  BY <1>4, <1>5, BoundPlus
<1> QED
  BY <1>1, <1>4, <1>6

\* What a pipeline takes, for at most n times the work and messages.
LEMMA PipelinedBound ==
  ASSUME NEW n \in Nat, NEW m, NEW k,
         NEW c, NEW d, c.pp \in Nat, d.pp = c.pp, NEW x, NEW y,
         NEW a \in LowestTerms, NEW b \in LowestTerms, AtMost(a, Times(Whole(n), b)),
         CollectiveCost(y, m, c) \in LowestTerms, CollectiveCost(x, k, d) \in LowestTerms,
         AtMost(CollectiveCost(x, k, d), Times(Whole(n), CollectiveCost(y, m, c))),
         HandOver(y, m, c) \in LowestTerms, HandOver(x, k, d) \in LowestTerms,
         AtMost(HandOver(x, k, d), Times(Whole(n), HandOver(y, m, c)))
  PROVE  /\ Pipelined(b, y, m, c) \in LowestTerms /\ Pipelined(a, x, k, d) \in LowestTerms
         /\ AtMost(Pipelined(a, x, k, d), Times(Whole(n), Pipelined(b, y, m, c)))
<1> DEFINE pp == Greatest(c.pp, 1)
           p == Whole(pp)
           q == Whole(pp - 1)
           C == CollectiveCost(y, m, c)
           s == CollectiveCost(x, k, d)
           H == HandOver(y, m, c)
           h == HandOver(x, k, d)
<1>1. /\ Pipelined(b, y, m, c) = Plus(Over(Plus(b, C), p), Times(q, H))
      /\ Pipelined(a, x, k, d) = Plus(Over(Plus(a, s), p), Times(q, h))
  BY DEF Pipelined, HandOver
<1>2. p \in LowestTerms /\ p # Zero /\ q \in LowestTerms
  <2>1. pp \in Nat /\ pp # 0 /\ pp - 1 \in Nat
    BY DEF Greatest
  <2> HIDE DEF pp
  <2> QED
    BY <2>1, WholeLaws
<1>3. /\ C \in LowestTerms /\ s \in LowestTerms /\ AtMost(s, Times(Whole(n), C))
      /\ H \in LowestTerms /\ h \in LowestTerms /\ AtMost(h, Times(Whole(n), H))
  OBVIOUS
<1> HIDE DEF p, q, C, s, H, h
<1>4. /\ Plus(b, C) \in LowestTerms /\ Plus(a, s) \in LowestTerms
      /\ AtMost(Plus(a, s), Times(Whole(n), Plus(b, C)))
  BY <1>3, BoundPlus
<1>5. /\ Over(Plus(b, C), p) \in LowestTerms /\ Over(Plus(a, s), p) \in LowestTerms
      /\ AtMost(Over(Plus(a, s), p), Times(Whole(n), Over(Plus(b, C), p)))
  BY <1>2, <1>4, BoundOver
<1>6. /\ Times(q, H) \in LowestTerms /\ Times(q, h) \in LowestTerms
      /\ AtMost(Times(q, h), Times(Whole(n), Times(q, H)))
  BY <1>2, <1>3, BoundTimes
<1>7. /\ Plus(Over(Plus(b, C), p), Times(q, H)) \in LowestTerms
      /\ Plus(Over(Plus(a, s), p), Times(q, h)) \in LowestTerms
      /\ AtMost(Plus(Over(Plus(a, s), p), Times(q, h)),
                Times(Whole(n), Plus(Over(Plus(b, C), p), Times(q, H))))
  BY <1>5, <1>6, BoundPlus
<1> QED
  BY <1>1, <1>7

\* The experts that x tokens go to, and n times those of y.
Dispatched(c, tokens, m) == Share(c, tokens * TopK(m))

\* On one cluster: at most n times the tokens, in messages that are not wider,
\* take at most n times as long.
LEMMA TokensBound ==
  ASSUME NEW n \in Nat \ {0}, NEW m \in LlmConfigs, NEW k \in LlmConfigs, Alike(k, m),
         ActivationBytes(k) <= ActivationBytes(m), NEW c \in Clusters,
         NEW x \in Nat, NEW y \in Nat, x <= n * y,
         c.ep > 1 => Dispatched(c, x, m) <= n * Dispatched(c, y, m),
         NEW a \in LowestTerms, NEW b \in LowestTerms, AtMost(a, Times(Whole(n), b))
  PROVE  /\ Pipelined(b, y, m, c) \in LowestTerms /\ Pipelined(a, x, k, c) \in LowestTerms
         /\ AtMost(Pipelined(a, x, k, c), Times(Whole(n), Pipelined(b, y, m, c)))
<1> DEFINE d == m.d_model
           v == ActivationBytes(k)
           w == ActivationBytes(m)
           t == TopK(m)
<1>1. d \in Nat /\ t \in Nat /\ v \in Nat /\ w \in Nat /\ v <= w /\ c.pp \in Nat
  BY ModelFields, WidthTypes, ClusterFields DEF TopK, Greatest
<1>2. /\ Reduce(y, m, c) = AllReduceLatency(c, y * d * w)
      /\ Reduce(x, k, c) = AllReduceLatency(c, x * d * v)
      /\ HandOver(y, m, c) = PpTransferLatency(c, y * d * w, TRUE)
      /\ HandOver(x, k, c) = PpTransferLatency(c, x * d * v, TRUE)
      /\ Exchange(y, m, c) = EpAllToAllLatency(c, y * t, d, w)
      /\ Exchange(x, k, c) = EpAllToAllLatency(c, x * t, d, v)
  BY DEF Reduce, HandOver, Exchange, Alike, TopK
<1> HIDE DEF d, v, w, t
<1>4. /\ x * d * v \in Nat /\ y * d * w \in Nat /\ x * d * v <= n * (y * d * w)
  BY <1>1, ProductBound
<1>5. /\ Reduce(y, m, c) \in LowestTerms /\ Reduce(x, k, c) \in LowestTerms
      /\ AtMost(Reduce(x, k, c), Times(Whole(n), Reduce(y, m, c)))
  <2> DEFINE p == x * d * v
             q == y * d * w
  <2> HIDE DEF p, q
  <2>1. p \in Nat /\ q \in Nat /\ p <= n * q
    BY <1>4 DEF p, q
  <2>2. /\ AllReduceLatency(c, q) \in LowestTerms /\ AllReduceLatency(c, p) \in LowestTerms
        /\ AtMost(AllReduceLatency(c, p), Times(Whole(n), AllReduceLatency(c, q)))
    BY <2>1, AllReduceBound
  <2> QED
    BY <1>2, <2>2 DEF p, q
<1>6. /\ HandOver(y, m, c) \in LowestTerms /\ HandOver(x, k, c) \in LowestTerms
      /\ AtMost(HandOver(x, k, c), Times(Whole(n), HandOver(y, m, c)))
  <2> DEFINE p == x * d * v
             q == y * d * w
  <2> HIDE DEF p, q
  <2>1. p \in Nat /\ q \in Nat /\ p <= n * q
    BY <1>4 DEF p, q
  <2>2. /\ PpTransferLatency(c, q, TRUE) \in LowestTerms
        /\ PpTransferLatency(c, p, TRUE) \in LowestTerms
        /\ AtMost(PpTransferLatency(c, p, TRUE), Times(Whole(n), PpTransferLatency(c, q, TRUE)))
    BY <2>1, PpBound
  <2> QED
    BY <1>2, <2>2 DEF p, q
<1>7. /\ Exchange(y, m, c) \in LowestTerms /\ Exchange(x, k, c) \in LowestTerms
      /\ AtMost(Exchange(x, k, c), Times(Whole(n), Exchange(y, m, c)))
  <2>1. x * t \in Nat /\ y * t \in Nat
    BY <1>1, SMT
  <2>2. c.ep > 1 => Share(c, x * t) <= n * Share(c, y * t)
    BY DEF Dispatched, t
  <2> DEFINE p == x * t
             q == y * t
  <2>3. p \in Nat /\ q \in Nat
    BY <2>1
  <2>4. c.ep > 1 => Share(c, p) <= n * Share(c, q)
    BY <2>2
  <2> HIDE DEF p, q
  <2>5. /\ EpAllToAllLatency(c, p, d, v) \in LowestTerms
        /\ EpAllToAllLatency(c, q, d, w) \in LowestTerms
        /\ AtMost(EpAllToAllLatency(c, p, d, v), Times(Whole(n), EpAllToAllLatency(c, q, d, w)))
    BY <1>1, <2>3, <2>4, ExchangeBound
  <2> QED
    BY <1>2, <2>5 DEF p, q
<1>8. /\ CollectiveCost(y, m, c) \in LowestTerms /\ CollectiveCost(x, k, c) \in LowestTerms
      /\ AtMost(CollectiveCost(x, k, c), Times(Whole(n), CollectiveCost(y, m, c)))
  BY <1>5, <1>7, CollectiveBound
<1> QED
  BY <1>1, <1>6, <1>8, PipelinedBound

\* The same tokens of the same model: no less for work that takes no less.
LEMMA PipelinedGrows ==
  ASSUME NEW m \in LlmConfigs, NEW c \in Clusters, NEW x \in Nat,
         NEW a \in LowestTerms, NEW b \in LowestTerms, AtMost(a, b)
  PROVE  /\ Pipelined(a, x, m, c) \in LowestTerms /\ Pipelined(b, x, m, c) \in LowestTerms
         /\ AtMost(Pipelined(a, x, m, c), Pipelined(b, x, m, c))
<1>1. Alike(m, m) /\ ActivationBytes(m) <= ActivationBytes(m)
  BY WidthTypes DEF Alike
<1>2. x <= 1 * x
  OBVIOUS
<1>3. c.ep > 1 => Dispatched(c, x, m) <= 1 * Dispatched(c, x, m)
  <2>1. TopK(m) \in Nat
    BY ModelFields DEF TopK, Greatest
  <2>2. x * TopK(m) \in Nat
    BY <2>1, SMT
  <2>3. c.ep > 1 => Share(c, x * TopK(m)) \in Nat
    BY <2>2, ShareType
  <2> QED
    BY <2>3 DEF Dispatched
<1>4. AtMost(a, Times(Whole(1), b))
  BY BoundOnce
<1>5. /\ Pipelined(b, x, m, c) \in LowestTerms /\ Pipelined(a, x, m, c) \in LowestTerms
      /\ AtMost(Pipelined(a, x, m, c), Times(Whole(1), Pipelined(b, x, m, c)))
  BY <1>1, <1>2, <1>3, <1>4, TokensBound
<1> QED
  BY <1>5, BoundOnce

-----------------------------------------------------------------------------
(* Differences *)

\* What is left of a difference is what makes it up.
LEMMA MinusHolds ==
  ASSUME NEW a \in LowestTerms, NEW b \in LowestTerms, AtMost(b, a)
  PROVE  Minus(a, b) \in LowestTerms /\ Plus(Minus(a, b), b) = a
<1>1. PICK n \in Nat, d \in Nat \ {0} : a = Frac(n, d)
  BY AsFrac
<1>2. PICK m \in Nat, e \in Nat \ {0} : b = Frac(m, e)
  BY AsFrac
<1>3. m * d <= n * e
  BY <1>1, <1>2, FracAtMost
<1> DEFINE x == n * e
           y == m * d
           z == d * e
<1>4. x \in Nat /\ y \in Nat /\ z \in Nat \ {0}
  BY SMT
<1>5. Minus(a, b) = Frac(x - y, z)
  BY <1>1, <1>2, <1>3, FracMinus
<1>6. a = Frac(x, z) /\ b = Frac(y, z)
  <2>1. Frac(n * e, d * e) = Frac(n, d)
    BY FracScaled
  <2>2. Frac(m * d, e * d) = Frac(m, e)
    BY FracScaled
  <2>3. e * d = d * e
    BY SMT
  <2> QED
    BY <1>1, <1>2, <2>1, <2>2, <2>3
<1>7. y <= x
  BY <1>3
<1> HIDE DEF x, y, z
<1>8. x - y \in Nat /\ (x - y) + y = x
  BY <1>4, <1>7
<1> DEFINE w == x - y
<1> HIDE DEF w
<1>9. w \in Nat /\ w + y = x
  BY <1>8 DEF w
<1>10. Plus(Frac(w, z), Frac(y, z)) = Frac(w + y, z) /\ Frac(w, z) \in LowestTerms
  BY <1>4, <1>9, FracLaws, FracType
<1> QED
  BY <1>5, <1>6, <1>9, <1>10 DEF w

\* What is added on both sides can be taken away.
LEMMA PlusCancels ==
  ASSUME NEW a \in LowestTerms, NEW b \in LowestTerms, NEW c \in LowestTerms
  PROVE  /\ AtMost(Plus(a, c), Plus(b, c)) => AtMost(a, b)
         /\ Plus(a, c) = Plus(b, c) => a = b
<1>1. PICK n \in Nat, d \in Nat \ {0} : a = Frac(n, d)
  BY AsFrac
<1>2. PICK m \in Nat, e \in Nat \ {0} : b = Frac(m, e)
  BY AsFrac
<1>3. PICK k \in Nat, f \in Nat \ {0} : c = Frac(k, f)
  BY AsFrac
<1> DEFINE z == d * e * f
           x == n * e * f
           y == m * d * f
           w == k * d * e
<1>4. x \in Nat /\ y \in Nat /\ w \in Nat /\ z \in Nat \ {0}
  <2>1. n * e \in Nat /\ m * d \in Nat /\ k * d \in Nat /\ d * e \in Nat \ {0}
    BY SMT
  <2>2. (n * e) * f \in Nat /\ (m * d) * f \in Nat /\ (k * d) * e \in Nat
        /\ (d * e) * f \in Nat \ {0}
    BY <2>1, SMT
  <2> QED
    BY <2>2
<1>5. a = Frac(x, z) /\ b = Frac(y, z) /\ c = Frac(w, z)
  <2>1. e * f \in Nat \ {0} /\ d * f \in Nat \ {0} /\ d * e \in Nat \ {0}
    BY SMT
  <2>2. Frac(n * (e * f), d * (e * f)) = Frac(n, d)
    BY <2>1, FracScaled
  <2>3. Frac(m * (d * f), e * (d * f)) = Frac(m, e)
    BY <2>1, FracScaled
  <2>4. Frac(k * (d * e), f * (d * e)) = Frac(k, f)
    BY <2>1, FracScaled
  <2>5. /\ n * (e * f) = x /\ d * (e * f) = z /\ m * (d * f) = y /\ e * (d * f) = z
        /\ k * (d * e) = w /\ f * (d * e) = z
    BY SMT
  <2> QED
    BY <1>1, <1>2, <1>3, <2>2, <2>3, <2>4, <2>5
<1> HIDE DEF x, y, w, z
<1>6. Plus(a, c) = Frac(x + w, z) /\ Plus(b, c) = Frac(y + w, z)
  BY <1>4, <1>5, FracLaws
<1>7. x + w \in Nat /\ y + w \in Nat
  BY <1>4
<1>8. AtMost(Plus(a, c), Plus(b, c)) => AtMost(a, b)
  <2> SUFFICES ASSUME AtMost(Plus(a, c), Plus(b, c)) PROVE AtMost(a, b)
    OBVIOUS
  <2>1. AtMost(Frac(x + w, z), Frac(y + w, z))
    BY <1>6
  <2>2. x + w <= y + w
    <3> DEFINE p == x + w
               q == y + w
    <3>1. p \in Nat /\ q \in Nat
      BY <1>7
    <3>2. AtMost(Frac(p, z), Frac(q, z))
      BY <2>1
    <3> HIDE DEF p, q
    <3>3. p <= q
      BY <1>4, <3>1, <3>2, FracLaws
    <3> QED
      BY <3>3 DEF p, q
  <2>3. x <= y
    BY <1>4, <2>2
  <2> QED
    BY <1>4, <1>5, <2>3, FracLaws
<1>9. ASSUME Plus(a, c) = Plus(b, c) PROVE a = b
  <2>1. Plus(a, c) \in LowestTerms /\ Plus(b, c) \in LowestTerms
    BY PlusLaws
  <2>2. AtMost(Plus(a, c), Plus(b, c)) /\ AtMost(Plus(b, c), Plus(a, c))
    BY <1>9, <2>1, OrderLaws
  <2>3. Frac(x + w, z) = Frac(y + w, z)
    BY <1>6, <1>9
  <2>4. (x + w) * z = (y + w) * z
    <3> DEFINE p == x + w
               q == y + w
    <3>1. p \in Nat /\ q \in Nat /\ Frac(p, z) = Frac(q, z)
      BY <1>7, <2>3
    <3> HIDE DEF p, q
    <3>2. p * z = q * z
      BY <1>4, <3>1, FracSame
    <3> QED
      BY <3>2 DEF p, q
  <2>5. x + w = y + w
    <3> DEFINE p == x + w
               q == y + w
    <3>1. p \in Nat /\ q \in Nat /\ p * z = q * z
      BY <1>7, <2>4
    <3> HIDE DEF p, q
    <3>2. p = q
      BY <1>4, <3>1, SMT
    <3> QED
      BY <3>2 DEF p, q
  <2>6. x = y
    BY <1>4, <2>5
  <2> QED
    BY <1>5, <2>6
<1> QED
  BY <1>8, <1>9

\* Rounding a number between two whole numbers gives one between them, and from
\* half a unit below the upper one, the upper one.
LEMMA RoundBetween ==
  ASSUME NEW a \in LowestTerms, NEW l \in Nat, NEW h \in Nat,
         AtMost(Whole(l), a), AtMost(a, Whole(h))
  PROVE  /\ Round(a) \in l .. h
         /\ h > 0 /\ AtMost(Frac(2 * h - 1, 2), a) => Round(a) = h
<1> DEFINE n == a.num
           d == a.den
           p == l * d
           q == h * d
<1>1. n \in Nat /\ d \in Nat \ {0} /\ a = Frac(n, d)
  BY FractionType
<1>2. p <= n /\ n <= q
  <2>1. l * d <= n * 1 /\ n * 1 <= h * d
    BY DEF AtMost, Whole
  <2> QED
    BY <1>1, <2>1
<1>3. Round(a) = (2 * n + d) \div (2 * d)
  BY DEF Round
<1>4. h > 0 /\ AtMost(Frac(2 * h - 1, 2), a) => 2 * q <= 2 * n + d
  <2> SUFFICES ASSUME h > 0, AtMost(Frac(2 * h - 1, 2), a) PROVE 2 * q <= 2 * n + d
    OBVIOUS
  <2>1. 2 * h - 1 \in Nat /\ AtMost(Frac(2 * h - 1, 2), Frac(n, d))
    BY <1>1
  <2> DEFINE t == 2 * h - 1
  <2>2. t \in Nat /\ AtMost(Frac(t, 2), Frac(n, d))
    BY <2>1
  <2> HIDE DEF t
  <2>3. t * d <= n * 2
    BY <1>1, <2>2, FracAtMost
  <2>4. t * d = 2 * q - d
    <3> DEFINE e == d
    <3> HIDE DEF e
    <3>1. e \in Nat /\ q = h * e /\ h * e \in Nat
      BY <1>1, SMT DEF e
    <3>2. (2 * h - 1) * e = 2 * (h * e) - e
      BY <3>1, SMT
    <3> QED
      BY <3>1, <3>2 DEF t, e
  <2>5. q \in Nat
    BY <1>1, SMT
  <2> HIDE DEF q
  <2> QED
    BY <1>1, <2>3, <2>4, <2>5
<1>5. p \in Nat /\ q \in Nat /\ l * (2 * d) = 2 * p /\ h * (2 * d) = 2 * q
      /\ (h + 1) * (2 * d) = 2 * q + 2 * d
  <2> DEFINE e == d
  <2> HIDE DEF e
  <2>1. e \in Nat
    BY <1>1 DEF e
  <2>2. /\ l * e \in Nat /\ h * e \in Nat /\ l * (2 * e) = 2 * (l * e)
        /\ h * (2 * e) = 2 * (h * e) /\ (h + 1) * (2 * e) = 2 * (h * e) + 2 * e
    BY <2>1, SMT
  <2> QED
    BY <2>2 DEF e
<1> DEFINE N == 2 * n + d
           D == 2 * d
<1>6. N \in Nat /\ D \in Nat \ {0}
  BY <1>1
<1>7. l * D <= N /\ N < (h + 1) * D
  <2> HIDE DEF p, q
  <2> QED
    BY <1>1, <1>2, <1>5
<1>8. h > 0 /\ AtMost(Frac(2 * h - 1, 2), a) => h * D <= N
  BY <1>4, <1>5
<1>9. Round(a) = N \div D
  BY <1>3
<1> HIDE DEF N, D
<1>10. N \div D \in Nat /\ l <= N \div D /\ N \div D < h + 1
       /\ (h * D <= N => h <= N \div D)
  BY <1>6, <1>7, DivHolds
<1>11. N \div D <= h
  BY <1>10
<1> QED
  BY <1>8, <1>9, <1>10, <1>11

-----------------------------------------------------------------------------
(* Powers *)

\* Powers obey their recursion.
LEMMA PowerIs ==
  ASSUME NEW n \in Nat, NEW g \in LowestTerms, NEW f \in [0 .. n -> LowestTerms],
         f[0] = Whole(1), \A i \in 1 .. n : f[i] = Times(f[i - 1], g)
  PROVE  Power(g, n) = f[n]
<1> DEFINE Equation(e) == e = [i \in 0 .. n |-> IF i = 0 THEN Whole(1) ELSE Times(e[i - 1], g)]
           c == CHOOSE e : Equation(e)
<1>1. Equation(f)
  <2>1. f = [i \in 0 .. n |-> f[i]]
    OBVIOUS
  <2>2. \A i \in 0 .. n : f[i] = IF i = 0 THEN Whole(1) ELSE Times(f[i - 1], g)
    <3> TAKE i \in 0 .. n
    <3>1. i # 0 => i \in 1 .. n
      OBVIOUS
    <3> QED
      BY <3>1
  <2> QED
    BY <2>1, <2>2
<1>2. Equation(c)
  BY <1>1
<1>3. Power(g, n) = c[n]
  BY DEF Power
<1> HIDE DEF c
<1>4. \A i \in 0 .. n : c[i] = IF i = 0 THEN Whole(1) ELSE Times(c[i - 1], g)
  BY <1>2
<1> DEFINE P == {k \in 0 .. n : c[k] = f[k]}
<1>5. 0 \in P
  BY <1>4
<1>6. ASSUME NEW i \in 1 .. n, i - 1 \in P PROVE i \in P
  <2>1. i \in 0 .. n /\ i # 0
    OBVIOUS
  <2> QED
    BY <1>4, <1>6, <2>1
<1> HIDE DEF P
<1>7. \A i \in 0 .. n : i \in P
  BY <1>5, <1>6, UpTo
<1>8. n \in P
  BY <1>7
<1> QED
  BY <1>3, <1>8 DEF P

\* The powers up to one.
LEMMA PowerSteps ==
  ASSUME NEW n \in Nat, NEW g \in LowestTerms
  PROVE  \E f \in [0 .. n -> LowestTerms] :
           /\ f[0] = Whole(1)
           /\ \A i \in 1 .. n : f[i] = Times(f[i - 1], g)
           /\ \A i \in 0 .. n : Power(g, i) = f[i]
<1> DEFINE h == [p \in (1 .. n) \X LowestTerms |-> Times(p[2], g)]
<1>1. Whole(1) \in LowestTerms
  BY WholeLaws
<1>2. h \in [(1 .. n) \X LowestTerms -> LowestTerms]
  BY TimesLaws
<1>3. PICK f \in [0 .. n -> LowestTerms] : Iterates(f, n, Whole(1), h)
  BY <1>1, <1>2, StepsExist
<1>4. ASSUME NEW i \in 0 .. n
      PROVE  f[i] = IF i = 0 THEN Whole(1) ELSE Times(f[i - 1], g)
  <2>1. f[i] = IF i = 0 THEN Whole(1) ELSE h[<<i, f[i - 1]>>]
    BY <1>3 DEF Iterates
  <2>2. CASE i = 0
    BY <2>1, <2>2
  <2>3. CASE i # 0
    <3>1. i \in 1 .. n /\ i - 1 \in 0 .. n
      BY <2>3
    <3>2. f[i - 1] \in LowestTerms
      BY <3>1
    <3>3. h[<<i, f[i - 1]>>] = Times(f[i - 1], g)
      BY <3>1, <3>2
    <3> QED
      BY <2>1, <2>3, <3>3
  <2> QED
    BY <2>2, <2>3
<1>5. f[0] = Whole(1) /\ \A i \in 1 .. n : f[i] = Times(f[i - 1], g)
  BY <1>4
<1>6. ASSUME NEW k \in 0 .. n PROVE Power(g, k) = f[k]
  <2> DEFINE e == [i \in 0 .. k |-> f[i]]
  <2>1. k \in Nat /\ e \in [0 .. k -> LowestTerms] /\ e[0] = Whole(1)
    BY <1>5
  <2>2. \A i \in 1 .. k : e[i] = Times(e[i - 1], g)
    <3> TAKE i \in 1 .. k
    <3>1. i \in 0 .. k /\ i - 1 \in 0 .. k /\ i \in 1 .. n
      OBVIOUS
    <3> QED
      BY <1>5, <3>1
  <2>3. k \in 0 .. k /\ e[k] = f[k]
    OBVIOUS
  <2> HIDE DEF e
  <2>4. Power(g, k) = e[k]
    BY <2>1, <2>2, PowerIs
  <2> QED
    BY <2>3, <2>4
<1> QED
  BY <1>5, <1>6

\* 1 - g^n as a multiple of 1 - g, and the bounds of the sum of powers.
LEMMA GeometricSum ==
  ASSUME NEW n \in Nat \ {0}, NEW g \in LowestTerms, NEW r \in LowestTerms,
         Plus(r, g) = Whole(1)
  PROVE  LET s == SumOf([i \in 1 .. n |-> Power(g, i - 1)])
         IN  /\ s \in LowestTerms /\ Power(g, n) \in LowestTerms
             /\ AtMost(Power(g, n), Whole(1))
             /\ Plus(Times(s, r), Power(g, n)) = Whole(1)
             /\ AtMost(Whole(1), s) /\ AtMost(s, Whole(n))
<1>1. PICK f \in [0 .. n -> LowestTerms] :
        /\ f[0] = Whole(1)
        /\ \A i \in 1 .. n : f[i] = Times(f[i - 1], g)
        /\ \A i \in 0 .. n : Power(g, i) = f[i]
  BY PowerSteps
<1> DEFINE t == [i \in 1 .. n |-> Power(g, i - 1)]
<1>2. t \in [1 .. n -> LowestTerms] /\ \A i \in 1 .. n : t[i] = f[i - 1]
  <2>1. \A i \in 1 .. n : i - 1 \in 0 .. n
    OBVIOUS
  <2>2. \A i \in 1 .. n : f[i - 1] \in LowestTerms /\ Power(g, i - 1) = f[i - 1]
    BY <1>1, <2>1
  <2> QED
    BY <2>2
<1> HIDE DEF t
<1>3. PICK h \in [0 .. n -> LowestTerms] :
        h[0] = Zero /\ (\A i \in 1 .. n : h[i] = Plus(h[i - 1], t[i])) /\ SumOf(t) = h[n]
  BY <1>2, SumSteps
<1>4. Zero \in LowestTerms /\ Whole(1) \in LowestTerms
  BY WholeLaws
<1>5. AtMost(g, Whole(1))
  BY PlusMore
<1> DEFINE P == {i \in 0 .. n : /\ Plus(Times(h[i], r), f[i]) = Whole(1)
                                /\ AtMost(f[i], Whole(1))
                                /\ AtMost(h[i], Whole(i))
                                /\ i > 0 => AtMost(Whole(1), h[i])}
<1>6. 0 \in P
  <2>1. Times(Zero, r) = Zero
    BY <1>4, TimesLaws
  <2>2. Plus(Zero, Whole(1)) = Plus(Whole(1), Zero) /\ Plus(Whole(1), Zero) = Whole(1)
    BY <1>4, PlusLaws
  <2>3. AtMost(Whole(1), Whole(1)) /\ AtMost(Zero, Zero) /\ Zero = Whole(0)
    BY <1>4, OrderLaws, WholeLaws
  <2> QED
    BY <1>1, <1>3, <2>1, <2>2, <2>3
<1>7. ASSUME NEW i \in 1 .. n, i - 1 \in P PROVE i \in P
  <2> DEFINE j == i - 1
             x == f[j]
             y == h[j]
  <2>1. j \in 0 .. n /\ j \in Nat /\ i = j + 1 /\ i \in 0 .. n
    OBVIOUS
  <2>2. x \in LowestTerms /\ y \in LowestTerms /\ f[i] = Times(x, g) /\ h[i] = Plus(y, x)
    <3>1. f[j] \in LowestTerms /\ h[j] \in LowestTerms
      BY <2>1
    <3>2. f[i] = Times(f[j], g) /\ h[i] = Plus(h[j], t[i]) /\ t[i] = f[j]
      BY <1>1, <1>2, <1>3
    <3> QED
      BY <3>1, <3>2
  <2>3. /\ Plus(Times(y, r), x) = Whole(1) /\ AtMost(x, Whole(1)) /\ AtMost(y, Whole(j))
        /\ j > 0 => AtMost(Whole(1), y)
    BY <1>7
  <2>4. j = 0 => x = Whole(1)
    BY <1>1
  <2> HIDE DEF j, x, y
  <2>5. Plus(Times(Plus(y, x), r), Times(x, g)) = Whole(1)
    <3>1. /\ Times(y, r) \in LowestTerms /\ Times(x, r) \in LowestTerms
          /\ Times(x, g) \in LowestTerms /\ Plus(y, x) \in LowestTerms
      BY <2>2, TimesLaws, PlusLaws
    <3>2. Times(Plus(y, x), r) = Plus(Times(y, r), Times(x, r))
      <4>1. Times(Plus(y, x), r) = Times(r, Plus(y, x))
        BY <3>1, TimesLaws
      <4>2. Times(r, Plus(y, x)) = Plus(Times(r, y), Times(r, x))
        BY <2>2, TimesLaws
      <4>3. Times(r, y) = Times(y, r) /\ Times(r, x) = Times(x, r)
        BY <2>2, TimesLaws
      <4> QED
        BY <4>1, <4>2, <4>3
    <3>3. Plus(Plus(Times(y, r), Times(x, r)), Times(x, g))
            = Plus(Times(y, r), Plus(Times(x, r), Times(x, g)))
      BY <3>1, PlusLaws
    <3>4. Plus(Times(x, r), Times(x, g)) = Times(x, Plus(r, g))
      BY <2>2, TimesLaws
    <3>5. Times(x, Whole(1)) = x
      <4>1. Times(x, Whole(1)) = Times(Whole(1), x)
        BY <1>4, <2>2, TimesLaws
      <4> QED
        BY <2>2, <4>1, TimesLaws
    <3> QED
      BY <2>3, <3>2, <3>3, <3>4, <3>5
  <2>6. AtMost(Times(x, g), Whole(1))
    <3>1. AtMost(Times(x, g), Times(Whole(1), Whole(1)))
      BY <1>4, <1>5, <2>2, <2>3, TimesGrows
    <3>2. Times(Whole(1), Whole(1)) = Whole(1)
      BY <1>4, TimesLaws
    <3> QED
      BY <3>1, <3>2
  <2>7. AtMost(Plus(y, x), Whole(i))
    <3>1. Whole(j) \in LowestTerms /\ Plus(Whole(j), Whole(1)) = Whole(j + 1)
      BY <2>1, WholeLaws
    <3>2. AtMost(Plus(y, x), Plus(Whole(j), Whole(1)))
      BY <1>4, <2>2, <2>3, <3>1, PlusGrows
    <3> QED
      BY <2>1, <3>1, <3>2
  <2>8. AtMost(Whole(1), Plus(y, x))
    <3>1. /\ AtMost(y, Plus(y, x)) /\ AtMost(x, Plus(y, x)) /\ Plus(y, x) \in LowestTerms
      BY <2>2, PlusMore
    <3>2. CASE j = 0
      BY <2>4, <3>1, <3>2
    <3>3. CASE j > 0
      BY <1>4, <2>2, <2>3, <3>1, <3>3, OrderLaws
    <3> QED
      BY <2>1, <3>2, <3>3
  <2> QED
    BY <2>1, <2>2, <2>5, <2>6, <2>7, <2>8
<1> HIDE DEF P
<1>8. \A i \in 0 .. n : i \in P
  BY <1>6, <1>7, UpTo
<1>9. n \in 0 .. n /\ n > 0 /\ h[n] \in LowestTerms /\ f[n] \in LowestTerms
  OBVIOUS
<1>10. n \in P
  BY <1>8, <1>9
<1> QED
  BY <1>1, <1>3, <1>9, <1>10 DEF P, t

\* With g a little less than 1, the sum of n powers is little less than n.
LEMMA NearlyAll ==
  ASSUME NEW n \in Nat \ {0}, NEW D \in Nat \ {0}, n * (n - 1) <= D
  PROVE  AtMost(Frac(2 * n - 1, 2), SumOf([i \in 1 .. n |-> Power(Frac(D - 1, D), i - 1)]))
<1> DEFINE g == Frac(D - 1, D)
           u == Frac(1, D)
           t == [i \in 1 .. n |-> Power(g, i - 1)]
<1>0. g \in LowestTerms /\ u \in LowestTerms /\ Plus(u, g) = Whole(1)
  <2>1. D - 1 \in Nat /\ 1 + (D - 1) = D
    OBVIOUS
  <2>2. g \in LowestTerms /\ u \in LowestTerms
    BY <2>1, FracType
  <2>3. Plus(u, g) = Frac(D, D)
    <3> DEFINE e == D - 1
    <3>1. e \in Nat /\ 1 + e = D
      BY <2>1
    <3> HIDE DEF e
    <3>2. Plus(Frac(1, D), Frac(e, D)) = Frac(1 + e, D)
      BY <3>1, FracLaws
    <3> QED
      BY <3>1, <3>2 DEF e
  <2>4. Frac(D, D) = Whole(1)
    <3>1. Frac(1 * D, 1 * D) = Frac(1, 1)
      BY FracScaled
    <3>2. 1 * D = D /\ Whole(1) = Frac(1, 1)
      BY WholeIsFrac
    <3> QED
      BY <3>1, <3>2
  <2> QED
    BY <2>2, <2>3, <2>4
<1> HIDE DEF g
<1>1. PICK f \in [0 .. n -> LowestTerms] :
        /\ f[0] = Whole(1)
        /\ \A i \in 1 .. n : f[i] = Times(f[i - 1], g)
        /\ \A i \in 0 .. n : Power(g, i) = f[i]
  BY <1>0, PowerSteps
<1>2. t \in [1 .. n -> LowestTerms] /\ \A i \in 1 .. n : t[i] = f[i - 1]
  <2>1. \A i \in 1 .. n : i - 1 \in 0 .. n
    OBVIOUS
  <2>2. \A i \in 1 .. n : f[i - 1] \in LowestTerms /\ Power(g, i - 1) = f[i - 1]
    BY <1>1, <2>1
  <2> QED
    BY <2>2
<1> HIDE DEF t
<1>3. PICK h \in [0 .. n -> LowestTerms] :
        h[0] = Zero /\ (\A i \in 1 .. n : h[i] = Plus(h[i - 1], t[i])) /\ SumOf(t) = h[n]
  BY <1>2, SumSteps
<1>4. Zero \in LowestTerms /\ Whole(1) \in LowestTerms
  BY WholeLaws
<1>5. ASSUME NEW i \in 0 .. n
      PROVE  /\ i * (i - 1) \in Nat /\ Frac(i, D) \in LowestTerms
             /\ Frac(i * (i - 1), 2 * D) \in LowestTerms /\ 2 * D \in Nat \ {0}
  <2>1. i * (i - 1) \in Nat
    <3>1. CASE i = 0
      BY <3>1
    <3>2. CASE i # 0
      <4>1. i \in Nat /\ i - 1 \in Nat
        BY <3>2
      <4> QED
        BY <4>1, SMT
    <3> QED
      BY <3>1, <3>2
  <2>2. 2 * D \in Nat \ {0}
    OBVIOUS
  <2> DEFINE q == i * (i - 1)
             z == 2 * D
  <2>3. q \in Nat /\ z \in Nat \ {0} /\ i \in Nat
    BY <2>1, <2>2
  <2> HIDE DEF q, z
  <2>4. Frac(q, z) \in LowestTerms /\ Frac(i, D) \in LowestTerms
    BY <2>3, FracType
  <2> QED
    BY <2>1, <2>2, <2>4 DEF q, z
<1> DEFINE P == {i \in 0 .. n : /\ AtMost(Whole(1), Plus(f[i], Frac(i, D)))
                                /\ AtMost(f[i], Whole(1))
                                /\ AtMost(Whole(i), Plus(h[i], Frac(i * (i - 1), 2 * D)))}
<1>6. 0 \in P
  <2>1. Frac(0, D) = Zero /\ Frac(0, 2 * D) = Zero /\ 0 * (0 - 1) = 0
    <3>1. 2 * D \in Nat \ {0}
      OBVIOUS
    <3>2. \A z \in Nat \ {0} : Frac(0, z) = Zero
      BY FracLaws
    <3> QED
      BY <3>1, <3>2
  <2>2. Plus(Whole(1), Zero) = Whole(1) /\ Plus(Zero, Zero) = Zero
    BY <1>4, PlusLaws
  <2>3. AtMost(Whole(1), Whole(1)) /\ AtMost(Zero, Zero) /\ Zero = Whole(0)
    BY <1>4, OrderLaws, WholeLaws
  <2>4. 0 \in 0 .. n /\ f[0] = Whole(1) /\ h[0] = Zero
    BY <1>1, <1>3
  <2> QED
    BY <2>1, <2>2, <2>3, <2>4
<1>7. ASSUME NEW i \in 1 .. n, i - 1 \in P PROVE i \in P
  <2> DEFINE j == i - 1
             x == f[j]
             y == h[j]
             v == Frac(j, D)
             w == Frac(j * (j - 1), 2 * D)
             k == Frac(i, D)
             q == Frac(i * (i - 1), 2 * D)
  <2>1. j \in 0 .. n /\ j \in Nat /\ i = j + 1 /\ i \in 0 .. n
    OBVIOUS
  <2>2. x \in LowestTerms /\ y \in LowestTerms /\ f[i] = Times(x, g) /\ h[i] = Plus(y, x)
    <3>1. f[j] \in LowestTerms /\ h[j] \in LowestTerms
      BY <2>1
    <3>2. f[i] = Times(f[j], g) /\ h[i] = Plus(h[j], t[i]) /\ t[i] = f[j]
      BY <1>1, <1>2, <1>3
    <3> QED
      BY <3>1, <3>2
  <2>3. /\ AtMost(Whole(1), Plus(x, v)) /\ AtMost(x, Whole(1))
        /\ AtMost(Whole(j), Plus(y, w))
    BY <1>7
  <2>4. v \in LowestTerms /\ w \in LowestTerms /\ k \in LowestTerms /\ q \in LowestTerms
    BY <1>5, <2>1
  <2>5. Plus(u, v) = k
    BY <2>1, FracLaws
  <2>6. Plus(v, w) = q
    <3>1. Frac(j * 2, D * 2) = Frac(j, D)
      BY <2>1, FracScaled
    <3> DEFINE z == D * 2
               a == j * 2
               b == j * (j - 1)
    <3>2. z \in Nat \ {0} /\ a \in Nat /\ z = 2 * D
      BY <2>1
    <3>3. b \in Nat
      BY <1>5, <2>1
    <3>4. a + b = i * (i - 1)
      <4>1. (j + 1) * ((j + 1) - 1) = j * 2 + j * (j - 1)
        <5> DEFINE p == j
        <5> HIDE DEF p
        <5>1. p \in Nat
          BY <2>1 DEF p
        <5>2. (p + 1) * p = p * 2 + p * (p - 1) /\ (p + 1) - 1 = p
          BY <5>1, SMT
        <5> QED
          BY <5>2 DEF p
      <4> QED
        BY <2>1, <4>1
    <3> HIDE DEF z, a, b
    <3>5. Plus(Frac(a, z), Frac(b, z)) = Frac(a + b, z)
      BY <3>2, <3>3, FracLaws
    <3> QED
      BY <3>1, <3>2, <3>4, <3>5 DEF a, b, z
  <2> HIDE DEF j, x, y, v, w, k, q
  <2>7. AtMost(Whole(1), Plus(Times(x, g), k))
    <3> DEFINE s == Times(x, g)
               e == Times(x, u)
    <3>1. s \in LowestTerms /\ e \in LowestTerms
      BY <1>0, <2>2, TimesLaws
    <3>2. Plus(e, s) = x
      <4>1. Plus(e, s) = Times(x, Plus(u, g))
        BY <1>0, <2>2, TimesLaws
      <4>2. Times(x, Whole(1)) = Times(Whole(1), x) /\ Times(Whole(1), x) = x
        BY <1>4, <2>2, TimesLaws
      <4> QED
        BY <1>0, <4>1, <4>2
    <3>3. AtMost(e, u)
      <4>1. AtMost(u, u)
        BY <1>0, OrderLaws
      <4>2. AtMost(Times(x, u), Times(Whole(1), u))
        BY <1>0, <1>4, <2>2, <2>3, <4>1, TimesGrows
      <4>3. Times(Whole(1), u) = u
        BY <1>0, TimesLaws
      <4> QED
        BY <4>2, <4>3
    <3> HIDE DEF s, e
    <3>4. AtMost(Plus(e, s), Plus(u, s))
      BY <1>0, <3>1, <3>3, OrderLaws
    <3>5. AtMost(Plus(x, v), Plus(Plus(u, s), v))
      <4>1. Plus(u, s) \in LowestTerms
        BY <1>0, <3>1, PlusLaws
      <4> QED
        BY <2>2, <2>4, <3>2, <3>4, <4>1, OrderLaws
    <3>6. Plus(Plus(u, s), v) = Plus(s, k)
      <4>1. Plus(u, s) = Plus(s, u)
        BY <1>0, <3>1, PlusLaws
      <4>2. Plus(Plus(s, u), v) = Plus(s, Plus(u, v))
        BY <1>0, <2>4, <3>1, PlusLaws
      <4> QED
        BY <2>5, <4>1, <4>2
    <3>7. Plus(x, v) \in LowestTerms /\ Plus(s, k) \in LowestTerms
      BY <2>2, <2>4, <3>1, PlusLaws
    <3> QED
      BY <1>4, <2>3, <3>5, <3>6, <3>7, OrderLaws DEF s
  <2>8. AtMost(Times(x, g), Whole(1))
    <3>1. AtMost(g, Whole(1))
      BY <1>0, PlusMore
    <3>2. AtMost(Times(x, g), Times(Whole(1), Whole(1)))
      BY <1>0, <1>4, <2>2, <2>3, <3>1, TimesGrows
    <3>3. Times(Whole(1), Whole(1)) = Whole(1)
      BY <1>4, TimesLaws
    <3> QED
      BY <3>2, <3>3
  <2>9. AtMost(Whole(i), Plus(Plus(y, x), q))
    <3>1. Plus(y, w) \in LowestTerms /\ Plus(x, v) \in LowestTerms /\ Whole(j) \in LowestTerms
      BY <2>1, <2>2, <2>4, PlusLaws, WholeLaws
    <3>2. AtMost(Plus(Whole(j), Whole(1)), Plus(Plus(y, w), Plus(x, v)))
      BY <1>4, <2>3, <3>1, PlusGrows
    <3>3. Plus(Whole(j), Whole(1)) = Whole(i)
      BY <2>1, WholeLaws
    <3>4. Plus(Plus(y, w), Plus(x, v)) = Plus(Plus(y, x), q)
      <4>1. Plus(Plus(y, w), Plus(x, v)) = Plus(y, Plus(w, Plus(x, v)))
        BY <2>2, <2>4, <3>1, PlusLaws
      <4>2. Plus(w, Plus(x, v)) = Plus(Plus(x, v), w)
        BY <2>4, <3>1, PlusLaws
      <4>3. Plus(Plus(x, v), w) = Plus(x, Plus(v, w))
        BY <2>2, <2>4, PlusLaws
      <4>4. Plus(y, Plus(x, q)) = Plus(Plus(y, x), q)
        BY <2>2, <2>4, PlusLaws
      <4> QED
        BY <2>6, <4>1, <4>2, <4>3, <4>4
    <3> QED
      BY <3>2, <3>3, <3>4
  <2> QED
    BY <2>1, <2>2, <2>7, <2>8, <2>9 DEF k, q
<1> HIDE DEF P
<1>8. \A i \in 0 .. n : i \in P
  BY <1>6, <1>7, UpTo
<1>9. n \in 0 .. n /\ n \in P /\ h[n] \in LowestTerms
  BY <1>8
<1>10. AtMost(Whole(n), Plus(h[n], Frac(n * (n - 1), 2 * D)))
  BY <1>9 DEF P
<1> DEFINE a == n * (n - 1)
           z == 2 * D
           b == 2 * n - 1
<1>11. a \in Nat /\ z \in Nat \ {0} /\ a * 2 <= 1 * z /\ b \in Nat
  BY <1>5, <1>9
<1>12. AtMost(Whole(n), Plus(h[n], Frac(a, z)))
  BY <1>10
<1>13. b + 1 = n * 2
  OBVIOUS
<1> HIDE DEF a, z, b
<1>14. AtMost(Frac(a, z), Frac(1, 2)) /\ Frac(a, z) \in LowestTerms
       /\ Frac(1, 2) \in LowestTerms /\ Frac(b, 2) \in LowestTerms
  BY <1>11, FracAtMost, FracType
<1>15. AtMost(Whole(n), Plus(h[n], Frac(1, 2)))
  <2>1. AtMost(h[n], h[n])
    BY <1>9, OrderLaws
  <2>2. AtMost(Plus(h[n], Frac(a, z)), Plus(h[n], Frac(1, 2)))
    BY <1>9, <1>14, <2>1, PlusGrows
  <2>3. /\ Plus(h[n], Frac(a, z)) \in LowestTerms /\ Plus(h[n], Frac(1, 2)) \in LowestTerms
        /\ Whole(n) \in LowestTerms
    BY <1>9, <1>14, PlusLaws, WholeLaws
  <2> QED
    BY <1>12, <2>2, <2>3, OrderLaws
<1>16. Plus(Frac(b, 2), Frac(1, 2)) = Whole(n)
  <2>1. Plus(Frac(b, 2), Frac(1, 2)) = Frac(b + 1, 2)
    BY <1>11, FracLaws
  <2>2. Frac(n * 2, 1 * 2) = Frac(n, 1)
    BY FracScaled
  <2>3. Frac(n, 1) = Whole(n)
    BY WholeIsFrac
  <2> QED
    BY <1>13, <2>1, <2>2, <2>3
<1>17. AtMost(Frac(b, 2), h[n])
  BY <1>9, <1>14, <1>15, <1>16, PlusCancels
<1> QED
  BY <1>3, <1>17 DEF b, t, g

-----------------------------------------------------------------------------
(* What a set-up is *)

\* A kind of speculation, or none.
Speculates(s) ==
  s # None => s.k \in Nat \ {0} /\ s.acceptance_rate \in LowestTerms

\* The parts of a set-up have the types that the latencies need.
WellSetUp(s) ==
  /\ s = [gpu |-> s.gpu, model |-> s.model, target |-> s.target, cluster |-> s.cluster,
          kv_blocks |-> s.kv_blocks, block_size |-> s.block_size, spec |-> s.spec,
          mtp |-> s.mtp]
  /\ s.gpu \in GpuSpecs /\ s.model \in LlmConfigs /\ s.cluster \in Clusters
  /\ s.kv_blocks \in Nat /\ s.block_size \in Nat
  /\ Speculates(s.spec) /\ Speculates(s.mtp)
  /\ s.spec # None => s.spec.draft_model \in LlmConfigs

\* The arguments of a run (main.rs).
LEMMA ArgumentTypes ==
  ASSUME NEW args \in CommandLines
  PROVE  /\ args.gpu \in GpuSpecs /\ args.model \in LlmConfigs
         /\ args.draft_model \in {None} \cup LlmConfigs
         /\ {args.tp, args.pp, args.ep, args.gpus_per_node, args.scale_out_bw,
             args.scale_out_latency, args.internode_bw, args.kv_blocks,
             args.kv_block_size, args.spec_tokens, args.mtp_heads} \subseteq Nat
         /\ args.disaggregate \in BOOLEAN
         /\ args.scale_out_fabric \in {"none"} \cup DOMAIN FabricPreset
         /\ {args.spec_acceptance_rate, args.mtp_acceptance_rate} \subseteq LowestTerms
BY ArgumentsAssumption

\* The network between nodes.
LEMMA ScaleOutTypes ==
  ASSUME NEW args \in CommandLines
  PROVE  ScaleOutConfig(args).bw \in Nat /\ ScaleOutConfig(args).latency \in Nat
<1>1. \A f \in DOMAIN FabricPreset :
        FabricPreset[f].bw \in Nat /\ FabricPreset[f].latency \in Nat
  BY DEF FabricPreset
<1>2. /\ args.scale_out_fabric \in {"none"} \cup DOMAIN FabricPreset
      /\ args.scale_out_bw \in Nat /\ args.scale_out_latency \in Nat
  BY ArgumentTypes
<1> DEFINE preset == IF args.scale_out_fabric = "none"
                     THEN [bw |-> 0, latency |-> args.scale_out_latency]
                     ELSE FabricPreset[args.scale_out_fabric]
<1>3. preset.bw \in Nat /\ preset.latency \in Nat
  BY <1>1, <1>2
<1>4. ScaleOutConfig(args) =
        [bw |-> IF args.scale_out_bw > 0 THEN args.scale_out_bw ELSE preset.bw,
         latency |-> IF args.scale_out_latency # DefaultLatency
                     THEN args.scale_out_latency ELSE preset.latency]
  BY DEF ScaleOutConfig
<1> HIDE DEF preset
<1> QED
  BY <1>2, <1>3, <1>4

\* The cluster that run_once makes of the arguments.
LEMMA ClusterOfType ==
  ASSUME NEW args \in CommandLines
  PROVE  ClusterOf(args) \in Clusters
<1>1. args.gpu.scale_up_bandwidth \in Nat /\ args.gpu.scale_up_latency \in Nat
  BY ArgumentTypes, GpuFields
<1>2. {args.tp, args.pp, args.ep, args.gpus_per_node, args.internode_bw} \subseteq Nat
      /\ args.disaggregate \in BOOLEAN
  BY ArgumentTypes
<1> QED
  BY <1>1, <1>2, ScaleOutTypes DEF ClusterOf, Clusters

\* A tenth of the weights, and all else as it was.
LEMMA DraftType ==
  ASSUME NEW m \in LlmConfigs
  PROVE  SynthesisedDraft(m) \in LlmConfigs
<1>1. m.weight_bytes \in Nat /\ m.active_weight_bytes \in Nat
  BY ModelFields
<1>2. m.weight_bytes \div 10 \in Nat /\ m.active_weight_bytes \div 10 \in Nat
  BY <1>1, DivHolds
<1>3. Greatest(m.weight_bytes \div 10, 1) \in Nat
      /\ Greatest(m.active_weight_bytes \div 10, 1) \in Nat
  BY <1>2 DEF Greatest
<1> QED
  BY <1>1, <1>3 DEF SynthesisedDraft, LlmConfigs

\* The blocks of a pool made for the memory.
LEMMA PoolType ==
  ASSUME NEW gpu \in GpuSpecs, NEW m \in LlmConfigs, NEW size \in Nat,
         NEW tp \in Nat, NEW pp \in Nat
  PROVE  AutoKvBlocks(gpu, m, size, tp, pp) \in Nat
<1> DEFINE n == Greatest(tp * pp, 1)
           w == m.weight_bytes \div n
           free == IF w < gpu.memory_capacity
                   THEN Frac(4 * (gpu.memory_capacity - w), 5)
                   ELSE Frac(gpu.memory_capacity, 5)
           block == Greatest(KvBytes(m, 1) * size, 1)
<1>1. n \in Nat \ {0}
  <2>1. tp * pp \in Nat
    OBVIOUS
  <2> QED
    BY <2>1 DEF Greatest
<1>2. gpu.memory_capacity \in Nat /\ m.weight_bytes \in Nat
  BY GpuFields, ModelFields
<1> HIDE DEF n
<1>3. w \in Nat
  BY <1>1, <1>2, DivHolds
<1> HIDE DEF w
<1>4. free \in LowestTerms
  <2>1. w < gpu.memory_capacity => 4 * (gpu.memory_capacity - w) \in Nat
    BY <1>2, <1>3
  <2> QED
    BY <1>2, <2>1, FracType
<1>5. block \in Nat \ {0}
  <2>1. KvBytes(m, 1) \in Nat
    BY KvBytesGrows
  <2>2. KvBytes(m, 1) * size \in Nat
    BY <2>1
  <2> QED
    BY <2>2 DEF Greatest
<1> HIDE DEF free, block
<1>6. Times(Whole(n), free) \in LowestTerms /\ Whole(block) \in LowestTerms
      /\ Whole(block) # Zero
  BY <1>1, <1>4, <1>5, TimesLaws, WholeLaws
<1>7. Floor(Over(Times(Whole(n), free), Whole(block))) \in Nat
  BY <1>6, OverGrows, OrderLaws, FloorType
<1>8. AutoKvBlocks(gpu, m, size, tp, pp)
        = Greatest(Floor(Over(Times(Whole(n), free), Whole(block))), 64)
  BY DEF AutoKvBlocks, n, w, free, block
<1> QED
  BY <1>7, <1>8 DEF Greatest

\* What run_once sets up is well set up.
LEMMA SetUpTypes ==
  ASSUME NEW args \in CommandLines
  PROVE  WellSetUp(SetUp(args))
<1> DEFINE s == SetUp(args)
<1>1. s.gpu \in GpuSpecs /\ s.model \in LlmConfigs /\ s.cluster \in Clusters
      /\ s.block_size \in Nat
  BY ArgumentTypes, ClusterOfType DEF SetUp
<1>2. s.kv_blocks \in Nat
  <2>1. args.kv_blocks \in Nat /\ args.kv_block_size \in Nat /\ args.tp \in Nat
        /\ args.pp \in Nat /\ args.gpu \in GpuSpecs /\ args.model \in LlmConfigs
    BY ArgumentTypes
  <2>2. AutoKvBlocks(args.gpu, args.model, args.kv_block_size, args.tp, args.pp) \in Nat
    BY <2>1, PoolType
  <2> QED
    BY <2>1, <2>2 DEF SetUp, KvTotalBlocks
<1>3. /\ args.spec_tokens \in Nat /\ args.mtp_heads \in Nat
      /\ args.spec_acceptance_rate \in LowestTerms /\ args.mtp_acceptance_rate \in LowestTerms
      /\ args.draft_model \in {None} \cup LlmConfigs
      /\ SynthesisedDraft(args.model) \in LlmConfigs
  BY ArgumentTypes, DraftType
<1>4. Speculates(s.spec) /\ (s.spec # None => s.spec.draft_model \in LlmConfigs)
  BY <1>3 DEF SetUp, SpecOf, Speculates
<1>5. Speculates(s.mtp)
  BY <1>3 DEF SetUp, MtpOf, Speculates
<1>6. s = [gpu |-> s.gpu, model |-> s.model, target |-> s.target, cluster |-> s.cluster,
           kv_blocks |-> s.kv_blocks, block_size |-> s.block_size, spec |-> s.spec,
           mtp |-> s.mtp]
  BY DEF SetUp
<1> HIDE DEF s
<1>7. WellSetUp(s)
  BY <1>1, <1>2, <1>4, <1>5, <1>6 DEF WellSetUp
<1> QED
  BY <1>7 DEF s

-----------------------------------------------------------------------------
(* What a step advances by *)

\* The rate that the closed form works with is below 1.
LEMMA ClampedRate ==
  ASSUME NEW rate \in LowestTerms
  PROVE  LET g == Clamped(rate)
             r == Minus(Whole(1), g)
         IN  /\ g \in LowestTerms /\ r \in LowestTerms /\ r # Zero
             /\ Plus(r, g) = Whole(1)
             /\ rate = Zero => g = Zero
             /\ rate = Whole(1) => g = Frac(ClampDen - 1, ClampDen)
<1> DEFINE top == Frac(ClampDen - 1, ClampDen)
           g == Clamped(rate)
           r == Minus(Whole(1), g)
<1>1. ClampDen \in Nat \ {0} /\ ClampDen - 1 \in Nat
  BY ClampAssumption
<1>2. top \in LowestTerms /\ Whole(1) \in LowestTerms /\ Zero \in LowestTerms
  BY <1>1, FracType, WholeLaws
<1>3. ~ AtMost(Whole(1), top)
  <2>1. Whole(1) = Frac(1, 1)
    BY WholeIsFrac
  <2>2. AtMost(Frac(1, 1), Frac(ClampDen - 1, ClampDen)) <=> 1 * ClampDen <= (ClampDen - 1) * 1
    BY <1>1, FracAtMost
  <2> QED
    BY <1>1, <2>1, <2>2
<1>4. g = IF AtMost(rate, top) THEN rate ELSE top
  BY DEF Clamped
<1> HIDE DEF top, g
<1>5. g \in LowestTerms /\ AtMost(g, top)
  BY <1>2, <1>4, OrderLaws
<1>6. AtMost(g, Whole(1))
  BY <1>2, <1>3, <1>5, OrderLaws
<1>7. r \in LowestTerms /\ Plus(r, g) = Whole(1)
  BY <1>2, <1>5, <1>6, MinusHolds
<1>8. r # Zero
  <2> SUFFICES ASSUME r = Zero PROVE FALSE
    OBVIOUS
  <2>1. Plus(Zero, g) = g
    BY <1>2, <1>5, PlusLaws
  <2>2. g = Whole(1)
    BY <1>7, <2>1
  <2> QED
    BY <1>3, <1>5, <2>2
<1>9. rate = Zero => g = Zero
  BY <1>2, <1>4, OrderLaws
<1>10. rate = Whole(1) => g = top
  BY <1>3, <1>4
<1> QED
  BY <1>5, <1>7, <1>8, <1>9, <1>10 DEF g, top

\* The closed form is the sum.
LEMMA ClosedForm ==
  ASSUME NEW k \in Nat \ {0}, NEW rate \in LowestTerms
  PROVE  LET s == SumOf([i \in 1 .. k + 1 |-> Power(Clamped(rate), i - 1)])
         IN  /\ TokensPerStep(k, rate) = s
             /\ s \in LowestTerms
             /\ AtMost(Whole(1), s) /\ AtMost(s, Whole(k + 1))
<1> DEFINE g == Clamped(rate)
           r == Minus(Whole(1), g)
           n == k + 1
           s == SumOf([i \in 1 .. n |-> Power(g, i - 1)])
           p == Power(g, n)
<1>1. g \in LowestTerms /\ r \in LowestTerms /\ r # Zero /\ Plus(r, g) = Whole(1)
  BY ClampedRate
<1>2. n \in Nat \ {0}
  OBVIOUS
<1>3. TokensPerStep(k, rate) = Over(Minus(Whole(1), p), r)
  BY DEF TokensPerStep
<1> HIDE DEF g, r, n
<1>4. /\ s \in LowestTerms /\ p \in LowestTerms
      /\ AtMost(p, Whole(1))
      /\ Plus(Times(s, r), p) = Whole(1)
      /\ AtMost(Whole(1), s) /\ AtMost(s, Whole(n))
  BY <1>1, <1>2, GeometricSum
<1> HIDE DEF s, p
<1>5. Whole(1) \in LowestTerms
  BY WholeLaws
<1>6. Minus(Whole(1), p) \in LowestTerms /\ Plus(Minus(Whole(1), p), p) = Whole(1)
  BY <1>4, <1>5, MinusHolds
<1>7. Times(s, r) \in LowestTerms
  BY <1>1, <1>4, TimesLaws
<1>8. Minus(Whole(1), p) = Times(s, r)
  BY <1>4, <1>6, <1>7, PlusCancels
<1>9. Over(Times(s, r), r) = s
  <2>1. Over(Times(s, r), r) = Times(Times(s, r), Reciprocal(r))
        /\ Reciprocal(r) \in LowestTerms /\ Times(r, Reciprocal(r)) = Whole(1)
    BY <1>1, <1>7, OverLaws
  <2>2. Times(Times(s, r), Reciprocal(r)) = Times(s, Times(r, Reciprocal(r)))
    BY <1>1, <1>4, <2>1, TimesLaws
  <2>3. Times(s, Whole(1)) = s
    BY <1>4, <1>5, TimesLaws
  <2> QED
    BY <2>1, <2>2, <2>3
<1>10. TokensPerStep(k, rate) = s
  BY <1>3, <1>8, <1>9
<1> QED
  BY <1>4, <1>10 DEF s, n, g

\* With nothing accepted the sum is its first term.
LEMMA NothingAccepted ==
  ASSUME NEW n \in Nat \ {0}
  PROVE  SumOf([i \in 1 .. n |-> Power(Zero, i - 1)]) = Whole(1)
<1> DEFINE s == SumOf([i \in 1 .. n |-> Power(Zero, i - 1)])
           p == Power(Zero, n)
<1>1. Zero \in LowestTerms /\ Whole(1) \in LowestTerms
  BY WholeLaws
<1>2. Plus(Whole(1), Zero) = Whole(1)
  BY <1>1, PlusLaws
<1>3. s \in LowestTerms /\ Plus(Times(s, Whole(1)), p) = Whole(1)
  BY <1>1, <1>2, GeometricSum
<1>4. p = Zero
  <2>1. PICK f \in [0 .. n -> LowestTerms] :
          /\ \A i \in 1 .. n : f[i] = Times(f[i - 1], Zero)
          /\ \A i \in 0 .. n : Power(Zero, i) = f[i]
    BY <1>1, PowerSteps
  <2>2. n \in 1 .. n /\ n \in 0 .. n /\ n - 1 \in 0 .. n
    OBVIOUS
  <2>3. p = Times(f[n - 1], Zero) /\ f[n - 1] \in LowestTerms
    BY <2>1, <2>2
  <2> QED
    BY <1>1, <2>3, TimesLaws
<1>5. Times(s, Whole(1)) = s
  BY <1>1, <1>3, TimesLaws
<1> QED
  BY <1>2, <1>3, <1>4, <1>5, PlusLaws

\* What a kind of speculation advances by.
LEMMA SpeculativeAdvance ==
  ASSUME NEW s, s.k \in Nat \ {0}, s.acceptance_rate \in LowestTerms,
         NEW a, a = Greatest(Round(TokensPerStep(s.k, s.acceptance_rate)), 1)
  PROVE  /\ TokensPerStep(s.k, s.acceptance_rate)
              = SumOf([i \in 1 .. s.k + 1 |-> Power(Clamped(s.acceptance_rate), i - 1)])
         /\ a \in 1 .. s.k + 1
         /\ s.acceptance_rate = Zero => a = 1
         /\ s.acceptance_rate = Whole(1) /\ s.k * (s.k + 1) <= ClampDen => a = s.k + 1
<1> DEFINE k == s.k
           rate == s.acceptance_rate
           h == k + 1
           t == TokensPerStep(k, rate)
           sum == SumOf([i \in 1 .. h |-> Power(Clamped(rate), i - 1)])
<1>1. t = sum /\ t \in LowestTerms /\ AtMost(Whole(1), t) /\ AtMost(t, Whole(h))
  BY ClosedForm
<1>2. k \in Nat \ {0} /\ h \in Nat \ {0} /\ 1 \in Nat /\ h - 1 = k
  OBVIOUS
<1>3. a = Greatest(Round(t), 1)
  OBVIOUS
<1> HIDE DEF t
<1>4. Round(t) \in 1 .. h
  <2> HIDE DEF h, sum
  <2> QED
    BY <1>1, <1>2, RoundBetween
<1>5. a = Round(t) /\ a \in 1 .. h
  BY <1>2, <1>3, <1>4 DEF Greatest
<1>6. ASSUME rate = Zero PROVE a = 1
  <2>1. Clamped(rate) = Zero
    BY <1>6, ClampedRate
  <2>2. sum = Whole(1)
    BY <1>2, <2>1, NothingAccepted
  <2>3. AtMost(t, Whole(1))
    BY <1>1, <2>2, OrderLaws
  <2>4. Round(t) \in 1 .. 1
    BY <1>1, <2>3, RoundBetween
  <2> QED
    BY <1>5, <2>4
<1>7. ASSUME rate = Whole(1), k * h <= ClampDen PROVE a = h
  <2>1. Clamped(rate) = Frac(ClampDen - 1, ClampDen)
    BY <1>7, ClampedRate
  <2>2. h * (h - 1) <= ClampDen
    BY <1>2, <1>7
  <2>3. AtMost(Frac(2 * h - 1, 2), sum)
    <3> DEFINE q == h
    <3>1. q \in Nat \ {0} /\ q * (q - 1) <= ClampDen
      BY <1>2, <2>2
    <3>2. sum = SumOf([i \in 1 .. q |-> Power(Frac(ClampDen - 1, ClampDen), i - 1)])
      BY <2>1
    <3> HIDE DEF q, sum
    <3>3. AtMost(Frac(2 * q - 1, 2), sum)
      BY <3>1, <3>2, NearlyAll, ClampAssumption
    <3> QED
      BY <3>3 DEF q
  <2>4. Round(t) = h
    <3> HIDE DEF h, sum
    <3> QED
      BY <1>1, <1>2, <2>3, RoundBetween
  <2> QED
    BY <1>5, <2>4
<1> QED
  BY <1>1, <1>5, <1>6, <1>7 DEF t

\* Without speculation a step advances by a token.
LEMMA PlainAdvance == Greatest(Round(Whole(1)), 1) = 1
<1>1. Whole(1) \in LowestTerms /\ AtMost(Whole(1), Whole(1))
  BY WholeLaws
<1>2. Round(Whole(1)) \in 1 .. 1
  BY <1>1, RoundBetween
<1> QED
  BY <1>2 DEF Greatest

\* The tokens of a step, on any set-up.
LEMMA AdvanceHolds ==
  ASSUME setup # None => WellSetUp(setup)
  PROVE  /\ AdvanceIsExpected
         /\ IsSetUp => Advance \in Nat \ {0}
<1> SUFFICES ASSUME IsSetUp PROVE AdvanceIsExpected /\ Advance \in Nat \ {0}
  BY DEF AdvanceIsExpected
<1>1. Speculates(setup.spec) /\ Speculates(setup.mtp)
  BY DEF IsSetUp, WellSetUp
<1> DEFINE s == IF setup.spec # None THEN setup.spec ELSE setup.mtp
<1>2. CASE s = None
  <2>1. Advance = 1
    BY <1>2, PlainAdvance DEF Advance, StepAdvance
  <2> QED
    BY <1>2, <2>1 DEF AdvanceIsExpected
<1>3. CASE s # None
  <2>1. s.k \in Nat \ {0} /\ s.acceptance_rate \in LowestTerms
    BY <1>1, <1>3 DEF Speculates
  <2>2. Advance = Greatest(Round(TokensPerStep(s.k, s.acceptance_rate)), 1)
    BY <1>3 DEF Advance, StepAdvance
  <2>3. /\ TokensPerStep(s.k, s.acceptance_rate)
             = SumOf([i \in 1 .. s.k + 1 |-> Power(Clamped(s.acceptance_rate), i - 1)])
        /\ Advance \in 1 .. s.k + 1
        /\ s.acceptance_rate = Zero => Advance = 1
        /\ s.acceptance_rate = Whole(1) /\ s.k * (s.k + 1) <= ClampDen => Advance = s.k + 1
    <3> HIDE DEF s
    <3> QED
      BY <2>1, <2>2, SpeculativeAdvance
  <2>4. Advance \in Nat \ {0}
    BY <2>1, <2>3
  <2> QED
    BY <1>3, <2>3, <2>4 DEF AdvanceIsExpected
<1> QED
  BY <1>2, <1>3

-----------------------------------------------------------------------------
(* The invariant *)

PricedInv ==
  /\ TableInv
  /\ kv_lens \in Seq(Nat)
  /\ setup # None => WellSetUp(setup) /\ phase = "loaded"

\* The invariant holds at first ...
LEMMA PricedInvInit == PricedInit => PricedInv
BY TableInvInit DEF PricedInit, PricedInv

\* The table is loaded as if on its own.
LEMMA TableStep ==
  ASSUME TableInv, [Next]_vars
  PROVE  TableInv'
<1>1. CASE ReadRow
  BY <1>1, ReadRowKeeps
<1>2. CASE Finish
  BY <1>2, FinishKeeps
<1>3. CASE UNCHANGED vars
  BY <1>3 DEF vars, TableInv, BindsLast, Groups, SortedGroups
<1> QED
  BY <1>1, <1>2, <1>3 DEF Next

\* The contexts of a batch without one of its requests.
LEMMA RemovedShape ==
  ASSUME NEW q \in Seq(Nat), NEW i \in DOMAIN q
  PROVE  RemoveAt(q, i) \in Seq(Nat)
<1>1. i \in 1 .. Len(q) /\ Len(q) \in Nat
  OBVIOUS
<1>2. SubSeq(q, 1, i - 1) \in Seq(Nat)
  BY <1>1
<1>3. SubSeq(q, i + 1, Len(q)) \in Seq(Nat)
  BY <1>1
<1> QED
  BY <1>2, <1>3 DEF RemoveAt

\* ... and every step keeps it.
LEMMA PricedInvStep ==
  ASSUME PricedInv, [PricedNext]_<<vars, priced>>
  PROVE  PricedInv'
<1>1. TableInv' /\ (phase = "loaded" => phase' = "loaded")
  <2>1. [Next]_vars
    BY DEF PricedNext, LoadTable, RunOnce, Join, DecodeStep, LeaveBatch
  <2>2. phase = "loaded" => phase' = "loaded"
    BY <2>1 DEF Next, ReadRow, Finish, vars
  <2> QED
    BY <2>1, <2>2, TableStep DEF PricedInv
<1>2. kv_lens' \in Seq(Nat) /\ (setup' # None => WellSetUp(setup') /\ phase' = "loaded")
  <2>1. CASE LoadTable \/ UNCHANGED <<vars, priced>>
    BY <1>1, <2>1 DEF LoadTable, priced, PricedInv
  <2>2. CASE RunOnce
    BY <1>1, <2>2, SetUpTypes DEF RunOnce, PricedInv, vars
  <2>3. CASE Join
    <3>1. \A prompt \in Prompts : prompt \in Nat
      BY PricingAssumption
    <3>2. kv_lens' \in Seq(Nat)
      BY <2>3, <3>1 DEF Join, PricedInv
    <3> QED
      BY <1>1, <2>3, <3>2 DEF Join, PricedInv
  <2>4. CASE DecodeStep
    <3>1. Advance \in Nat
      BY <2>4, AdvanceHolds DEF DecodeStep, PricedInv, IsSetUp
    <3>2. kv_lens' = [i \in 1 .. Len(kv_lens) |-> kv_lens[i] + Advance]
      BY <2>4 DEF DecodeStep, PricedInv
    <3>3. kv_lens' \in [1 .. Len(kv_lens) -> Nat] /\ Len(kv_lens) \in Nat
      BY <3>1, <3>2 DEF PricedInv
    <3>4. kv_lens' \in Seq(Nat)
      BY <3>3, SequenceShape
    <3> QED
      BY <1>1, <2>4, <3>4 DEF DecodeStep, PricedInv
  <2>5. CASE LeaveBatch
    <3>1. kv_lens' \in Seq(Nat)
      BY <2>5, RemovedShape DEF LeaveBatch, PricedInv
    <3> QED
      BY <1>1, <2>5, <3>1 DEF LeaveBatch, PricedInv
  <2> QED
    BY <2>1, <2>2, <2>3, <2>4, <2>5 DEF PricedNext
<1> QED
  BY <1>1, <1>2 DEF PricedInv

\* A set-up is made of a command line, and its table stays loaded.
THEOREM PricedInvAlways == PricedSpec => []PricedInv
<1>1. PricedInv /\ [PricedNext]_<<vars, priced>> => PricedInv'
  BY PricedInvStep
<1> QED
  BY PricedInvInit, <1>1, PTL DEF PricedSpec

\* What speculation advances by is what it is expected to accept (SpecConfig,
\* MtpConfig, handle_batch_decode_step).
THEOREM AdvanceExpected == PricedSpec => []AdvanceIsExpected
<1>1. PricedInv => AdvanceIsExpected
  BY AdvanceHolds DEF PricedInv
<1> QED
  BY PricedInvAlways, <1>1, PTL

-----------------------------------------------------------------------------
(* The pool of blocks *)

\* Blocks of whole bytes that fit into four fifths of what the weights leave.
LEMMA PoolFits ==
  ASSUME NEW n \in Nat \ {0}, NEW W \in Nat, NEW cap \in Nat, W + 5 * n <= n * cap,
         NEW block \in Nat \ {0}, W \div n < cap,
         NEW blocks, blocks = Floor(Over(Times(Whole(n), Frac(4 * (cap - W \div n), 5)),
                                         Whole(block)))
  PROVE  blocks \in Nat /\ W + blocks * block <= n * cap
<1> DEFINE w == W \div n
<1>1. w \in Nat /\ w * n <= W /\ W < (w + 1) * n
  BY DivHolds
<1> HIDE DEF w
<1> DEFINE free == cap - w
<1>2. free \in Nat /\ 4 * free \in Nat /\ w + free = cap
  BY <1>1 DEF w
<1>3. blocks = Floor(Over(Times(Whole(n), Frac(4 * free, 5)), Whole(block)))
  BY DEF w
<1> HIDE DEF free
<1>4. Times(Whole(n), Frac(4 * free, 5)) = Frac(n * (4 * free), 5)
  <2> DEFINE x == 4 * free
  <2>1. x \in Nat
    BY <1>2
  <2> HIDE DEF x
  <2>2. Times(Whole(n), Frac(x, 5)) = Frac(n * x, 5)
    BY <2>1, FracLaws
  <2> QED
    BY <2>2 DEF x
<1> DEFINE y == n * (4 * free)
<1>5. y \in Nat
  BY <1>2
<1>6. blocks = Floor(Frac(y, 5 * block))
  <2> HIDE DEF y
  <2>1. Whole(block) = Frac(block, 1)
    BY WholeIsFrac
  <2>2. Over(Frac(y, 5), Frac(block, 1)) = Frac(y * 1, 5 * block)
    BY <1>5, FracOver
  <2>3. y * 1 = y
    BY <1>5
  <2> QED
    BY <1>3, <1>4, <2>1, <2>2, <2>3 DEF y
<1>7. blocks \in Nat /\ blocks * (5 * block) <= y
  <2> DEFINE z == 5 * block
  <2>1. z \in Nat \ {0}
    OBVIOUS
  <2> HIDE DEF y, z
  <2>2. Floor(Frac(y, z)) \in Nat /\ Floor(Frac(y, z)) * z <= y
    BY <1>5, <2>1, RoundedFrac
  <2> QED
    BY <1>6, <2>2 DEF z
<1>8. W + blocks * block <= n * cap
  <2> DEFINE B == blocks * block
             p == n * w
             q == n * free
  <2>1. B \in Nat /\ p \in Nat /\ q \in Nat
    BY <1>1, <1>2, <1>7
  <2>2. n * cap = p + q
    BY <1>1, <1>2
  <2>3. 5 * B <= 4 * q
    <3>1. blocks * (5 * block) = 5 * B
      BY <1>7
    <3>2. y = 4 * q
      BY <1>2
    <3> QED
      BY <1>7, <3>1, <3>2
  <2>4. p <= W /\ W < p + n
    BY <1>1
  <2>5. W + 5 * n <= p + q
    BY <2>2
  <2>6. q >= 5 * n
    <3>1. w * n + 5 * n <= n * cap
      BY <1>1, <2>1, <2>4, <2>5, <2>2
    <3> QED
      BY <2>1, <2>4, <2>5
  <2> HIDE DEF B, p, q
  <2>7. W + B <= p + q
    BY <2>1, <2>3, <2>4, <2>6
  <2> QED
    BY <2>2, <2>7 DEF B
<1> QED
  BY <1>7, <1>8

\* So many tokens take so many times the bytes of one, if these are whole.
LEMMA WholeKvBytes ==
  ASSUME NEW m \in LlmConfigs, (KvEntries(m) * EffectiveKvBits(m)) % 8 = 0, NEW n \in Nat
  PROVE  KvBytes(m, 1) \in Nat /\ KvBytes(m, n) = n * KvBytes(m, 1)
<1> DEFINE e == KvEntries(m)
           b == EffectiveKvBits(m)
           p == e * b
<1>1. e \in Nat /\ b \in Nat
  BY WidthTypes
<1> HIDE DEF e, b
<1>2. p \in Nat /\ p % 8 = 0
  BY <1>1 DEF e, b
<1>3. KvBytes(m, 1) = p \div 8
  <2>1. e * 1 * b = p
    BY <1>1
  <2> QED
    BY <2>1 DEF KvBytes, e, b
<1>4. KvBytes(m, n) = (n * p) \div 8
  <2>1. e * n * b = n * p
    BY <1>1
  <2> QED
    BY <2>1 DEF KvBytes, e, b
<1> HIDE DEF p
<1> DEFINE q == p \div 8
<1>5. q \in Nat /\ p = 8 * q
  BY <1>2
<1> HIDE DEF q
<1>6. n * p = 8 * (n * q) /\ n * q \in Nat
  BY <1>5
<1>7. (8 * (n * q)) \div 8 = n * q
  <2> DEFINE z == n * q
  <2> HIDE DEF z
  <2>1. z \in Nat => (8 * z) \div 8 = z
    OBVIOUS
  <2> QED
    BY <1>6, <2>1 DEF z
<1> QED
  BY <1>3, <1>4, <1>5, <1>6, <1>7 DEF q

\* The weights and the pool fit, on any set-up.
LEMMA PoolHolds ==
  ASSUME setup # None => WellSetUp(setup)
  PROVE  PoolFitsMemory
<1> DEFINE c == setup.cluster
           m == setup.model
           n == Greatest(c.tp * c.pp, 1)
           cap == setup.gpu.memory_capacity
           W == m.weight_bytes
           size == setup.block_size
           pool == AutoKvBlocks(setup.gpu, m, size, c.tp, c.pp)
<1> SUFFICES ASSUME IsSetUp, setup.kv_blocks = pool, pool > 64,
                    (KvEntries(m) * EffectiveKvBits(m)) % 8 = 0,
                    W + 5 * n <= n * cap
             PROVE  W + KvBytes(m, pool * size) <= n * cap
  BY DEF PoolFitsMemory
<1>1. /\ setup.gpu \in GpuSpecs /\ m \in LlmConfigs /\ c \in Clusters
      /\ setup.kv_blocks \in Nat /\ size \in Nat
  BY DEF IsSetUp, WellSetUp
<1>2. c.tp \in Nat /\ c.pp \in Nat /\ cap \in Nat /\ W \in Nat
  BY <1>1, ClusterFields, GpuFields, ModelFields
<1>3. n \in Nat \ {0}
  <2>1. c.tp * c.pp \in Nat
    BY <1>2
  <2> QED
    BY <2>1 DEF Greatest
<1>4. pool \in Nat
  BY <1>1, <1>2, PoolType
<1> DEFINE b == KvBytes(m, 1)
           block == Greatest(b * size, 1)
           w == W \div n
<1>5. w < cap
  <2> HIDE DEF n, cap, W
  <2>1. w * n <= W
    BY <1>2, <1>3, DivHolds
  <2>2. w \in Nat
    BY <1>2, <1>3, DivHolds
  <2>3. ~ (cap <= w)
    <3> SUFFICES ASSUME cap <= w PROVE FALSE
      OBVIOUS
    <3>1. cap * n <= w * n
      BY <1>2, <1>3, <2>2, ProductGrows
    <3>2. cap * n = n * cap /\ cap * n \in Nat /\ w * n \in Nat
      BY <1>2, <1>3, <2>2
    <3> DEFINE x == cap * n
               y == w * n
    <3> HIDE DEF x, y
    <3>3. x \in Nat /\ y \in Nat /\ y <= W /\ W + 5 * n <= x /\ x <= y
      BY <2>1, <3>1, <3>2 DEF x, y
    <3> QED
      BY <1>2, <1>3, <3>3
  <2> QED
    BY <1>2, <2>2, <2>3
<1>6. pool = Floor(Over(Times(Whole(n), Frac(4 * (cap - w), 5)), Whole(block)))
  BY <1>4, <1>5 DEF AutoKvBlocks, Greatest
<1>7. b \in Nat /\ KvBytes(m, pool * size) = (pool * size) * b
  <2>1. pool * size \in Nat
    BY <1>1, <1>4
  <2> HIDE DEF pool, size, m
  <2> QED
    BY <1>1, <2>1, WholeKvBytes DEF m
<1>8. block \in Nat \ {0} /\ b * size \in Nat
  <2>1. b * size \in Nat
    BY <1>1, <1>7
  <2> QED
    BY <2>1 DEF Greatest
<1>9. W + pool * block <= n * cap
  <2> HIDE DEF n, W, cap, block, pool
  <2> QED
    BY <1>2, <1>3, <1>5, <1>6, <1>8, PoolFits
<1>10. (pool * size) * b <= pool * block
  <2>1. b * size <= block
    BY <1>8 DEF Greatest
  <2> HIDE DEF pool, b, size, block
  <2>2. (b * size) * pool <= block * pool
    BY <1>4, <1>8, <2>1, ProductGrows
  <2>3. (pool * size) * b = (b * size) * pool /\ block * pool = pool * block
    BY <1>1, <1>4, <1>7, <1>8 DEF size
  <2> QED
    BY <2>2, <2>3
<1>11. (pool * size) * b \in Nat /\ pool * block \in Nat /\ n * cap \in Nat
  BY <1>1, <1>2, <1>3, <1>4, <1>7, <1>8
<1> DEFINE x == (pool * size) * b
           y == pool * block
           z == n * cap
<1> HIDE DEF x, y, z, W
<1>12. W + x <= z
  BY <1>2, <1>9, <1>10, <1>11 DEF x, y, z
<1> QED
  BY <1>7, <1>12 DEF x, z, W

\* The weights and the pool made for them fit together (auto_kv_blocks).
THEOREM PoolAndWeightsFit == PricedSpec => []PoolFitsMemory
<1>1. PricedInv => PoolFitsMemory
  BY PoolHolds DEF PricedInv
<1> QED
  BY PricedInvAlways, <1>1, PTL

-----------------------------------------------------------------------------
(* One large node *)

OneNode(c) == [c EXCEPT !.scale_out_bw = 0]

\* It differs in its scale-out network only.
LEMMA OneNodeIs ==
  ASSUME NEW c \in Clusters
  PROVE  /\ OneNode(c) \in Clusters
         /\ OneNode(c).tp = c.tp /\ OneNode(c).pp = c.pp /\ OneNode(c).ep = c.ep
         /\ OneNode(c).scale_up_bw = c.scale_up_bw
         /\ OneNode(c).scale_up_latency = c.scale_up_latency
         /\ \A degree : ~ SpansScaleOut(OneNode(c), degree)
<1>1. OneNode(c).scale_out_bw = 0
  BY DEF OneNode, Clusters
<1>2. \A degree : ~ SpansScaleOut(OneNode(c), degree)
  BY <1>1 DEF SpansScaleOut
<1> QED
  BY <1>2 DEF OneNode, Clusters

\* The mean of boundaries of which some are slower.
LEMMA MeanAtLeast ==
  ASSUME NEW p \in Nat \ {0}, NEW x \in Nat, x <= p,
         NEW a \in LowestTerms, NEW b \in LowestTerms, AtMost(a, b)
  PROVE  AtMost(a, Over(Plus(Times(Whole(p - x), a), Times(Whole(x), b)), Whole(p)))
<1> DEFINE y == p - x
<1>1. y \in Nat /\ y + x = p
  OBVIOUS
<1> HIDE DEF y
<1>2. Whole(y) \in LowestTerms /\ Whole(x) \in LowestTerms /\ Whole(p) \in LowestTerms
      /\ Whole(p) # Zero /\ Plus(Whole(y), Whole(x)) = Whole(p)
  BY <1>1, WholeLaws
<1>3. AtMost(Times(Whole(x), a), Times(Whole(x), b))
  BY <1>2, OrderLaws, TimesGrows
<1>4. /\ Times(Whole(y), a) \in LowestTerms /\ Times(Whole(x), a) \in LowestTerms
      /\ Times(Whole(x), b) \in LowestTerms /\ Times(Whole(p), a) \in LowestTerms
  BY <1>2, TimesLaws
<1>5. Plus(Times(Whole(y), a), Times(Whole(x), a)) = Times(Whole(p), a)
  <2>1. Times(a, Plus(Whole(y), Whole(x))) = Plus(Times(a, Whole(y)), Times(a, Whole(x)))
    BY <1>2, TimesLaws
  <2>2. /\ Times(a, Whole(y)) = Times(Whole(y), a) /\ Times(a, Whole(x)) = Times(Whole(x), a)
        /\ Times(a, Whole(p)) = Times(Whole(p), a)
    BY <1>2, TimesLaws
  <2> QED
    BY <1>2, <2>1, <2>2
<1> DEFINE s == Plus(Times(Whole(y), a), Times(Whole(x), b))
<1>6. s \in LowestTerms /\ AtMost(Times(Whole(p), a), s)
  BY <1>3, <1>4, <1>5, PlusGrows, OrderLaws, PlusLaws
<1> HIDE DEF s
<1>7. AtMost(Over(Times(Whole(p), a), Whole(p)), Over(s, Whole(p)))
  BY <1>2, <1>4, <1>6, OverGrows
<1>8. Over(Times(Whole(p), a), Whole(p)) = a
  <2> DEFINE r == Reciprocal(Whole(p))
  <2>1. r \in LowestTerms /\ Over(Times(Whole(p), a), Whole(p)) = Times(Times(Whole(p), a), r)
        /\ Times(Whole(p), r) = Whole(1)
    BY <1>2, <1>4, OverLaws
  <2> HIDE DEF r
  <2>2. Times(Whole(p), a) = Times(a, Whole(p))
    BY <1>2, TimesLaws
  <2>3. Times(Times(a, Whole(p)), r) = Times(a, Times(Whole(p), r))
    BY <1>2, <2>1, TimesLaws
  <2>4. Times(a, Whole(1)) = a
    <3>1. Whole(1) \in LowestTerms
      BY WholeLaws
    <3> QED
      BY <3>1, TimesLaws
  <2> QED
    BY <2>1, <2>2, <2>3, <2>4
<1> QED
  BY <1>7, <1>8 DEF s, y

\* A hand-over within the one node is no slower (pp_transfer_latency) ...
LEMMA HandOverSpread ==
  ASSUME NEW c \in Clusters, c.scale_out_bw <= c.scale_up_bw,
         c.scale_up_latency <= c.scale_out_latency, NEW b \in Nat
  PROVE  AtMost(PpTransferLatency(OneNode(c), b, TRUE), PpTransferLatency(c, b, TRUE))
<1>0. {c.pp, c.scale_up_bw, c.scale_up_latency, c.scale_out_bw, c.scale_out_latency} \subseteq Nat
  BY ClusterFields
<1>1. CASE c.pp <= 1 \/ ~ SpansScaleOut(c, c.pp)
  <2>1. PpTransferLatency(OneNode(c), b, TRUE) = PpTransferLatency(c, b, TRUE)
    BY <1>1, OneNodeIs DEF PpTransferLatency
  <2>2. PpTransferLatency(c, b, TRUE) \in LowestTerms
    <3>1. 1 \in Nat \ {0} /\ b \in Nat /\ b <= 1 * b
      OBVIOUS
    <3> QED
      BY <3>1, PpBound
  <2> QED
    BY <2>1, <2>2, OrderLaws
<1>2. CASE c.pp > 1 /\ SpansScaleOut(c, c.pp)
  <2> DEFINE p == c.pp - 1
             x == CrossBoundaries(c)
             Up == Hop(b, c.scale_up_bw, c.scale_up_latency)
             Out == Hop(b, c.scale_out_bw, c.scale_out_latency)
  <2>1. c.scale_out_bw \in Nat \ {0} /\ c.scale_up_bw \in Nat \ {0}
    BY <1>0, <1>2 DEF SpansScaleOut
  <2>2. PpTransferLatency(OneNode(c), b, TRUE) = Up
    BY <1>0, <1>2, <2>1, OneNodeIs DEF PpTransferLatency
  <2>3. Greatest(c.scale_up_bw, 1) = c.scale_up_bw /\ Greatest(c.scale_out_bw, 1) = c.scale_out_bw
    BY <2>1 DEF Greatest
  <2>4. PpTransferLatency(c, b, TRUE)
          = Over(Plus(Times(Whole(p - x), Up), Times(Whole(x), Out)), Whole(p))
    BY <1>0, <1>2, <2>1, <2>3 DEF PpTransferLatency, MeanBoundary
  <2>5. Out \in LowestTerms /\ Up \in LowestTerms /\ AtMost(Up, Out)
    BY <1>0, <2>1, HopGrows
  <2>6. x \in Nat /\ p \in Nat \ {0} /\ x <= p
    BY <1>0, <1>2, Boundaries
  <2> HIDE DEF p, x, Up, Out
  <2> QED
    BY <2>2, <2>4, <2>5, <2>6, MeanAtLeast
<1>3. c.pp <= 1 \/ c.pp > 1
  <2>1. c.pp \in Nat
    BY <1>0
  <2> QED
    BY <2>1
<1> QED
  BY <1>1, <1>2, <1>3

\* ... nor is an exchange (ep_all_to_all_latency).
LEMMA ExchangeSpread ==
  ASSUME NEW c \in Clusters, c.scale_out_bw <= c.scale_up_bw,
         c.scale_up_latency <= c.scale_out_latency, NEW b \in Nat
  PROVE  AtMost(EpByMessage(OneNode(c), b), EpByMessage(c, b))
<1>0. {c.ep, c.scale_up_bw, c.scale_up_latency, c.scale_out_bw, c.scale_out_latency} \subseteq Nat
  BY ClusterFields
<1>1. CASE c.ep <= 1 \/ c.scale_up_bw = 0 \/ ~ SpansScaleOut(c, c.ep)
  <2>1. EpByMessage(OneNode(c), b) = EpByMessage(c, b)
    BY <1>1, OneNodeIs DEF EpByMessage
  <2>2. EpByMessage(c, b) \in LowestTerms
    <3>1. b <= 1 * b
      OBVIOUS
    <3> QED
      BY <3>1, EpBound
  <2> QED
    BY <2>1, <2>2, OrderLaws
<1>2. CASE c.ep > 1 /\ c.scale_up_bw # 0 /\ SpansScaleOut(c, c.ep)
  <2> DEFINE l == Least(NodeSize(c), c.ep)
             u == b * (l - 1)
             v == b * (c.ep - l)
             up == c.ep * c.scale_up_bw
             out == c.ep * c.scale_out_bw
             L == c.scale_up_latency
  <2>1. c.scale_out_bw \in Nat \ {0} /\ c.scale_up_bw \in Nat \ {0} /\ c.ep \in Nat \ {0}
    BY <1>0, <1>2 DEF SpansScaleOut
  <2>2. l \in Nat \ {0} /\ l <= c.ep
    BY <2>1, NodeSizeType DEF Least
  <2>3. up \in Nat \ {0} /\ out \in Nat \ {0} /\ out <= up
    <3>1. c.scale_out_bw * c.ep <= c.scale_up_bw * c.ep
      BY <2>1, ProductGrows
    <3> QED
      BY <2>1, <3>1, SMT
  <2>4. u \in Nat /\ v \in Nat /\ u + v = b * (c.ep - 1)
    <3> HIDE DEF l
    <3>1. l - 1 \in Nat /\ c.ep - l \in Nat
      BY <2>1, <2>2
    <3>2. u \in Nat /\ v \in Nat
      BY <3>1, SMT
    <3>3. b * (l - 1) + b * (c.ep - l) = b * (c.ep - 1)
      BY <2>1, <2>2, SMT
    <3> QED
      BY <3>2, <3>3
  <2>5. EpByMessage(OneNode(c), b) = Hop(b * (c.ep - 1), up, L)
    BY <1>0, <1>2, OneNodeIs DEF EpByMessage
  <2>6. EpByMessage(c, b) = Plus(Hop(u, up, L), Hop(v, out, c.scale_out_latency))
    BY <1>0, <1>2 DEF EpByMessage, SpreadLatency
  <2> HIDE DEF u, v, up, out, L
  <2>7. L \in Nat
    BY <1>0 DEF L
  <2>8. AtMost(Frac(v, up), Hop(v, out, c.scale_out_latency))
        /\ Hop(v, out, c.scale_out_latency) \in LowestTerms
        /\ Frac(v, up) \in LowestTerms
    <3>1. Frac(v, up) \in LowestTerms /\ Frac(v, out) \in LowestTerms
      BY <2>3, <2>4, FracType
    <3>2. AtMost(Frac(v, up), Frac(v, out))
      BY <2>3, <2>4, FracGrows
    <3>3. Whole(c.scale_out_latency) \in LowestTerms
      BY <1>0, WholeLaws
    <3>4. /\ Plus(Whole(c.scale_out_latency), Frac(v, out)) \in LowestTerms
          /\ AtMost(Frac(v, out), Plus(Whole(c.scale_out_latency), Frac(v, out)))
      BY <3>1, <3>3, PlusMore
    <3> QED
      BY <3>1, <3>2, <3>4, OrderLaws DEF Hop
  <2>9. Hop(u, up, L) \in LowestTerms
    <3>1. Whole(L) \in LowestTerms /\ Frac(u, up) \in LowestTerms
      BY <2>3, <2>4, <2>7, WholeLaws, FracType
    <3> QED
      BY <3>1, PlusLaws DEF Hop
  <2>10. Hop(u + v, up, L) = Plus(Hop(u, up, L), Frac(v, up))
    <3>1. Plus(Frac(u, up), Frac(v, up)) = Frac(u + v, up)
      BY <2>3, <2>4, FracLaws
    <3>2. Whole(L) \in LowestTerms /\ Frac(u, up) \in LowestTerms
      BY <2>3, <2>4, <2>7, WholeLaws, FracType
    <3>3. Plus(Plus(Whole(L), Frac(u, up)), Frac(v, up))
            = Plus(Whole(L), Plus(Frac(u, up), Frac(v, up)))
      BY <2>8, <3>2, PlusLaws
    <3> QED
      BY <3>1, <3>3 DEF Hop
  <2>11. AtMost(Plus(Hop(u, up, L), Frac(v, up)),
                Plus(Hop(u, up, L), Hop(v, out, c.scale_out_latency)))
    BY <2>8, <2>9, OrderLaws, PlusGrows
  <2> QED
    BY <2>4, <2>5, <2>6, <2>10, <2>11
<1> QED
  BY <1>0, <1>1, <1>2

-----------------------------------------------------------------------------
(* Rings within and over nodes *)

\* A ring waits for every hop, and passes the message on but for a part.
LEMMA RingParts ==
  ASSUME NEW k \in Nat \ {0}, NEW b \in Nat, NEW bw \in Nat \ {0}, NEW L \in Nat
  PROVE  /\ (2 * (k - 1)) * L \in Nat /\ (2 * (k - 1)) * b \in Nat /\ k * bw \in Nat \ {0}
         /\ RingLatency(k, b, bw, L)
              = Plus(Whole((2 * (k - 1)) * L), Frac((2 * (k - 1)) * b, k * bw))
<1> DEFINE h == 2 * (k - 1)
           d == k * bw
<1>1. h \in Nat /\ d \in Nat \ {0} /\ h * L \in Nat /\ h * b \in Nat
  <2>1. h \in Nat
    OBVIOUS
  <2>2. d \in Nat \ {0}
    BY SMT
  <2> HIDE DEF h
  <2>3. h * L \in Nat /\ h * b \in Nat
    BY <2>1
  <2> QED
    BY <2>1, <2>2, <2>3
<1>2. RingLatency(k, b, bw, L) = Times(Whole(h), Plus(Whole(L), Frac(b, d)))
  <2>1. CASE k = 1
    <3>1. Whole(h) = Zero
      BY <2>1 DEF Zero
    <3>2. Whole(L) \in LowestTerms /\ Frac(b, d) \in LowestTerms
      BY <1>1, WholeLaws, FracType
    <3>3. Plus(Whole(L), Frac(b, d)) \in LowestTerms
      BY <3>2, PlusLaws
    <3>4. Times(Zero, Plus(Whole(L), Frac(b, d))) = Zero
      BY <3>3, TimesLaws
    <3> QED
      BY <2>1, <3>1, <3>4 DEF RingLatency
  <2>2. CASE k # 1
    <3>1. k > 1 /\ bw # 0
      BY <2>2
    <3> QED
      BY <3>1 DEF RingLatency, Hop
  <2> QED
    BY <2>1, <2>2
<1> HIDE DEF h, d
<1>3. Whole(h) \in LowestTerms /\ Whole(L) \in LowestTerms /\ Frac(b, d) \in LowestTerms
  BY <1>1, WholeLaws, FracType
<1>4. Times(Whole(h), Plus(Whole(L), Frac(b, d)))
        = Plus(Times(Whole(h), Whole(L)), Times(Whole(h), Frac(b, d)))
  BY <1>3, TimesLaws
<1>5. Times(Whole(h), Whole(L)) = Whole(h * L) /\ Times(Whole(h), Frac(b, d)) = Frac(h * b, d)
  BY <1>1, WholeLaws, FracLaws
<1> QED
  BY <1>1, <1>2, <1>4, <1>5 DEF h, d

\* A ring over slower links.
LEMMA RingGrows ==
  ASSUME NEW k \in Nat \ {0}, NEW b \in Nat, NEW bw \in Nat \ {0}, NEW faster \in Nat \ {0},
         bw <= faster, NEW L \in Nat, NEW sooner \in Nat, sooner <= L
  PROVE  /\ RingLatency(k, b, bw, L) \in LowestTerms
         /\ RingLatency(k, b, faster, sooner) \in LowestTerms
         /\ AtMost(RingLatency(k, b, faster, sooner), RingLatency(k, b, bw, L))
<1> DEFINE h == 2 * (k - 1)
           d == k * bw
           e == k * faster
<1>1. /\ h * L \in Nat /\ h * b \in Nat /\ d \in Nat \ {0}
      /\ RingLatency(k, b, bw, L) = Plus(Whole(h * L), Frac(h * b, d))
  BY RingParts
<1>2. /\ h * sooner \in Nat /\ e \in Nat \ {0}
      /\ RingLatency(k, b, faster, sooner) = Plus(Whole(h * sooner), Frac(h * b, e))
  BY RingParts
<1>3. h \in Nat
  OBVIOUS
<1>4. d <= e
  <2>1. bw * k <= faster * k
    BY ProductGrows
  <2> QED
    BY <2>1, SMT
<1> HIDE DEF h, d, e
<1>5. h * sooner <= h * L
  <2>1. sooner * h <= L * h
    BY <1>3, ProductGrows
  <2> QED
    BY <1>3, <2>1, SMT
<1> DEFINE x == h * sooner
           y == h * L
           z == h * b
<1> HIDE DEF x, y, z
<1>6. x \in Nat /\ y \in Nat /\ z \in Nat /\ x <= y
  BY <1>1, <1>2, <1>5 DEF x, y, z
<1>7. AtMost(Whole(x), Whole(y)) /\ Whole(x) \in LowestTerms /\ Whole(y) \in LowestTerms
  BY <1>6, WholeLaws
<1>8. AtMost(Frac(z, e), Frac(z, d)) /\ Frac(z, e) \in LowestTerms /\ Frac(z, d) \in LowestTerms
  BY <1>1, <1>2, <1>4, <1>6, FracGrows, FracType
<1>9. /\ Plus(Whole(x), Frac(z, e)) \in LowestTerms /\ Plus(Whole(y), Frac(z, d)) \in LowestTerms
      /\ AtMost(Plus(Whole(x), Frac(z, e)), Plus(Whole(y), Frac(z, d)))
  BY <1>7, <1>8, PlusGrows, PlusLaws
<1> QED
  BY <1>1, <1>2, <1>9 DEF x, y, z

\* On links of one speed: twice within a node of two GPUs or more passes on
\* more of a message than once around all of them, and waits for as many hops if
\* there are two nodes.
LEMMA TwoRingsWithin ==
  ASSUME NEW l \in Nat, l >= 2, NEW n \in Nat, n >= 2, NEW t \in Nat \ {0},
         NEW b \in Nat, NEW bw \in Nat \ {0}, NEW L \in Nat,
         L = 0 \/ (t <= 2 * l)
  PROVE  AtMost(RingLatency(t, b, bw, L),
                Plus(Times(Whole(2), RingLatency(l, b, bw, L)), RingLatency(n, b, bw, L)))
<1> DEFINE Hops(k) == 2 * (k - 1)
           Wait(k) == Hops(k) * L
           Pass(k) == Hops(k) * b
           Width(k) == k * bw
<1>1. \A k \in Nat \ {0} :
        /\ Wait(k) \in Nat /\ Pass(k) \in Nat /\ Width(k) \in Nat \ {0}
        /\ RingLatency(k, b, bw, L) = Plus(Whole(Wait(k)), Frac(Pass(k), Width(k)))
  BY RingParts
<1>2. l \in Nat \ {0} /\ n \in Nat \ {0} /\ Hops(t) \in Nat /\ Hops(l) \in Nat
      /\ Hops(n) \in Nat
  OBVIOUS
<1>3. Wait(t) <= 2 * Wait(l) + Wait(n)
  <2>1. CASE L = 0
    <3>1. Wait(t) = 0 /\ Wait(l) = 0 /\ Wait(n) = 0
      BY <1>2, <2>1
    <3> QED
      BY <3>1
  <2>2. CASE t <= 2 * l
    <3> DEFINE x == Hops(t)
               y == Hops(l)
               z == Hops(n)
    <3>1. x <= 2 * y + z /\ x \in Nat /\ y \in Nat /\ z \in Nat
      BY <1>2, <2>2
    <3> HIDE DEF x, y, z
    <3>2. 2 * y + z \in Nat
      BY <3>1
    <3>3. x * L <= (2 * y + z) * L
      BY <3>1, <3>2, ProductGrows
    <3>4. (2 * y + z) * L = 2 * (y * L) + z * L
      BY <3>1, SMT
    <3> QED
      BY <3>3, <3>4 DEF x, y, z
  <2> QED
    BY <2>1, <2>2
<1>4. AtMost(Frac(Pass(t), Width(t)), Frac(2 * Pass(l), Width(l)))
  <2> DEFINE w == 2 * b
  <2>1. w \in Nat
    OBVIOUS
  <2>2. AtMost(Frac(Pass(t), Width(t)), Frac(w, bw))
    <3> DEFINE u == t - 1
    <3>1. u \in Nat /\ u <= t
      OBVIOUS
    <3>2. Pass(t) = u * w
      BY <3>1, SMT
    <3>3. Frac(w * t, bw * t) = Frac(w, bw)
      BY <2>1, FracScaled
    <3>4. bw * t = Width(t)
      OBVIOUS
    <3> HIDE DEF w, u
    <3>5. u * w <= t * w /\ u * w \in Nat /\ t * w \in Nat /\ t * w = w * t
      <4>1. u * w <= t * w
        BY <2>1, <3>1, ProductGrows
      <4> QED
        BY <2>1, <3>1, <4>1
    <3> DEFINE x == u * w
               y == w * t
               z == Width(t)
    <3>6. x \in Nat /\ y \in Nat /\ x <= y /\ z \in Nat \ {0}
      BY <1>1, <3>5
    <3> HIDE DEF x, y, z
    <3>7. AtMost(Frac(x, z), Frac(y, z))
      BY <3>6, FracLaws
    <3> QED
      BY <3>2, <3>3, <3>4, <3>7 DEF x, y, z
  <2>3. AtMost(Frac(w, bw), Frac(2 * Pass(l), Width(l)))
    <3> DEFINE v == 2 * (l - 1)
    <3>1. v \in Nat /\ l <= v
      OBVIOUS
    <3>2. 2 * Pass(l) = v * w
      BY SMT
    <3>3. Frac(w * l, bw * l) = Frac(w, bw)
      BY <1>2, <2>1, FracScaled
    <3>4. bw * l = Width(l)
      OBVIOUS
    <3> HIDE DEF w, v
    <3>5. l * w <= v * w /\ v * w \in Nat /\ l * w \in Nat /\ l * w = w * l
      <4>1. l * w <= v * w
        BY <2>1, <3>1, ProductGrows
      <4> QED
        BY <2>1, <3>1, <4>1
    <3> DEFINE x == v * w
               y == w * l
               z == Width(l)
    <3>6. x \in Nat /\ y \in Nat /\ y <= x /\ z \in Nat \ {0}
      BY <1>1, <1>2, <3>5
    <3> HIDE DEF x, y, z
    <3>7. AtMost(Frac(y, z), Frac(x, z))
      BY <3>6, FracLaws
    <3> QED
      BY <3>2, <3>3, <3>4, <3>7 DEF x, y, z
  <2>4. /\ Frac(Pass(t), Width(t)) \in LowestTerms
        /\ Frac(2 * Pass(l), Width(l)) \in LowestTerms /\ Frac(w, bw) \in LowestTerms
    <3>1. Pass(t) \in Nat /\ Width(t) \in Nat \ {0} /\ Pass(l) \in Nat
          /\ Width(l) \in Nat \ {0}
      BY <1>1, <1>2
    <3> HIDE DEF Pass, Width, w
    <3>2. 2 * Pass(l) \in Nat
      BY <3>1
    <3> QED
      BY <2>1, <3>1, <3>2, FracType
  <2> HIDE DEF w, Pass, Width
  <2> QED
    BY <2>2, <2>3, <2>4, OrderLaws
<1>5. /\ Wait(t) \in Nat /\ Wait(l) \in Nat /\ Wait(n) \in Nat
      /\ Pass(t) \in Nat /\ Pass(l) \in Nat /\ Pass(n) \in Nat
      /\ Width(t) \in Nat \ {0} /\ Width(l) \in Nat \ {0} /\ Width(n) \in Nat \ {0}
      /\ RingLatency(t, b, bw, L) = Plus(Whole(Wait(t)), Frac(Pass(t), Width(t)))
      /\ RingLatency(l, b, bw, L) = Plus(Whole(Wait(l)), Frac(Pass(l), Width(l)))
      /\ RingLatency(n, b, bw, L) = Plus(Whole(Wait(n)), Frac(Pass(n), Width(n)))
  BY <1>1, <1>2
<1> HIDE DEF Hops, Wait, Pass, Width
<1> DEFINE a == Whole(2 * Wait(l))
           f == Frac(2 * Pass(l), Width(l))
           c == Whole(Wait(n))
           g == Frac(Pass(n), Width(n))
<1>6. 2 * Wait(l) \in Nat /\ 2 * Pass(l) \in Nat
  BY <1>5
<1>7. a \in LowestTerms /\ f \in LowestTerms /\ c \in LowestTerms /\ g \in LowestTerms
  BY <1>5, <1>6, WholeLaws, FracType
<1>8. Times(Whole(2), RingLatency(l, b, bw, L)) = Plus(a, f)
  <2>1. Whole(2) \in LowestTerms /\ Whole(Wait(l)) \in LowestTerms
        /\ Frac(Pass(l), Width(l)) \in LowestTerms
    BY <1>5, WholeLaws, FracType
  <2>2. Times(Whole(2), Plus(Whole(Wait(l)), Frac(Pass(l), Width(l))))
          = Plus(Times(Whole(2), Whole(Wait(l))), Times(Whole(2), Frac(Pass(l), Width(l))))
    BY <2>1, TimesLaws
  <2>3. Times(Whole(2), Whole(Wait(l))) = a
    BY <1>5, WholeLaws
  <2>4. Times(Whole(2), Frac(Pass(l), Width(l))) = f
    <3> DEFINE x == Pass(l)
               y == Width(l)
    <3>1. x \in Nat /\ y \in Nat \ {0} /\ 2 \in Nat
      BY <1>5
    <3> HIDE DEF x, y
    <3>2. Times(Whole(2), Frac(x, y)) = Frac(2 * x, y)
      BY <3>1, FracLaws
    <3> QED
      BY <3>2 DEF x, y
  <2> QED
    BY <1>5, <2>2, <2>3, <2>4
<1>9. Plus(a, c) = Whole(2 * Wait(l) + Wait(n)) /\ Plus(a, c) \in LowestTerms
  BY <1>5, <1>6, <1>7, WholeLaws, PlusLaws
<1>10. AtMost(Whole(Wait(t)), Plus(a, c)) /\ Whole(Wait(t)) \in LowestTerms
  <2> DEFINE x == 2 * Wait(l) + Wait(n)
  <2>1. x \in Nat /\ Wait(t) <= x
    BY <1>3, <1>5
  <2> HIDE DEF x
  <2>2. AtMost(Whole(Wait(t)), Whole(x)) /\ Whole(Wait(t)) \in LowestTerms
    BY <1>5, <2>1, WholeLaws
  <2> QED
    BY <1>9, <2>2 DEF x
<1>11. Frac(Pass(t), Width(t)) \in LowestTerms
  BY <1>5, FracType
<1> HIDE DEF a, f, c, g
<1>12. AtMost(Frac(Pass(t), Width(t)), Plus(f, g)) /\ Plus(f, g) \in LowestTerms
  BY <1>4, <1>7, <1>11, PlusMore, OrderLaws DEF f
<1>13. Plus(Plus(a, c), Plus(f, g)) = Plus(Plus(a, f), Plus(c, g))
  <2>1. Plus(Plus(a, c), Plus(f, g)) = Plus(a, Plus(c, Plus(f, g)))
    BY <1>7, <1>12, PlusLaws
  <2>2. Plus(c, Plus(f, g)) = Plus(Plus(c, f), g) /\ Plus(c, f) = Plus(f, c)
        /\ Plus(Plus(f, c), g) = Plus(f, Plus(c, g)) /\ Plus(c, g) \in LowestTerms
    BY <1>7, PlusLaws
  <2>3. Plus(a, Plus(f, Plus(c, g))) = Plus(Plus(a, f), Plus(c, g))
    BY <1>7, <2>2, PlusLaws
  <2> QED
    BY <2>1, <2>2, <2>3
<1>14. AtMost(Plus(Whole(Wait(t)), Frac(Pass(t), Width(t))), Plus(Plus(a, c), Plus(f, g)))
  BY <1>9, <1>10, <1>11, <1>12, PlusGrows
<1> QED
  BY <1>5, <1>8, <1>13, <1>14 DEF c, g

\* The nodes that a group of GPUs fills.
LEMMA NodesInUse ==
  ASSUME NEW t \in Nat, NEW l \in Nat \ {0}, l < t
  PROVE  CeilDiv(t, l) \in Nat /\ CeilDiv(t, l) >= 2 /\ (l = 1 => CeilDiv(t, l) = t)
<1>1. CeilDiv(t, l) \in Nat /\ t <= CeilDiv(t, l) * l
  BY CeilDivHolds
<1> DEFINE n == CeilDiv(t, l)
<1>2. n \in Nat /\ t <= n * l
  BY <1>1
<1>3. l = 1 => n = t
  BY DEF CeilDiv
<1> HIDE DEF n
<1>4. n # 0 /\ n # 1
  <2>1. n = 0 => n * l = 0
    OBVIOUS
  <2>2. n = 1 => n * l = l
    OBVIOUS
  <2> QED
    BY <1>2, <2>1, <2>2
<1> QED
  BY <1>2, <1>3, <1>4 DEF n

\* An all-reduce within the one node is no slower (all_reduce_latency).
LEMMA ReduceSpread ==
  ASSUME NEW c \in Clusters, SlowerOutside(c), NEW b \in Nat
  PROVE  AtMost(AllReduceLatency(OneNode(c), b), AllReduceLatency(c, b))
<1>0. {c.tp, c.scale_up_bw, c.scale_up_latency, c.scale_out_bw, c.scale_out_latency} \subseteq Nat
  BY ClusterFields
<1>1. CASE c.tp <= 1 \/ c.scale_up_bw = 0 \/ ~ SpansScaleOut(c, c.tp)
  <2>1. AllReduceLatency(OneNode(c), b) = AllReduceLatency(c, b)
    BY <1>1, OneNodeIs DEF AllReduceLatency
  <2>2. AllReduceLatency(c, b) \in LowestTerms
    <3>1. 1 \in Nat \ {0} /\ b \in Nat /\ b <= 1 * b
      OBVIOUS
    <3> QED
      BY <3>1, AllReduceBound
  <2> QED
    BY <2>1, <2>2, OrderLaws
<1>2. CASE ~ (c.tp <= 1 \/ c.scale_up_bw = 0 \/ ~ SpansScaleOut(c, c.tp))
  <2> DEFINE l == NodeSize(c)
             t == c.tp
             n == CeilDiv(t, l)
             up == c.scale_up_bw
             out == c.scale_out_bw
             L == c.scale_up_latency
             M == c.scale_out_latency
  <2>1. /\ l \in Nat \ {0} /\ t \in Nat /\ l < t /\ t # 0
        /\ up \in Nat \ {0} /\ out \in Nat \ {0} /\ out <= up
        /\ L \in Nat /\ M \in Nat /\ L <= M
        /\ L = 0 \/ t <= 2 * l
    BY <1>0, <1>2, NodeSizeType DEF SlowerOutside, SpansScaleOut
  <2>2. AllReduceLatency(OneNode(c), b) = RingLatency(t, b, up, L)
    BY <1>2, OneNodeIs DEF AllReduceLatency
  <2>3. Least(NodeSize(c), c.tp) = l
    BY <2>1 DEF Least
  <2>4. AllReduceLatency(c, b)
          = Plus(Times(Whole(2), RingLatency(l, b, up, L)), RingLatency(n, b, out, M))
    BY <1>2, <2>3 DEF AllReduceLatency, HierarchicalReduce
  <2>5. n \in Nat /\ n >= 2 /\ (l = 1 => n = t)
    BY <2>1, NodesInUse
  <2> HIDE DEF l, t, n, up, out, L, M
  <2>6. /\ n \in Nat \ {0} /\ RingLatency(n, b, out, M) \in LowestTerms
        /\ RingLatency(n, b, up, L) \in LowestTerms
        /\ AtMost(RingLatency(n, b, up, L), RingLatency(n, b, out, M))
    <3>1. n \in Nat \ {0}
      BY <2>5
    <3> QED
      BY <2>1, <3>1, RingGrows
  <2>7. RingLatency(l, b, up, L) \in LowestTerms /\ RingLatency(t, b, up, L) \in LowestTerms
    <3>1. t \in Nat \ {0} /\ up <= up /\ L <= L
      BY <2>1
    <3> QED
      BY <2>1, <3>1, RingGrows
  <2>8. Times(Whole(2), RingLatency(l, b, up, L)) \in LowestTerms
    <3>1. Whole(2) \in LowestTerms
      BY WholeLaws
    <3> QED
      BY <2>7, <3>1, TimesLaws
  <2> DEFINE twice == Times(Whole(2), RingLatency(l, b, up, L))
             flat == RingLatency(t, b, up, L)
             across == RingLatency(n, b, up, L)
             slower == RingLatency(n, b, out, M)
  <2>9. AtMost(flat, Plus(twice, across))
    <3>1. CASE l = 1
      <4>1. flat = across
        BY <2>5, <3>1
      <4> HIDE DEF twice, flat, across
      <4> QED
        BY <2>6, <2>8, <4>1, PlusMore DEF twice, across
    <3>2. CASE l # 1
      <4>1. l \in Nat /\ l >= 2 /\ t \in Nat \ {0}
        BY <2>1, <3>2
      <4> QED
        BY <2>1, <2>5, <4>1, TwoRingsWithin
    <3> QED
      BY <3>1, <3>2
  <2> HIDE DEF twice, flat, across, slower
  <2>10. /\ twice \in LowestTerms /\ flat \in LowestTerms /\ across \in LowestTerms
         /\ slower \in LowestTerms /\ AtMost(across, slower)
    BY <2>6, <2>7, <2>8 DEF twice, flat, across, slower
  <2>11. /\ AtMost(Plus(twice, across), Plus(twice, slower))
         /\ Plus(twice, across) \in LowestTerms /\ Plus(twice, slower) \in LowestTerms
    BY <2>10, OrderLaws, PlusGrows, PlusLaws
  <2>12. AtMost(flat, Plus(twice, slower))
    BY <2>9, <2>10, <2>11, OrderLaws
  <2> QED
    BY <2>2, <2>4, <2>12 DEF flat, twice, slower
<1> QED
  BY <1>1, <1>2

-----------------------------------------------------------------------------
(* Latencies and prices *)

\* The work of a step and of a prefill, before anything is sent.
DecodeWork(gpu, batch, kv_len, m, c) ==
  RooflineDecode(gpu, batch, kv_len, m, Greatest(c.tp, 1), Greatest(c.pp, 1), c.ep)
PrefillWork(gpu, batch, seq_len, m, c) ==
  RooflinePrefill(gpu, batch, seq_len, m, Greatest(c.tp, 1), c.ep)

\* The sizes of groups that latencies divide by.
LEMMA GroupTypes ==
  ASSUME NEW c \in Clusters
  PROVE  Greatest(c.tp, 1) \in Nat \ {0} /\ Greatest(c.pp, 1) \in Nat \ {0} /\ c.ep \in Nat
BY ClusterFields DEF Greatest

\* A step is its work in a pipeline.
LEMMA DecodeWorkType ==
  ASSUME NEW gpu \in GpuSpecs, NEW m \in LlmConfigs, NEW c \in Clusters,
         NEW batch \in Nat, NEW kv_len \in Nat
  PROVE  /\ DecodeWork(gpu, batch, kv_len, m, c) \in LowestTerms
         /\ DecodeLatency(gpu, batch, kv_len, m, None, c)
              = Pipelined(DecodeWork(gpu, batch, kv_len, m, c), batch, m, c)
<1>1. DecodeWork(gpu, batch, kv_len, m, c) \in LowestTerms
  BY GroupTypes, RooflineBytes DEF DecodeWork
<1>2. DecodeLatency(gpu, batch, kv_len, m, None, c)
        = Pipelined(DecodeWork(gpu, batch, kv_len, m, c), batch, m, c)
  BY DEF DecodeLatency, DecodeWork
<1> QED
  BY <1>1, <1>2

\* The parameters that so many bytes hold.
LEMMA ParamsType ==
  ASSUME NEW gpu \in GpuSpecs, NEW m \in LlmConfigs, NEW bytes \in Nat
  PROVE  ParamsOf(gpu, m, bytes) \in LowestTerms
<1>1. /\ WeightBytesPerParam(m) \in LowestTerms /\ WeightBytesPerParam(m) # Zero
      /\ EffectiveSparsity(gpu, m) \in LowestTerms /\ EffectiveSparsity(gpu, m) # Zero
  BY WidthTypes, SparsityType
<1>2. Whole(bytes) \in LowestTerms
  BY WholeLaws
<1>3. Over(Whole(bytes), WeightBytesPerParam(m)) \in LowestTerms
  BY <1>1, <1>2, OrderLaws, OverGrows
<1> QED
  BY <1>1, <1>3, OrderLaws, OverGrows DEF ParamsOf

\* What a GPU computes for a token.
PerToken(gpu, m, tp, ep) ==
  LET expert == ParamsOf(gpu, m, ExpertWeightBytesActive(m))
      other == ParamsOf(gpu, m, SatSub(WeightBytesActive(m), ExpertWeightBytesActive(m)))
      all == ParamsOf(gpu, m, WeightBytesActive(m))
  IN  IF ShardsExperts(m, ep)
      THEN Plus(Over(other, Whole(tp)), Over(expert, Whole(ep)))
      ELSE Over(all, Whole(tp))

\* ... and how fast.
PrefillRate(gpu, m) == Times(Whole(PeakFlopsFor(gpu, m)), gpu.mfu_prefill)

\* What a token takes is a fraction.
LEMMA PerTokenType ==
  ASSUME NEW gpu \in GpuSpecs, NEW m \in LlmConfigs, NEW tp \in Nat \ {0}, NEW ep \in Nat
  PROVE  PerToken(gpu, m, tp, ep) \in LowestTerms
<1>1. /\ WeightBytesActive(m) \in Nat /\ ExpertWeightBytesActive(m) \in Nat
      /\ SatSub(WeightBytesActive(m), ExpertWeightBytesActive(m)) \in Nat
  BY ActiveBytesType, ExpertBytes, SatSubHolds
<1> DEFINE a == ParamsOf(gpu, m, ExpertWeightBytesActive(m))
           b == ParamsOf(gpu, m, SatSub(WeightBytesActive(m), ExpertWeightBytesActive(m)))
           c == ParamsOf(gpu, m, WeightBytesActive(m))
<1>2. a \in LowestTerms /\ b \in LowestTerms /\ c \in LowestTerms
  BY <1>1, ParamsType
<1>3. PerToken(gpu, m, tp, ep) =
        IF ShardsExperts(m, ep) THEN Plus(Over(b, Whole(tp)), Over(a, Whole(ep)))
        ELSE Over(c, Whole(tp))
  BY DEF PerToken
<1> HIDE DEF a, b, c
<1>4. \A n \in Nat \ {0} : \A f \in LowestTerms : Over(f, Whole(n)) \in LowestTerms
  <2> TAKE n \in Nat \ {0}
  <2> TAKE f \in LowestTerms
  <2>1. Whole(n) \in LowestTerms /\ Whole(n) # Zero
    BY WholeLaws
  <2> QED
    BY <2>1, OrderLaws, OverGrows
<1>5. ShardsExperts(m, ep) => ep \in Nat \ {0}
  BY DEF ShardsExperts
<1>6. Over(c, Whole(tp)) \in LowestTerms /\ Over(b, Whole(tp)) \in LowestTerms
  BY <1>2, <1>4
<1>7. ShardsExperts(m, ep) => Plus(Over(b, Whole(tp)), Over(a, Whole(ep))) \in LowestTerms
  BY <1>2, <1>4, <1>5, <1>6, PlusLaws
<1> QED
  BY <1>3, <1>6, <1>7

\* A GPU computes something in a unit of time.
LEMMA PrefillRateType ==
  ASSUME NEW gpu \in GpuSpecs, NEW m
  PROVE  PrefillRate(gpu, m) \in LowestTerms /\ PrefillRate(gpu, m) # Zero
<1>1. PeakFlopsFor(gpu, m) \in Nat \ {0}
  BY GpuFields DEF PeakFlopsFor
<1>2. gpu.mfu_prefill \in LowestTerms /\ gpu.mfu_prefill # Zero
  BY GpuFields
<1> QED
  BY <1>1, <1>2, RateType DEF PrefillRate

\* The work of a prefill, by what a token takes.
LEMMA PrefillWorkType ==
  ASSUME NEW gpu \in GpuSpecs, NEW m \in LlmConfigs, NEW tp \in Nat \ {0}, NEW ep \in Nat,
         NEW batch \in Nat, NEW seq_len \in Nat
  PROVE  /\ RooflinePrefill(gpu, batch, seq_len, m, tp, ep)
              = Over(Times(Whole(2 * batch * seq_len), PerToken(gpu, m, tp, ep)),
                     PrefillRate(gpu, m))
         /\ Whole(2 * batch * seq_len) \in LowestTerms
         /\ RooflinePrefill(gpu, batch, seq_len, m, tp, ep) \in LowestTerms
<1>1. RooflinePrefill(gpu, batch, seq_len, m, tp, ep)
        = Over(Times(Whole(2 * batch * seq_len), PerToken(gpu, m, tp, ep)),
               PrefillRate(gpu, m))
  BY DEF RooflinePrefill, PerToken, PrefillRate
<1>2. 2 * batch * seq_len \in Nat
  BY SMT
<1>3. Whole(2 * batch * seq_len) \in LowestTerms
  BY <1>2, WholeLaws
<1>4. Times(Whole(2 * batch * seq_len), PerToken(gpu, m, tp, ep)) \in LowestTerms
  BY <1>3, PerTokenType, TimesLaws
<1> QED
  BY <1>1, <1>3, <1>4, PrefillRateType, OrderLaws, OverGrows

\* A prefill is its work in a pipeline.
LEMMA PrefillIs ==
  ASSUME NEW gpu \in GpuSpecs, NEW m \in LlmConfigs, NEW c \in Clusters, NEW tokens \in Nat
  PROVE  /\ PrefillWork(gpu, 1, tokens, m, c) \in LowestTerms
         /\ PrefillLatency(gpu, 1, tokens, m, None, c)
              = Pipelined(PrefillWork(gpu, 1, tokens, m, c), tokens, m, c)
<1>1. PrefillWork(gpu, 1, tokens, m, c) \in LowestTerms
  BY GroupTypes, PrefillWorkType DEF PrefillWork
<1>2. 1 * tokens = tokens
  OBVIOUS
<1>3. PrefillLatency(gpu, 1, tokens, m, None, c)
        = Pipelined(PrefillWork(gpu, 1, tokens, m, c), 1 * tokens, m, c)
  BY DEF PrefillLatency, PrefillWork
<1> QED
  BY <1>1, <1>2, <1>3

\* A step of a model that takes base_lat, with drafts of draft_lat.
StepOf(base_lat, draft_lat, m, spec, mtp) ==
  IF spec # None THEN Plus(Times(Whole(spec.k), draft_lat), base_lat)
  ELSE IF mtp # None
       THEN Times(base_lat, Plus(Whole(1), Frac(mtp.k, Greatest(m.n_layers, 1))))
  ELSE base_lat

\* A step of a set-up, by the latencies of its models.
LEMMA StepLatencyIs ==
  ASSUME NEW gpu, NEW batch, NEW kv_len, NEW m, NEW measured, NEW c, NEW spec, NEW mtp
  PROVE  StepLatency(gpu, batch, kv_len, m, measured, c, spec, mtp)
           = StepOf(DecodeLatency(gpu, batch, kv_len, m, measured, c),
                    DecodeLatency(gpu, batch, kv_len, spec.draft_model, None, c), m, spec, mtp)
BY DEF StepLatency, StepOf

\* What prediction heads add.
LEMMA OverheadType ==
  ASSUME NEW m \in LlmConfigs, NEW mtp, Speculates(mtp), mtp # None
  PROVE  Plus(Whole(1), Frac(mtp.k, Greatest(m.n_layers, 1))) \in LowestTerms
<1>1. Greatest(m.n_layers, 1) \in Nat \ {0}
  BY ModelFields DEF Greatest
<1>2. mtp.k \in Nat
  BY DEF Speculates
<1>3. Whole(1) \in LowestTerms /\ Frac(mtp.k, Greatest(m.n_layers, 1)) \in LowestTerms
  BY <1>1, <1>2, WholeLaws, FracType
<1> QED
  BY <1>3, PlusLaws

\* A step takes no longer than n others if its parts do not.
LEMMA StepBound ==
  ASSUME NEW n \in Nat, NEW m \in LlmConfigs, NEW k, k.n_layers = m.n_layers,
         NEW spec, NEW mtp, Speculates(spec), Speculates(mtp),
         NEW a \in LowestTerms, NEW b \in LowestTerms, AtMost(a, Times(Whole(n), b)),
         NEW x, NEW y,
         spec # None => x \in LowestTerms /\ y \in LowestTerms /\ AtMost(x, Times(Whole(n), y))
  PROVE  /\ StepOf(a, x, k, spec, mtp) \in LowestTerms /\ StepOf(b, y, m, spec, mtp) \in LowestTerms
         /\ AtMost(StepOf(a, x, k, spec, mtp), Times(Whole(n), StepOf(b, y, m, spec, mtp)))
<1>1. CASE spec # None
  <2> DEFINE q == Whole(spec.k)
  <2>1. q \in LowestTerms
    <3>1. spec.k \in Nat
      BY <1>1 DEF Speculates
    <3> QED
      BY <3>1, WholeLaws
  <2>2. /\ StepOf(a, x, k, spec, mtp) = Plus(Times(q, x), a)
        /\ StepOf(b, y, m, spec, mtp) = Plus(Times(q, y), b)
    BY <1>1 DEF StepOf
  <2> HIDE DEF q
  <2>3. x \in LowestTerms /\ y \in LowestTerms /\ AtMost(x, Times(Whole(n), y))
    BY <1>1
  <2>4. /\ Times(q, y) \in LowestTerms /\ Times(q, x) \in LowestTerms
        /\ AtMost(Times(q, x), Times(Whole(n), Times(q, y)))
    BY <2>1, <2>3, BoundTimes
  <2>5. /\ Plus(Times(q, y), b) \in LowestTerms /\ Plus(Times(q, x), a) \in LowestTerms
        /\ AtMost(Plus(Times(q, x), a), Times(Whole(n), Plus(Times(q, y), b)))
    BY <2>4, BoundPlus
  <2> QED
    BY <2>2, <2>5
<1>2. CASE spec = None /\ mtp # None
  <2> DEFINE o == Plus(Whole(1), Frac(mtp.k, Greatest(m.n_layers, 1)))
  <2>1. o \in LowestTerms
    BY <1>2, OverheadType
  <2>2. /\ StepOf(a, x, k, spec, mtp) = Times(a, o)
        /\ StepOf(b, y, m, spec, mtp) = Times(b, o)
    BY <1>2 DEF StepOf
  <2> HIDE DEF o
  <2>3. /\ Times(o, b) \in LowestTerms /\ Times(o, a) \in LowestTerms
        /\ AtMost(Times(o, a), Times(Whole(n), Times(o, b)))
    BY <2>1, BoundTimes
  <2>4. Times(a, o) = Times(o, a) /\ Times(b, o) = Times(o, b)
    BY <2>1, TimesLaws
  <2> QED
    BY <2>2, <2>3, <2>4
<1>3. CASE spec = None /\ mtp = None
  BY <1>3 DEF StepOf
<1> QED
  BY <1>1, <1>2, <1>3

\* The numbers of a batch.
LEMMA BatchTypes ==
  ASSUME kv_lens \in Seq(Nat)
  PROVE  /\ BatchSize \in Nat /\ TotalKvLen(kv_lens) \in Nat /\ AvgKvLen \in Nat
         /\ Greatest(TotalKvLen(kv_lens), 1) \in Nat
         /\ DOMAIN kv_lens = 1 .. BatchSize /\ IsFiniteSet(DOMAIN kv_lens)
         /\ \A i \in DOMAIN kv_lens : kv_lens[i] \in Nat
<1>1. BatchSize \in Nat /\ DOMAIN kv_lens = 1 .. BatchSize
  BY DEF BatchSize
<1>2. IsFiniteSet(DOMAIN kv_lens)
  BY <1>1, FS_Interval
<1>3. \A i \in DOMAIN kv_lens : kv_lens[i] \in Nat
  OBVIOUS
<1>4. TotalKvLen(kv_lens) \in Nat
  BY <1>2, <1>3, TotalType DEF TotalKvLen
<1>5. Greatest(BatchSize, 1) \in Nat \ {0}
  BY <1>1 DEF Greatest
<1>6. AvgKvLen \in Nat
  BY <1>4, <1>5, DivHolds DEF AvgKvLen
<1> QED
  BY <1>1, <1>2, <1>3, <1>4, <1>6 DEF Greatest

-----------------------------------------------------------------------------
(* Spread over nodes, nothing gets cheaper *)

\* The same work and messages, on one node and on several.
LEMMA PipelinedSpread ==
  ASSUME NEW c \in Clusters, SlowerOutside(c), NEW m \in LlmConfigs, NEW tokens \in Nat,
         NEW a \in LowestTerms
  PROVE  /\ Pipelined(a, tokens, m, OneNode(c)) \in LowestTerms
         /\ Pipelined(a, tokens, m, c) \in LowestTerms
         /\ AtMost(Pipelined(a, tokens, m, OneNode(c)), Pipelined(a, tokens, m, c))
<1> DEFINE o == OneNode(c)
           b == tokens * m.d_model * ActivationBytes(m)
           x == tokens * TopK(m)
           d == m.d_model
           w == ActivationBytes(m)
<1>1. o \in Clusters /\ o.pp = c.pp /\ o.ep = c.ep /\ c.pp \in Nat
  BY OneNodeIs, ClusterFields
<1>2. d \in Nat /\ w \in Nat /\ TopK(m) \in Nat
  BY ModelFields, WidthTypes DEF TopK, Greatest
<1>3. b \in Nat /\ x \in Nat
  <2>1. tokens * m.d_model \in Nat
    BY <1>2
  <2> QED
    BY <1>2, <2>1
<1>4. /\ Reduce(tokens, m, o) = AllReduceLatency(o, b)
      /\ Reduce(tokens, m, c) = AllReduceLatency(c, b)
      /\ HandOver(tokens, m, o) = PpTransferLatency(o, b, TRUE)
      /\ HandOver(tokens, m, c) = PpTransferLatency(c, b, TRUE)
      /\ Exchange(tokens, m, o) = EpAllToAllLatency(o, x, d, w)
      /\ Exchange(tokens, m, c) = EpAllToAllLatency(c, x, d, w)
  BY DEF Reduce, HandOver, Exchange
<1>5. c.scale_out_bw <= c.scale_up_bw /\ c.scale_up_latency <= c.scale_out_latency
  <2>1. c.scale_up_latency \in Nat /\ c.scale_out_latency \in Nat
    BY ClusterFields
  <2> QED
    BY <2>1 DEF SlowerOutside
<1> HIDE DEF b, x, d, w
<1>6. 1 \in Nat \ {0} /\ b <= 1 * b
  BY <1>3
<1>7. /\ Reduce(tokens, m, o) \in LowestTerms /\ Reduce(tokens, m, c) \in LowestTerms
      /\ AtMost(Reduce(tokens, m, o), Times(Whole(1), Reduce(tokens, m, c)))
  <2>1. AllReduceLatency(o, b) \in LowestTerms /\ AllReduceLatency(c, b) \in LowestTerms
    BY <1>1, <1>3, <1>6, AllReduceBound
  <2>2. AtMost(AllReduceLatency(o, b), AllReduceLatency(c, b))
    BY <1>3, ReduceSpread
  <2> QED
    BY <1>4, <2>1, <2>2, BoundOnce
<1>8. /\ HandOver(tokens, m, o) \in LowestTerms /\ HandOver(tokens, m, c) \in LowestTerms
      /\ AtMost(HandOver(tokens, m, o), Times(Whole(1), HandOver(tokens, m, c)))
  <2>1. PpTransferLatency(o, b, TRUE) \in LowestTerms /\ PpTransferLatency(c, b, TRUE) \in LowestTerms
    BY <1>1, <1>3, <1>6, PpBound
  <2>2. AtMost(PpTransferLatency(o, b, TRUE), PpTransferLatency(c, b, TRUE))
    BY <1>3, <1>5, HandOverSpread
  <2> QED
    BY <1>4, <2>1, <2>2, BoundOnce
<1>9. /\ Exchange(tokens, m, o) \in LowestTerms /\ Exchange(tokens, m, c) \in LowestTerms
      /\ AtMost(Exchange(tokens, m, o), Times(Whole(1), Exchange(tokens, m, c)))
  <2>1. CASE c.ep <= 1
    <3>1. Exchange(tokens, m, o) = Zero /\ Exchange(tokens, m, c) = Zero
      BY <1>1, <1>4, <2>1 DEF EpAllToAllLatency
    <3> QED
      BY <3>1, BoundZero
  <2>2. CASE ~ (c.ep <= 1)
    <3> DEFINE bytes == DispatchBytes(c, x, d, w)
    <3>1. DispatchBytes(o, x, d, w) = bytes
      BY <1>1 DEF DispatchBytes
    <3>2. /\ Exchange(tokens, m, o) = EpByMessage(o, bytes)
          /\ Exchange(tokens, m, c) = EpByMessage(c, bytes)
      BY <1>4, <3>1 DEF EpAllToAllLatency, EpByMessage
    <3>3. bytes \in Nat
      <4>1. c.ep > 1
        <5>1. c.ep \in Nat
          BY ClusterFields
        <5> QED
          BY <2>2, <5>1
      <4>2. 1 \in Nat /\ w <= w /\ Share(c, x) <= 1 * Share(c, x)
        BY <1>2, <1>3, <4>1, ShareType
      <4> QED
        BY <1>2, <1>3, <4>1, <4>2, DispatchBound
    <3> HIDE DEF bytes
    <3>4. bytes <= 1 * bytes /\ 1 \in Nat \ {0}
      BY <3>3
    <3>5. EpByMessage(o, bytes) \in LowestTerms /\ EpByMessage(c, bytes) \in LowestTerms
      BY <1>1, <3>3, <3>4, EpBound
    <3>6. AtMost(EpByMessage(o, bytes), EpByMessage(c, bytes))
      BY <1>5, <3>3, ExchangeSpread
    <3> QED
      BY <3>2, <3>5, <3>6, BoundOnce
  <2> QED
    BY <2>1, <2>2
<1>10. Alike(m, m)
  BY DEF Alike
<1> HIDE DEF o
<1>11. /\ CollectiveCost(tokens, m, c) \in LowestTerms /\ CollectiveCost(tokens, m, o) \in LowestTerms
       /\ AtMost(CollectiveCost(tokens, m, o), Times(Whole(1), CollectiveCost(tokens, m, c)))
  BY <1>7, <1>9, <1>10, CollectiveBound
<1>12. AtMost(a, Times(Whole(1), a))
  BY BoundOnce, OrderLaws
<1>13. /\ Pipelined(a, tokens, m, c) \in LowestTerms /\ Pipelined(a, tokens, m, o) \in LowestTerms
       /\ AtMost(Pipelined(a, tokens, m, o), Times(Whole(1), Pipelined(a, tokens, m, c)))
  BY <1>1, <1>8, <1>11, <1>12, PipelinedBound
<1> QED
  BY <1>13, BoundOnce DEF o

\* A step on one large node is no slower.
LEMMA StepSpread ==
  ASSUME NEW c \in Clusters, SlowerOutside(c), NEW gpu \in GpuSpecs, NEW m \in LlmConfigs,
         NEW batch \in Nat, NEW kv_len \in Nat
  PROVE  /\ DecodeLatency(gpu, batch, kv_len, m, None, OneNode(c)) \in LowestTerms
         /\ DecodeLatency(gpu, batch, kv_len, m, None, c) \in LowestTerms
         /\ AtMost(DecodeLatency(gpu, batch, kv_len, m, None, OneNode(c)),
                   DecodeLatency(gpu, batch, kv_len, m, None, c))
<1> DEFINE a == DecodeWork(gpu, batch, kv_len, m, c)
<1>1. OneNode(c) \in Clusters
  BY OneNodeIs
<1>2. DecodeWork(gpu, batch, kv_len, m, OneNode(c)) = a
  BY OneNodeIs DEF DecodeWork
<1>3. /\ a \in LowestTerms
      /\ DecodeLatency(gpu, batch, kv_len, m, None, c) = Pipelined(a, batch, m, c)
      /\ DecodeLatency(gpu, batch, kv_len, m, None, OneNode(c))
           = Pipelined(a, batch, m, OneNode(c))
  BY <1>1, <1>2, DecodeWorkType
<1> HIDE DEF a
<1> QED
  BY <1>3, PipelinedSpread

\* Spreading over nodes never helps, on any set-up.
LEMMA CrossNodeHolds ==
  ASSUME setup # None => WellSetUp(setup), kv_lens \in Seq(Nat)
  PROVE  CrossNodeNeverHelps
<1> SUFFICES ASSUME IsSetUp, SlowerOutside(setup.cluster)
             PROVE  LET one_node == [setup EXCEPT !.cluster.scale_out_bw = 0]
                    IN  /\ AtMost(Price(one_node), Price(setup))
                        /\ AtMost(PrefillPrice(one_node), PrefillPrice(setup))
  BY DEF CrossNodeNeverHelps
<1> DEFINE one == [setup EXCEPT !.cluster.scale_out_bw = 0]
           c == setup.cluster
           m == setup.model
           gpu == setup.gpu
           kv == AvgKvLen
           batch == BatchSize
           spec == setup.spec
           mtp == setup.mtp
<1>1. WellSetUp(setup)
  BY DEF IsSetUp
<1>2. /\ one.gpu = gpu /\ one.model = m /\ one.spec = spec /\ one.mtp = mtp
      /\ one.cluster = OneNode(c)
  BY <1>1 DEF WellSetUp, OneNode
<1>3. /\ gpu \in GpuSpecs /\ m \in LlmConfigs /\ c \in Clusters
      /\ Speculates(spec) /\ Speculates(mtp)
      /\ spec # None => spec.draft_model \in LlmConfigs
  BY <1>1 DEF WellSetUp
<1>4. batch \in Nat /\ kv \in Nat /\ Greatest(TotalKvLen(kv_lens), 1) \in Nat
  BY BatchTypes
<1>5. AtMost(Price(one), Price(setup))
  <2> DEFINE a == DecodeLatency(gpu, batch, kv, m, None, OneNode(c))
             b == DecodeLatency(gpu, batch, kv, m, None, c)
             x == DecodeLatency(gpu, batch, kv, spec.draft_model, None, OneNode(c))
             y == DecodeLatency(gpu, batch, kv, spec.draft_model, None, c)
  <2>1. Price(setup) = StepOf(b, y, m, spec, mtp)
    BY StepLatencyIs DEF Price, PriceOf
  <2>2. Price(one) = StepOf(a, x, m, spec, mtp)
    BY <1>2, StepLatencyIs DEF Price, PriceOf
  <2> HIDE DEF c, m, gpu, kv, batch, spec, mtp
  <2>3. SlowerOutside(c)
    BY DEF c
  <2>4. a \in LowestTerms /\ b \in LowestTerms /\ AtMost(a, b)
    BY <1>3, <1>4, <2>3, StepSpread
  <2>5. spec # None => x \in LowestTerms /\ y \in LowestTerms /\ AtMost(x, y)
    BY <1>3, <1>4, <2>3, StepSpread
  <2> HIDE DEF a, b, x, y
  <2>6. /\ StepOf(a, x, m, spec, mtp) \in LowestTerms /\ StepOf(b, y, m, spec, mtp) \in LowestTerms
        /\ AtMost(StepOf(a, x, m, spec, mtp), Times(Whole(1), StepOf(b, y, m, spec, mtp)))
    <3>1. AtMost(a, Times(Whole(1), b))
      BY <2>4, BoundOnce
    <3>2. spec # None => x \in LowestTerms /\ y \in LowestTerms /\ AtMost(x, Times(Whole(1), y))
      BY <2>5, BoundOnce
    <3> QED
      BY <1>3, <2>4, <3>1, <3>2, StepBound
  <2> QED
    BY <2>1, <2>2, <2>6, BoundOnce
<1>6. AtMost(PrefillPrice(one), PrefillPrice(setup))
  <2> DEFINE t == Greatest(TotalKvLen(kv_lens), 1)
             a == PrefillWork(gpu, 1, t, m, c)
  <2>1. /\ PrefillPrice(setup) = PrefillLatency(gpu, 1, t, m, None, c)
        /\ PrefillPrice(one) = PrefillLatency(gpu, 1, t, m, None, OneNode(c))
    BY <1>2 DEF PrefillPrice
  <2> HIDE DEF c, m, gpu, t
  <2>2. SlowerOutside(c) /\ OneNode(c) \in Clusters
    BY <1>3, OneNodeIs DEF c
  <2>3. PrefillWork(gpu, 1, t, m, OneNode(c)) = a
    BY <1>3, OneNodeIs DEF PrefillWork
  <2>4. /\ a \in LowestTerms /\ PrefillLatency(gpu, 1, t, m, None, c) = Pipelined(a, t, m, c)
        /\ PrefillLatency(gpu, 1, t, m, None, OneNode(c)) = Pipelined(a, t, m, OneNode(c))
    BY <1>3, <1>4, <2>2, <2>3, PrefillIs DEF t
  <2> HIDE DEF a
  <2> QED
    BY <1>3, <1>4, <2>1, <2>2, <2>4, PipelinedSpread DEF t
<1> QED
  BY <1>5, <1>6

\* Spreading a group over nodes never makes a step or a prefill cheaper
\* (spans_scale_out, all_reduce_latency, pp_transfer_latency,
\* ep_all_to_all_latency).
THEOREM NodesNeverHelp == PricedSpec => []CrossNodeNeverHelps
<1>1. PricedInv => CrossNodeNeverHelps
  BY CrossNodeHolds DEF PricedInv
<1> QED
  BY PricedInvAlways, <1>1, PTL

-----------------------------------------------------------------------------
(* Experts on GPUs of their own *)

\* A sum is divided part by part.
LEMMA OverPlus ==
  ASSUME NEW a \in LowestTerms, NEW b \in LowestTerms, NEW c \in LowestTerms, c # Zero
  PROVE  /\ Over(a, c) \in LowestTerms /\ Over(b, c) \in LowestTerms
         /\ Plus(Over(a, c), Over(b, c)) = Over(Plus(a, b), c)
<1> DEFINE r == Reciprocal(c)
<1>1. r \in LowestTerms /\ \A f \in LowestTerms : Over(f, c) = Times(f, r)
  BY OverLaws
<1> HIDE DEF r
<1>2. Plus(a, b) \in LowestTerms
  BY PlusLaws
<1>3. /\ Over(a, c) = Times(r, a) /\ Over(b, c) = Times(r, b)
      /\ Over(Plus(a, b), c) = Times(r, Plus(a, b))
  BY <1>1, <1>2, TimesLaws
<1>4. Times(r, Plus(a, b)) = Plus(Times(r, a), Times(r, b))
  BY <1>1, TimesLaws
<1>5. Times(r, a) \in LowestTerms /\ Times(r, b) \in LowestTerms
  BY <1>1, TimesLaws
<1> QED
  BY <1>3, <1>4, <1>5

\* The parameters that bytes hold add up.
LEMMA ParamsPlus ==
  ASSUME NEW gpu \in GpuSpecs, NEW m \in LlmConfigs, NEW x \in Nat, NEW y \in Nat
  PROVE  Plus(ParamsOf(gpu, m, x), ParamsOf(gpu, m, y)) = ParamsOf(gpu, m, x + y)
<1> DEFINE p == WeightBytesPerParam(m)
           s == EffectiveSparsity(gpu, m)
<1>1. p \in LowestTerms /\ p # Zero /\ s \in LowestTerms /\ s # Zero
  BY WidthTypes, SparsityType
<1>2. \A z : ParamsOf(gpu, m, z) = Over(Over(Whole(z), p), s)
  BY DEF ParamsOf
<1> HIDE DEF p, s
<1>3. Whole(x) \in LowestTerms /\ Whole(y) \in LowestTerms
      /\ Plus(Whole(x), Whole(y)) = Whole(x + y)
  BY WholeLaws
<1>4. /\ Over(Whole(x), p) \in LowestTerms /\ Over(Whole(y), p) \in LowestTerms
      /\ Plus(Over(Whole(x), p), Over(Whole(y), p)) = Over(Whole(x + y), p)
  BY <1>1, <1>3, OverPlus
<1>5. Plus(Over(Over(Whole(x), p), s), Over(Over(Whole(y), p), s))
        = Over(Over(Whole(x + y), p), s)
  BY <1>1, <1>4, OverPlus
<1> QED
  BY <1>2, <1>5

\* As many GPUs compute as much for a token, experts apart or not.
LEMMA SameComputation ==
  ASSUME NEW gpu \in GpuSpecs, NEW m \in LlmConfigs, NEW tp \in Nat \ {0},
         ExpertWeightBytesActive(m) <= WeightBytesActive(m)
  PROVE  PerToken(gpu, m, tp, tp) = PerToken(gpu, m, tp, 1)
<1> DEFINE E == ExpertWeightBytesActive(m)
           W == WeightBytesActive(m)
           P(bytes) == ParamsOf(gpu, m, bytes)
<1>1. E \in Nat /\ W \in Nat /\ E <= W
  BY ActiveBytesType, ExpertBytes
<1>2. PerToken(gpu, m, tp, 1) = Over(P(W), Whole(tp))
  BY DEF PerToken, ShardsExperts
<1>3. PerToken(gpu, m, tp, tp) =
        IF ShardsExperts(m, tp) THEN Plus(Over(P(SatSub(W, E)), Whole(tp)), Over(P(E), Whole(tp)))
        ELSE Over(P(W), Whole(tp))
  BY DEF PerToken
<1>4. SatSub(W, E) \in Nat /\ SatSub(W, E) + E = W
  BY <1>1 DEF SatSub
<1> HIDE DEF E, W
<1> DEFINE o == SatSub(W, E)
<1>5. o \in Nat /\ o + E = W
  BY <1>4
<1> HIDE DEF o
<1>6. P(o) \in LowestTerms /\ P(E) \in LowestTerms /\ Plus(P(o), P(E)) = P(W)
  BY <1>1, <1>5, ParamsType, ParamsPlus
<1>7. Whole(tp) \in LowestTerms /\ Whole(tp) # Zero
  BY WholeLaws
<1> HIDE DEF P
<1>8. Plus(Over(P(o), Whole(tp)), Over(P(E), Whole(tp))) = Over(P(W), Whole(tp))
  BY <1>6, <1>7, OverPlus
<1> QED
  BY <1>2, <1>3, <1>8 DEF o

\* Two divisions lose less than two, one loses less than one.
LEMMA DivParts ==
  ASSUME NEW x \in Nat, NEW y \in Nat, NEW d \in Nat \ {0}
  PROVE  /\ x \div d \in Nat /\ y \div d \in Nat /\ (x + y) \div d \in Nat
         /\ x \div d + y \div d <= (x + y) \div d
         /\ (x + y) \div d <= x \div d + y \div d + 1
<1> DEFINE p == x \div d
           q == y \div d
           z == x + y
           r == z \div d
<1>1. /\ p \in Nat /\ p * d <= x /\ x < (p + 1) * d
      /\ q \in Nat /\ q * d <= y /\ y < (q + 1) * d
  BY DivHolds
<1>2. z \in Nat
  OBVIOUS
<1> HIDE DEF p, q
<1>3. /\ r \in Nat /\ \A k \in Nat : k * d <= z => k <= r
      /\ \A k \in Nat : z < k * d => r < k
  <2> HIDE DEF z
  <2> QED
    BY <1>2, DivHolds
<1>4. (p + q) * d <= z /\ z < (p + q + 2) * d
  <2>1. (p + q) * d = p * d + q * d /\ (p + q + 2) * d = (p + 1) * d + (q + 1) * d
    BY <1>1
  <2>2. p * d \in Nat /\ q * d \in Nat /\ (p + 1) * d \in Nat /\ (q + 1) * d \in Nat
    BY <1>1
  <2> QED
    BY <1>1, <2>1, <2>2
<1>5. p + q \in Nat /\ p + q + 2 \in Nat
  BY <1>1
<1>6. p + q <= r /\ r < p + q + 2
  BY <1>3, <1>4, <1>5
<1> QED
  BY <1>1, <1>3, <1>6 DEF p, q

\* They read as many bytes, but for the byte of rounding.
LEMMA SameTraffic ==
  ASSUME NEW gpu \in GpuSpecs, NEW m \in LlmConfigs, NEW tp \in Nat \ {0},
         ExpertWeightBytesActive(m) <= WeightBytesActive(m)
  PROVE  /\ WeightBytesPerChip(gpu, m, tp, tp) \in Nat /\ WeightBytesPerChip(gpu, m, tp, 1) \in Nat
         /\ WeightBytesPerChip(gpu, m, tp, tp) <= WeightBytesPerChip(gpu, m, tp, 1)
         /\ WeightBytesPerChip(gpu, m, tp, 1) <= WeightBytesPerChip(gpu, m, tp, tp) + 1
<1> DEFINE e == EffectiveExpertWeightBytesActive(gpu, m)
           w == EffectiveWeightBytesActive(gpu, m)
<1>1. e \in Nat /\ w \in Nat /\ e <= w
  <2>1. EffectiveSparsity(gpu, m) \in LowestTerms /\ EffectiveSparsity(gpu, m) # Zero
    BY SparsityType
  <2>2. ExpertWeightBytesActive(m) \in Nat /\ WeightBytesActive(m) \in Nat
    BY ActiveBytesType, ExpertBytes
  <2> QED
    BY <2>1, <2>2, SparseBytes DEF EffectiveWeightBytesActive, EffectiveExpertWeightBytesActive
<1>2. WeightBytesPerChip(gpu, m, tp, 1) = w \div tp
  BY DEF WeightBytesPerChip, ShardsExperts
<1>3. WeightBytesPerChip(gpu, m, tp, tp) =
        IF ShardsExperts(m, tp) THEN SatSub(w, e) \div tp + e \div tp ELSE w \div tp
  BY DEF WeightBytesPerChip
<1> DEFINE o == SatSub(w, e)
<1>4. o \in Nat /\ o + e = w
  BY <1>1 DEF SatSub
<1> HIDE DEF e, w, o
<1>5. /\ o \div tp \in Nat /\ e \div tp \in Nat /\ w \div tp \in Nat
      /\ o \div tp + e \div tp <= w \div tp /\ w \div tp <= o \div tp + e \div tp + 1
  BY <1>1, <1>4, DivParts
<1> DEFINE a == o \div tp
           b == e \div tp
           d == w \div tp
<1> HIDE DEF a, b, d
<1>6. a \in Nat /\ b \in Nat /\ d \in Nat /\ a + b <= d /\ d <= a + b + 1
  BY <1>5 DEF a, b, d
<1>7. /\ WeightBytesPerChip(gpu, m, tp, 1) = d
      /\ WeightBytesPerChip(gpu, m, tp, tp) = IF ShardsExperts(m, tp) THEN a + b ELSE d
  BY <1>2, <1>3 DEF a, b, d, o
<1> QED
  BY <1>6, <1>7

\* Experts shard like the other weights, on any set-up.
LEMMA ExpertsHold ==
  ASSUME setup # None => WellSetUp(setup), kv_lens \in Seq(Nat)
  PROVE  ExpertsShardLikeWeights
<1> SUFFICES ASSUME IsSetUp, ExpertWeightBytesActive(setup.model) <= WeightBytesActive(setup.model)
             PROVE  ExpertsShardLikeWeights
  BY DEF ExpertsShardLikeWeights
<1> DEFINE gpu == setup.gpu
           m == setup.model
           tp == Greatest(setup.cluster.tp, 1)
           pp == Greatest(setup.cluster.pp, 1)
           byte == Over(Whole(1), Times(Whole(gpu.memory_bandwidth), gpu.mfu_decode))
           Decode(ep) == RooflineDecode(gpu, BatchSize, AvgKvLen, m, tp, pp, ep)
           Prefill(ep) == RooflinePrefill(gpu, BatchSize, AvgKvLen, m, tp, ep)
<1>1. gpu \in GpuSpecs /\ m \in LlmConfigs /\ setup.cluster \in Clusters
  BY DEF IsSetUp, WellSetUp
<1>2. tp \in Nat \ {0} /\ pp \in Nat \ {0}
  BY <1>1, GroupTypes
<1>3. BatchSize \in Nat /\ AvgKvLen \in Nat
  BY BatchTypes
<1>4. ExpertWeightBytesActive(m) <= WeightBytesActive(m)
  OBVIOUS
<1>5. Prefill(tp) = Prefill(1)
  <2> HIDE DEF gpu, m, tp
  <2>1. 1 \in Nat /\ tp \in Nat
    BY <1>2
  <2>2. PerToken(gpu, m, tp, tp) = PerToken(gpu, m, tp, 1)
    BY <1>1, <1>2, <1>4, SameComputation
  <2> QED
    BY <1>1, <1>2, <1>3, <2>1, <2>2, PrefillWorkType
<1>6. AtMost(Decode(tp), Decode(1)) /\ AtMost(Decode(1), Plus(Decode(tp), byte))
  <2> DEFINE kv == KvEffectiveBytes(gpu, KvBytes(m, AvgKvLen) * BatchSize, tp, pp)
             x == WeightBytesPerChip(gpu, m, tp, tp)
             y == WeightBytesPerChip(gpu, m, tp, 1)
             rate == DecodeRate(gpu)
  <2>0. byte = Over(Whole(1), rate)
    BY DEF DecodeRate
  <2> HIDE DEF gpu, m, tp, pp
  <2>1. x \in Nat /\ y \in Nat /\ x <= y /\ y <= x + 1
    BY <1>1, <1>2, <1>4, SameTraffic
  <2>2. kv \in Nat
    <3>1. KvBytes(m, AvgKvLen) \in Nat
      BY <1>1, <1>3, KvBytesGrows
    <3>2. KvBytes(m, AvgKvLen) * BatchSize \in Nat
      BY <1>3, <3>1
    <3> QED
      BY <1>1, <1>2, <3>2, KvEffectiveGrows
  <2>3. /\ Decode(tp) = Over(Whole(x + kv), rate) /\ Decode(1) = Over(Whole(y + kv), rate)
    <3>1. \A ep \in Nat :
            RooflineDecode(gpu, BatchSize, AvgKvLen, m, tp, pp, ep)
              = Over(Whole(WeightBytesPerChip(gpu, m, tp, ep) + kv), rate)
      BY <1>1, <1>2, <1>3, RooflineBytes
    <3>2. 1 \in Nat /\ tp \in Nat
      BY <1>2
    <3> QED
      BY <3>1, <3>2
  <2>4. rate \in LowestTerms /\ rate # Zero
    BY <1>1, DecodeRateType
  <2> DEFINE u == x + kv
             v == y + kv
  <2>5. u \in Nat /\ v \in Nat /\ u <= v /\ v <= u + 1
    BY <2>1, <2>2
  <2>6. Decode(tp) = Over(Whole(u), rate) /\ Decode(1) = Over(Whole(v), rate)
    BY <2>3
  <2> HIDE DEF u, v, rate, byte, Decode
  <2>7. /\ Whole(u) \in LowestTerms /\ Whole(v) \in LowestTerms /\ Whole(1) \in LowestTerms
        /\ AtMost(Whole(u), Whole(v)) /\ Plus(Whole(u), Whole(1)) = Whole(u + 1)
    BY <2>5, WholeLaws
  <2>8. Whole(u + 1) \in LowestTerms /\ AtMost(Whole(v), Whole(u + 1))
    <3> DEFINE z == u + 1
    <3>1. z \in Nat /\ v <= z
      BY <2>5
    <3> HIDE DEF z
    <3>2. Whole(z) \in LowestTerms /\ AtMost(Whole(v), Whole(z))
      BY <2>5, <3>1, WholeLaws
    <3> QED
      BY <3>2 DEF z
  <2>9. AtMost(Over(Whole(u), rate), Over(Whole(v), rate))
    BY <2>4, <2>7, OverGrows
  <2>10. AtMost(Over(Whole(v), rate), Over(Whole(u + 1), rate))
    BY <2>4, <2>7, <2>8, OverGrows
  <2>11. Plus(Over(Whole(u), rate), Over(Whole(1), rate)) = Over(Whole(u + 1), rate)
    BY <2>4, <2>7, OverPlus
  <2> QED
    BY <2>0, <2>6, <2>9, <2>10, <2>11
<1> QED
  BY <1>5, <1>6 DEF ExpertsShardLikeWeights

\* Experts over as many GPUs as the other weights are over cost what they cost
\* without expert parallelism (roofline_prefill, roofline_decode).
THEOREM ExpertsLikeWeights == PricedSpec => []ExpertsShardLikeWeights
<1>1. PricedInv => ExpertsShardLikeWeights
  BY ExpertsHold DEF PricedInv
<1> QED
  BY PricedInvAlways, <1>1, PTL

-----------------------------------------------------------------------------
(* A batch that goes on does not get cheaper *)

\* Larger numbers have a larger total.
LEMMA TotalGrows ==
  ASSUME NEW S, IsFiniteSet(S), NEW f, NEW g,
         \A x \in S : f[x] \in Nat /\ g[x] \in Nat /\ f[x] <= g[x]
  PROVE  Total(S, f) \in Nat /\ Total(S, g) \in Nat /\ Total(S, f) <= Total(S, g)
<1>1. Units(S, f) \subseteq Units(S, g)
  BY DEF Units
<1>2. IsFiniteSet(Units(S, g))
  BY UnitsFinite
<1>3. Cardinality(Units(S, f)) <= Cardinality(Units(S, g))
  BY <1>1, <1>2, FS_Subset
<1> QED
  BY <1>3, TotalType DEF Total

\* The mean of the batch, as the contexts grow.
LEMMA LongerMean ==
  ASSUME NEW q \in Seq(Nat), q # <<>>, NEW a \in Nat,
         NEW r, r = [i \in DOMAIN q |-> q[i] + a]
  PROVE  /\ Len(q) \in Nat \ {0} /\ Len(r) = Len(q)
         /\ TotalKvLen(q) \div Len(q) \in Nat /\ TotalKvLen(r) \div Len(q) \in Nat
         /\ TotalKvLen(q) \div Len(q) <= TotalKvLen(r) \div Len(q)
<1> DEFINE n == Len(q)
<1>1. n \in Nat \ {0} /\ DOMAIN q = 1 .. n
  OBVIOUS
<1>2. \A i \in 1 .. n : q[i] \in Nat
  BY <1>1
<1> HIDE DEF n
<1>3. DOMAIN r = 1 .. n /\ \A i \in 1 .. n : r[i] \in Nat /\ q[i] <= r[i]
  BY <1>1, <1>2
<1>4. Len(r) = n
  <2>1. r \in [1 .. n -> Nat]
    BY <1>1, <1>2
  <2>2. r \in Seq(Nat)
    BY <1>1, <2>1, SequenceShape
  <2> QED
    BY <1>1, <1>3, <2>2
<1>5. IsFiniteSet(1 .. n)
  BY <1>1, FS_Interval
<1>6. TotalKvLen(q) \in Nat /\ TotalKvLen(r) \in Nat /\ TotalKvLen(q) <= TotalKvLen(r)
  BY <1>1, <1>2, <1>3, <1>5, TotalGrows DEF TotalKvLen
<1> QED
  BY <1>1, <1>4, <1>6, DivGrows DEF n

\* What a table that is monotone says of two lengths: nothing of either, or no
\* less of the longer.
NoLater(p, q) ==
  \/ p = None /\ q = None
  \/ /\ p # None /\ q # None /\ AtMost(p, q)
     /\ p.num \in Nat /\ p.den \in Nat \ {0} /\ q.num \in Nat /\ q.den \in Nat \ {0}

\* Rows that do not say that longer is faster, by their partial key.
LEMMA MonotoneGrows ==
  ASSUME TableInv, phase = "loaded", MonotoneRows, NEW target, NEW op, NEW batch
  PROVE  GrowsWith(Measured(target, op, batch))
<1>1. read \in Seq(GoodRows)
  BY DEF TableInv
<1>2. \A i \in DOMAIN read : read[i] # Malformed
  BY <1>1 DEF GoodRows
<1> QED
  BY <1>2 DEF MonotoneRows, GrowsWith, Measured

\* For a longer context the table answers no less (lookup_nearest_batch).
LEMMA MeasuredAnswers ==
  ASSUME TableInv, phase = "loaded", MonotoneRows, NEW target, NEW op \in KernelOps,
         NEW batch, Measured(target, op, batch) # {},
         NEW x \in Nat, NEW y \in Nat, x <= y
  PROVE  NoLater(Lookup(target, op, batch, x), Lookup(target, op, batch, y))
<1> DEFINE R == Measured(target, op, batch)
           v == Lookup(target, op, batch, x)
           w == Lookup(target, op, batch, y)
<1>1. GrowsWith(R) /\ read \in Seq(GoodRows) /\ R \subseteq DOMAIN read /\ R # {}
  <2>1. GrowsWith(R)
    BY MonotoneGrows
  <2>2. read \in Seq(GoodRows) /\ R \subseteq DOMAIN read
    BY DEF TableInv, Measured
  <2> QED
    BY <2>1, <2>2
<1>2. Answers(v, R, x) /\ Answers(w, R, y)
  BY LookupAnswers
<1>3. AtMost(v, w)
  BY <1>1, LookupGrows
<1> HIDE DEF R, v, w
<1>4. v.num \in Nat /\ v.den \in Nat \ {0} /\ v # None
  BY <1>1, <1>2, AnswerType
<1>5. w.num \in Nat /\ w.den \in Nat \ {0} /\ w # None
  BY <1>1, <1>2, AnswerType
<1> QED
  BY <1>3, <1>4, <1>5 DEF NoLater, v, w

\* Each answer for a length has one for the other length on its side
\* (lookup_nearest_batch).
LEMMA NearestAnswers ==
  ASSUME TableInv, phase = "loaded", MonotoneRows, NEW target, NEW op \in KernelOps,
         NEW batch, NEW x \in Nat, NEW y \in Nat, x <= y
  PROVE  /\ \A p \in LookupNearestBatch(target, op, batch, x) :
              \E q \in LookupNearestBatch(target, op, batch, y) : NoLater(p, q)
         /\ \A q \in LookupNearestBatch(target, op, batch, y) :
              \E p \in LookupNearestBatch(target, op, batch, x) : NoLater(p, q)
<1> DEFINE L(b, n) == Lookup(target, op, b, n)
           B == MeasuredBatches(target, op)
           near == {b \in B : \A c \in B : AbsDiff(b, batch) <= AbsDiff(c, batch)}
           N(n) == LookupNearestBatch(target, op, batch, n)
<1>1. \A n : N(n) = IF L(batch, n) # None THEN {L(batch, n)}
                    ELSE IF B = {} THEN {None}
                    ELSE {L(b, n) : b \in near}
  <2>1. {b \in {pkey[3] : pkey \in DOMAIN by_seq} :
            PartialKey(target, op, b) \in DOMAIN by_seq} = B
    BY AvailableBatches DEF TableInv
  <2> HIDE DEF B
  <2> QED
    BY <2>1 DEF LookupNearestBatch
<1>2. \A b \in B : Measured(target, op, b) # {}
  BY DEF MeasuredBatches
<1>3. \A b : Measured(target, op, b) # {} => NoLater(L(b, x), L(b, y))
  BY MeasuredAnswers
<1>4. CASE Measured(target, op, batch) # {}
  <2>1. NoLater(L(batch, x), L(batch, y))
    BY <1>3, <1>4
  <2>2. L(batch, x) # None /\ L(batch, y) # None
    <3>1. Answers(L(batch, x), Measured(target, op, batch), x)
          /\ Answers(L(batch, y), Measured(target, op, batch), y)
      BY <1>4, LookupAnswers
    <3>2. GrowsWith(Measured(target, op, batch))
      BY MonotoneGrows
    <3>3. read \in Seq(GoodRows) /\ Measured(target, op, batch) \subseteq DOMAIN read
      BY DEF TableInv, Measured
    <3> HIDE DEF L
    <3> QED
      BY <3>1, <3>2, <3>3, AnswerType
  <2>3. N(x) = {L(batch, x)} /\ N(y) = {L(batch, y)}
    BY <1>1, <2>2
  <2> HIDE DEF N, L
  <2> QED
    BY <2>1, <2>3 DEF N
<1>5. CASE Measured(target, op, batch) = {}
  <2>1. L(batch, x) = None /\ L(batch, y) = None
    BY <1>5, LookupAnswers
  <2>2. CASE B = {}
    <3>1. N(x) = {None} /\ N(y) = {None}
      BY <1>1, <2>1, <2>2
    <3> HIDE DEF N
    <3> QED
      BY <3>1 DEF N, NoLater
  <2>3. CASE B # {}
    <3>1. N(x) = {L(b, x) : b \in near} /\ N(y) = {L(b, y) : b \in near}
      BY <1>1, <2>1, <2>3
    <3>2. \A b \in near : NoLater(L(b, x), L(b, y))
      BY <1>2, <1>3
    <3> HIDE DEF N, L, near
    <3> QED
      BY <3>1, <3>2 DEF N
  <2> QED
    BY <2>2, <2>3
<1> QED
  BY <1>4, <1>5

\* So the work of a step, by the table or by the roofline.
LEMMA MeasuredWork ==
  ASSUME NEW gpu \in GpuSpecs, NEW m \in LlmConfigs, NEW c \in Clusters, NEW batch \in Nat,
         NEW x \in Nat, NEW y \in Nat, x <= y, NEW p, NEW q, NoLater(p, q)
  PROVE  /\ DecodeLatency(gpu, batch, x, m, p, c) \in LowestTerms
         /\ DecodeLatency(gpu, batch, y, m, q, c) \in LowestTerms
         /\ AtMost(DecodeLatency(gpu, batch, x, m, p, c), DecodeLatency(gpu, batch, y, m, q, c))
<1>1. CASE p = None /\ q = None
  <2> DEFINE a == DecodeWork(gpu, batch, x, m, c)
             b == DecodeWork(gpu, batch, y, m, c)
  <2>1. /\ a \in LowestTerms /\ b \in LowestTerms
        /\ DecodeLatency(gpu, batch, x, m, None, c) = Pipelined(a, batch, m, c)
        /\ DecodeLatency(gpu, batch, y, m, None, c) = Pipelined(b, batch, m, c)
    BY DecodeWorkType
  <2>2. AtMost(a, b)
    BY GroupTypes, RooflineGrows DEF DecodeWork
  <2> HIDE DEF a, b
  <2> QED
    BY <1>1, <2>1, <2>2, PipelinedGrows
<1>2. CASE p # None /\ q # None /\ NoLater(p, q)
  <2> DEFINE tp == Greatest(c.tp, 1)
             d == p.den * tp
             e == q.den * tp
             a == Frac(p.num, d)
             b == Frac(q.num, e)
  <2>1. /\ p.num \in Nat /\ p.den \in Nat \ {0} /\ q.num \in Nat /\ q.den \in Nat \ {0}
        /\ p.num * q.den <= q.num * p.den
    BY <1>2 DEF NoLater, AtMost
  <2>2. tp \in Nat \ {0}
    BY GroupTypes
  <2>3. /\ DecodeLatency(gpu, batch, x, m, p, c) = Pipelined(a, batch, m, c)
        /\ DecodeLatency(gpu, batch, y, m, q, c) = Pipelined(b, batch, m, c)
    BY <1>2 DEF DecodeLatency
  <2> HIDE DEF tp
  <2>4. d \in Nat \ {0} /\ e \in Nat \ {0}
    BY <2>1, <2>2
  <2>5. p.num * e <= q.num * d
    <3> DEFINE u == p.num * q.den
               v == q.num * p.den
    <3>1. u \in Nat /\ v \in Nat /\ u <= v
      BY <2>1
    <3>2. p.num * e = u * tp /\ q.num * d = v * tp
      BY <2>1, <2>2
    <3> HIDE DEF u, v, d, e
    <3>3. u * tp <= v * tp
      BY <2>2, <3>1
    <3> QED
      BY <3>2, <3>3
  <2> HIDE DEF d, e
  <2>6. a \in LowestTerms /\ b \in LowestTerms /\ AtMost(a, b)
    BY <2>1, <2>4, <2>5, FracType, FracAtMost
  <2> HIDE DEF a, b
  <2> QED
    BY <2>3, <2>6, PipelinedGrows
<1> QED
  BY <1>1, <1>2 DEF NoLater

\* ... and the price of a step.
LEMMA LongerPrice ==
  ASSUME NEW s, WellSetUp(s), NEW batch \in Nat,
         NEW x \in Nat, NEW y \in Nat, x <= y, NEW p, NEW q, NoLater(p, q)
  PROVE  AtMost(PriceOf(s, p, batch, x), PriceOf(s, q, batch, y))
<1> DEFINE c == s.cluster
           m == s.model
           gpu == s.gpu
           spec == s.spec
           mtp == s.mtp
           a == DecodeLatency(gpu, batch, x, m, p, c)
           b == DecodeLatency(gpu, batch, y, m, q, c)
           v == DecodeLatency(gpu, batch, x, spec.draft_model, None, c)
           w == DecodeLatency(gpu, batch, y, spec.draft_model, None, c)
<1>1. /\ gpu \in GpuSpecs /\ m \in LlmConfigs /\ c \in Clusters
      /\ Speculates(spec) /\ Speculates(mtp)
      /\ spec # None => spec.draft_model \in LlmConfigs
  BY DEF WellSetUp
<1>2. /\ PriceOf(s, p, batch, x) = StepOf(a, v, m, spec, mtp)
      /\ PriceOf(s, q, batch, y) = StepOf(b, w, m, spec, mtp)
  BY StepLatencyIs DEF PriceOf
<1> HIDE DEF c, m, gpu, spec, mtp
<1>3. a \in LowestTerms /\ b \in LowestTerms /\ AtMost(a, b)
  BY <1>1, MeasuredWork
<1>4. spec # None => v \in LowestTerms /\ w \in LowestTerms /\ AtMost(v, w)
  <2>1. NoLater(None, None)
    BY DEF NoLater
  <2> QED
    BY <1>1, <2>1, MeasuredWork
<1> HIDE DEF a, b, v, w
<1>5. AtMost(a, Times(Whole(1), b))
  BY <1>3, BoundOnce
<1>6. spec # None => v \in LowestTerms /\ w \in LowestTerms /\ AtMost(v, Times(Whole(1), w))
  BY <1>4, BoundOnce
<1>7. /\ StepOf(b, w, m, spec, mtp) \in LowestTerms
      /\ AtMost(StepOf(a, v, m, spec, mtp), Times(Whole(1), StepOf(b, w, m, spec, mtp)))
  BY <1>1, <1>3, <1>5, <1>6, StepBound
<1> QED
  BY <1>2, <1>7, BoundOnce

\* While a batch stays together its steps never get cheaper as contexts grow, if
\* the table is monotone itself (avg_kv_len, decode_latency, roofline_decode,
\* lookup_nearest_batch).
THEOREM NeverCheaper == PricedSpec => LongerNeverCheaper
<1>1. ASSUME PricedInv, [PricedNext]_<<vars, priced>>, DecodeStep, MonotoneRows,
             NEW lens, lens = kv_lens'
      PROVE  /\ \A p \in StepPrices(kv_lens) : \E q \in StepPrices(lens) : AtMost(p, q)
             /\ \A q \in StepPrices(lens) : \E p \in StepPrices(kv_lens) : AtMost(p, q)
  <2> DEFINE n == Len(kv_lens)
             x == TotalKvLen(kv_lens) \div n
             y == TotalKvLen(lens) \div n
             T(len) == LookupNearestBatch(setup.target, "decode", n, len)
             P(v, len) == PriceOf(setup, v, n, len)
  <2>1. /\ TableInv /\ phase = "loaded" /\ WellSetUp(setup)
        /\ kv_lens \in Seq(Nat) /\ kv_lens # <<>>
        /\ lens = [i \in DOMAIN kv_lens |-> kv_lens[i] + Advance]
    BY <1>1 DEF PricedInv, DecodeStep
  <2>2. Advance \in Nat
    BY <1>1, <2>1, AdvanceHolds DEF DecodeStep, IsSetUp
  <2>3. n \in Nat /\ Len(lens) = n /\ x \in Nat /\ y \in Nat /\ x <= y
    BY <2>1, <2>2, LongerMean
  <2>4. /\ StepPrices(kv_lens) = {P(v, x) : v \in T(x)}
        /\ StepPrices(lens) = {P(v, y) : v \in T(y)}
    BY <2>3 DEF StepPrices
  <2>5. "decode" \in KernelOps
    BY DEF KernelOps
  <2> HIDE DEF n, x, y
  <2>6. /\ \A p \in T(x) : \E q \in T(y) : NoLater(p, q)
        /\ \A q \in T(y) : \E p \in T(x) : NoLater(p, q)
    BY <1>1, <2>1, <2>3, <2>5, NearestAnswers
  <2>7. \A p, q : NoLater(p, q) => AtMost(P(p, x), P(q, y))
    BY <2>1, <2>3, LongerPrice
  <2> HIDE DEF T, P
  <2> QED
    BY <2>4, <2>6, <2>7
<1>2. PricedInv /\ [PricedNext]_<<vars, priced>> =>
        [DecodeStep /\ MonotoneRows =>
           \A after \in {StepPrices(lens) : lens \in {kv_lens'}} :
             /\ \A p \in StepPrices(kv_lens) : \E q \in after : AtMost(p, q)
             /\ \A q \in after : \E p \in StepPrices(kv_lens) : AtMost(p, q)]_<<vars, priced>>
  BY <1>1
<1> QED
  BY PricedInvAlways, <1>2, PTL DEF PricedSpec, LongerNeverCheaper

-----------------------------------------------------------------------------
(* Links one by one *)

\* One more time as much.
LEMMA OneMoreTime ==
  ASSUME NEW p \in Nat, NEW a \in LowestTerms
  PROVE  /\ Times(Whole(p), a) \in LowestTerms
         /\ Times(Whole(p + 1), a) = Plus(Times(Whole(p), a), a)
<1>1. Whole(p) \in LowestTerms /\ Whole(1) \in LowestTerms /\ Plus(Whole(p), Whole(1)) = Whole(p + 1)
  BY WholeLaws
<1>2. Times(a, Plus(Whole(p), Whole(1))) = Plus(Times(a, Whole(p)), Times(a, Whole(1)))
  BY <1>1, TimesLaws
<1>3. Times(Whole(p + 1), a) = Times(a, Whole(p + 1))
  BY <1>1, PlusLaws, TimesLaws
<1>4. Times(a, Whole(p)) = Times(Whole(p), a)
  BY <1>1, TimesLaws
<1>5. Times(a, Whole(1)) = a
  <2>1. Times(a, Whole(1)) = Times(Whole(1), a)
    BY <1>1, TimesLaws
  <2> QED
    BY <2>1, TimesLaws
<1>6. Times(Whole(p), a) \in LowestTerms
  BY <1>1, TimesLaws
<1> QED
  BY <1>1, <1>2, <1>3, <1>4, <1>5, <1>6

\* The sum over links of two kinds, the far ones among the first i being far[i].
LEMMA TwoKinds ==
  ASSUME NEW n \in Nat, NEW a \in LowestTerms, NEW b \in LowestTerms
  PROVE  \A far \in [0 .. n -> Nat], s \in [1 .. n -> LowestTerms] :
           /\ far[0] = 0 /\ \A i \in 0 .. n : far[i] <= i
           /\ \A i \in 1 .. n : \/ far[i] = far[i - 1] /\ s[i] = a
                                \/ far[i] = far[i - 1] + 1 /\ s[i] = b
           => SumOf(s) = Plus(Times(Whole(n - far[n]), a), Times(Whole(far[n]), b))
<1> SUFFICES ASSUME NEW far \in [0 .. n -> Nat], NEW s \in [1 .. n -> LowestTerms],
                    far[0] = 0, \A i \in 0 .. n : far[i] <= i,
                    \A i \in 1 .. n : \/ far[i] = far[i - 1] /\ s[i] = a
                                      \/ far[i] = far[i - 1] + 1 /\ s[i] = b
             PROVE  SumOf(s) = Plus(Times(Whole(n - far[n]), a), Times(Whole(far[n]), b))
  OBVIOUS
<1>1. PICK f \in [0 .. n -> LowestTerms] :
        f[0] = Zero /\ (\A i \in 1 .. n : f[i] = Plus(f[i - 1], s[i])) /\ SumOf(s) = f[n]
  BY SumSteps
<1> DEFINE X(p, q) == Plus(Times(Whole(p), a), Times(Whole(q), b))
           P == {i \in 0 .. n : f[i] = X(i - far[i], far[i])}
<1>2. 0 \in P
  <2>1. X(0, 0) = Zero
    <3>1. Times(Zero, a) = Zero /\ Times(Zero, b) = Zero /\ Zero = Whole(0) /\ Zero \in LowestTerms
      BY TimesLaws, WholeLaws
    <3>2. Plus(Zero, Zero) = Zero
      BY <3>1, PlusLaws
    <3> QED
      BY <3>1, <3>2
  <2> HIDE DEF X
  <2> QED
    BY <1>1, <2>1
<1>3. \A p, q \in Nat : X(p + 1, q) = Plus(X(p, q), a) /\ X(p, q + 1) = Plus(X(p, q), b)
  <2> TAKE p, q \in Nat
  <2> DEFINE u == Times(Whole(p), a)
             v == Times(Whole(q), b)
  <2>1. u \in LowestTerms /\ Times(Whole(p + 1), a) = Plus(u, a)
    BY OneMoreTime
  <2>2. v \in LowestTerms /\ Times(Whole(q + 1), b) = Plus(v, b)
    BY OneMoreTime
  <2> HIDE DEF u, v
  <2>3. Plus(Plus(u, a), v) = Plus(Plus(u, v), a)
    <3>1. Plus(Plus(u, a), v) = Plus(u, Plus(a, v))
      BY <2>1, <2>2, PlusLaws
    <3>2. Plus(a, v) = Plus(v, a)
      BY <2>2, PlusLaws
    <3>3. Plus(u, Plus(v, a)) = Plus(Plus(u, v), a)
      BY <2>1, <2>2, PlusLaws
    <3> QED
      BY <3>1, <3>2, <3>3
  <2>4. Plus(u, Plus(v, b)) = Plus(Plus(u, v), b)
    BY <2>1, <2>2, PlusLaws
  <2> QED
    BY <2>1, <2>2, <2>3, <2>4 DEF u, v
<1>4. ASSUME NEW i \in 1 .. n, i - 1 \in P PROVE i \in P
  <2> DEFINE q == far[i - 1]
             p == i - 1 - q
  <2>1. /\ i - 1 \in 0 .. n /\ i \in 0 .. n /\ q \in Nat /\ q <= i - 1
        /\ f[i] = Plus(f[i - 1], s[i])
    BY <1>1
  <2>2. p \in Nat /\ f[i - 1] = X(p, q)
    BY <1>4, <2>1
  <2>3. (far[i] = q /\ s[i] = a) \/ (far[i] = q + 1 /\ s[i] = b)
    OBVIOUS
  <2> HIDE DEF X
  <2>4. CASE far[i] = q /\ s[i] = a
    <3>1. i - far[i] = p + 1
      BY <2>1, <2>4
    <3>2. f[i] = X(p + 1, q)
      BY <1>3, <2>1, <2>2, <2>4
    <3> QED
      BY <2>1, <2>4, <3>1, <3>2
  <2>5. CASE far[i] = q + 1 /\ s[i] = b
    <3>1. i - far[i] = p
      BY <2>1, <2>5
    <3>2. f[i] = X(p, q + 1)
      BY <1>3, <2>1, <2>2, <2>5
    <3> QED
      BY <2>1, <2>5, <3>1, <3>2
  <2> QED
    BY <2>3, <2>4, <2>5
<1> HIDE DEF X, P
<1>5. \A i \in 0 .. n : i \in P
  BY <1>2, <1>4, UpTo
<1>6. n \in 0 .. n
  OBVIOUS
<1> QED
  BY <1>1, <1>5, <1>6 DEF P, X

\* The node of each GPU, and of the one after it.
LEMMA NextNode ==
  ASSUME NEW i \in Nat \ {0}, NEW N \in Nat \ {0}
  PROVE  /\ i \div N \in Nat /\ (i - 1) \div N \in Nat /\ i \div N <= i
         /\ i \div N = (i - 1) \div N \/ i \div N = (i - 1) \div N + 1
         /\ 0 \div N = 0 /\ (i \div N = 0 <=> i < N)
<1> DEFINE p == (i - 1) \div N
           q == i \div N
<1>1. /\ p \in Nat /\ p * N <= i - 1 /\ i - 1 < (p + 1) * N
      /\ q \in Nat /\ q * N <= i /\ i < (q + 1) * N
      /\ \A r \in Nat : i < r * N => q < r
  BY DivHolds
<1>2. p <= q
  BY DivGrows
<1>3. q <= p + 1
  <2> HIDE DEF p, q
  <2>1. (p + 2) * N = (p + 1) * N + N
    BY <1>1
  <2>2. i < (p + 2) * N
    BY <1>1, <2>1
  <2>3. p + 2 \in Nat
    BY <1>1
  <2>4. q < p + 2
    BY <1>1, <2>2, <2>3
  <2> QED
    BY <1>1, <2>4
<1>4. 0 \div N = 0
  <2>1. 0 \div N \in Nat /\ (0 \div N) * N <= 0
    BY DivHolds
  <2> DEFINE z == 0 \div N
  <2>2. z \in Nat /\ z * N <= 0
    BY <2>1
  <2> HIDE DEF z
  <2>3. z = 0
    BY <2>2
  <2> QED
    BY <2>3 DEF z
<1> HIDE DEF p, q
<1>5. q <= i
  <2>1. q <= q * N
    BY <1>1
  <2> QED
    BY <1>1, <2>1
<1>6. q = 0 <=> i < N
  <2>1. q = 0 => i < N
    BY <1>1
  <2>2. q >= 1 => N <= q * N
    BY <1>1
  <2> QED
    BY <1>1, <2>1, <2>2
<1>7. q = p \/ q = p + 1
  BY <1>1, <1>2, <1>3
<1> QED
  BY <1>1, <1>4, <1>5, <1>6, <1>7 DEF p, q

\* Where a pipeline hands over (pp_transfer_latency).
LEMMA PipelinePlaced ==
  ASSUME NEW c \in Clusters, c.scale_up_bw > 0, c.scale_out_bw > 0, c.pp > 1, NEW bytes \in Nat
  PROVE  Times(Whole(c.pp - 1), PpTransferLatency(c, bytes, TRUE))
           = SumOf([i \in 1 .. c.pp - 1 |->
                      Hop(bytes, LinkBw(c, i - 1, i), LinkLatency(c, i - 1, i))])
<1> DEFINE B == c.pp - 1
           N == NodeSize(c)
           a == Hop(bytes, c.scale_up_bw, c.scale_up_latency)
           b == Hop(bytes, c.scale_out_bw, c.scale_out_latency)
           s == [i \in 1 .. B |-> Hop(bytes, LinkBw(c, i - 1, i), LinkLatency(c, i - 1, i))]
           far == [i \in 0 .. B |-> i \div N]
           X == Plus(Times(Whole(B - B \div N), a), Times(Whole(B \div N), b))
           T == PpTransferLatency(c, bytes, TRUE)
<1>1. /\ B \in Nat \ {0} /\ N \in Nat \ {0} /\ c.scale_up_bw \in Nat \ {0}
      /\ c.scale_out_bw \in Nat \ {0} /\ c.scale_up_latency \in Nat /\ c.scale_out_latency \in Nat
      /\ c.pp = B + 1 /\ ~ (c.pp <= 1)
  BY ClusterFields, NodeSizeType
<1>2. a \in LowestTerms /\ b \in LowestTerms
  BY <1>1, HopGrows
<1>3. \A i \in 1 .. B : s[i] = IF (i - 1) \div N = i \div N THEN a ELSE b
  BY DEF LinkBw, LinkLatency, SameNode
<1>4. CrossBoundaries(c) = B \div N
  BY DEF CrossBoundaries
<1>5. ASSUME SpansScaleOut(c, c.pp) PROVE Times(Whole(B), T) = X
  <2>1. T = Over(X, Whole(B))
    <3>1. Greatest(c.scale_up_bw, 1) = c.scale_up_bw /\ Greatest(c.scale_out_bw, 1) = c.scale_out_bw
      BY <1>1 DEF Greatest
    <3> QED
      <4>1. c.pp - 1 = B /\ B - CrossBoundaries(c) = B - B \div N
        BY <1>4
      <4>2. T = MeanBoundary(c, bytes, c.scale_out_bw)
        BY <1>1, <1>5 DEF PpTransferLatency
      <4>3. MeanBoundary(c, bytes, c.scale_out_bw)
              = Over(Plus(Times(Whole(B - CrossBoundaries(c)), a),
                          Times(Whole(CrossBoundaries(c)), b)), Whole(B))
        BY <3>1 DEF MeanBoundary
      <4> HIDE DEF T, a, b, B, N
      <4> QED
        BY <1>4, <4>2, <4>3
  <2>2. B - B \div N \in Nat /\ B \div N \in Nat
    <3>1. B \div N \in Nat /\ B \div N <= B
      <4> HIDE DEF B, N
      <4> QED
        BY <1>1, NextNode
    <3> QED
      BY <1>1, <3>1
  <2>3. X \in LowestTerms
    <3> HIDE DEF a, b, B, N
    <3>1. Whole(B - B \div N) \in LowestTerms /\ Whole(B \div N) \in LowestTerms
      BY <2>2, WholeLaws
    <3>2. Times(Whole(B - B \div N), a) \in LowestTerms /\ Times(Whole(B \div N), b) \in LowestTerms
      BY <1>2, <3>1, TimesLaws
    <3> QED
      BY <3>2, PlusLaws
  <2>4. Times(Whole(B), Over(X, Whole(B))) = X
    <3> HIDE DEF B, X
    <3> DEFINE w == Whole(B)
               r == Reciprocal(w)
    <3>1. w \in LowestTerms /\ w # Zero
      BY <1>1, WholeLaws
    <3> HIDE DEF w
    <3>2. r \in LowestTerms /\ Over(X, w) = Times(X, r) /\ Times(w, r) = Whole(1)
      BY <2>3, <3>1, OverLaws
    <3> HIDE DEF r
    <3>3. Times(w, Times(X, r)) = Times(Times(w, r), X)
      <4>1. Times(X, r) = Times(r, X)
        BY <2>3, <3>2, TimesLaws
      <4> QED
        BY <2>3, <3>1, <3>2, <4>1, TimesLaws
    <3>4. Times(Whole(1), X) = X
      BY <2>3, TimesLaws
    <3> QED
      BY <3>2, <3>3, <3>4 DEF w
  <2> HIDE DEF T, X
  <2> QED
    BY <2>1, <2>4
<1>6. ASSUME ~ SpansScaleOut(c, c.pp) PROVE Times(Whole(B), T) = X
  <2>1. T = a
    BY <1>1, <1>6 DEF PpTransferLatency
  <2>2. B < N
    BY <1>1, <1>6 DEF SpansScaleOut
  <2>3. B \div N = 0
    <3> HIDE DEF B, N
    <3> QED
      BY <1>1, <2>2, NextNode
  <2>4. X = Times(Whole(B), a)
    <3>1. X = Plus(Times(Whole(B), a), Times(Whole(0), b))
      BY <1>1, <2>3
    <3> HIDE DEF a, b, B, N, X
    <3>2. Times(Whole(0), b) = Zero /\ Times(Whole(B), a) \in LowestTerms
      <4>1. Whole(B) \in LowestTerms /\ Whole(0) = Zero
        BY <1>1, WholeLaws
      <4> QED
        BY <1>2, <4>1, TimesLaws
    <3> QED
      BY <3>1, <3>2, PlusLaws
  <2> HIDE DEF T, X, a
  <2> QED
    BY <2>1, <2>4
<1>7. Times(Whole(B), T) = X
  <2> HIDE DEF T, X
  <2> QED
    BY <1>5, <1>6
<1>8. SumOf(s) = X
  <2>1. s \in [1 .. B -> LowestTerms]
    <3> HIDE DEF a, b
    <3> QED
      BY <1>2, <1>3
  <2> HIDE DEF a, b, N, s
  <2>2. \A i \in 1 .. B : /\ i \in Nat \ {0} /\ i \div N \in Nat /\ i \div N <= i
                          /\ i \div N = (i - 1) \div N \/ i \div N = (i - 1) \div N + 1
                          /\ i \div N = (i - 1) \div N => s[i] = a
                          /\ i \div N = (i - 1) \div N + 1 => s[i] = b
    <3> HIDE DEF B
    <3> TAKE i \in 1 .. B
    <3>1. i \in Nat \ {0}
      BY <1>1
    <3>2. /\ i \div N \in Nat /\ (i - 1) \div N \in Nat /\ i \div N <= i
          /\ i \div N = (i - 1) \div N \/ i \div N = (i - 1) \div N + 1
      BY <1>1, <3>1, NextNode
    <3>3. s[i] = IF (i - 1) \div N = i \div N THEN a ELSE b
      BY <1>3
    <3> QED
      BY <3>1, <3>2, <3>3
  <2>3. 0 \div N = 0
    <3>1. 1 \in Nat \ {0}
      OBVIOUS
    <3> QED
      BY <1>1, <3>1, NextNode
  <2>4. \A i \in 0 .. B : i = 0 \/ i \in 1 .. B
    BY <1>1
  <2>5. /\ far \in [0 .. B -> Nat] /\ far[0] = 0 /\ \A i \in 0 .. B : far[i] <= i
    <3>1. \A i \in 0 .. B : i \div N \in Nat /\ i \div N <= i
      BY <2>2, <2>3, <2>4
    <3>2. 0 \in 0 .. B /\ B \in Nat
      BY <1>1
    <3> HIDE DEF B
    <3> QED
      BY <2>3, <3>1, <3>2
  <2>6. \A i \in 1 .. B : \/ far[i] = far[i - 1] /\ s[i] = a
                          \/ far[i] = far[i - 1] + 1 /\ s[i] = b
    <3> TAKE i \in 1 .. B
    <3>1. i \in 0 .. B /\ i - 1 \in 0 .. B
      BY <1>1
    <3>2. far[i] = i \div N /\ far[i - 1] = (i - 1) \div N
      BY <3>1
    <3> HIDE DEF far
    <3> QED
      BY <2>2, <3>2
  <2>7. far[B] = B \div N
    BY <1>1
  <2> HIDE DEF B, far
  <2>8. SumOf(s) = Plus(Times(Whole(B - far[B]), a), Times(Whole(far[B]), b))
    <3>1. B \in Nat
      BY <1>1
    <3> QED
      <4>1. \A f \in [0 .. B -> Nat], t \in [1 .. B -> LowestTerms] :
              /\ f[0] = 0 /\ \A i \in 0 .. B : f[i] <= i
              /\ \A i \in 1 .. B : \/ f[i] = f[i - 1] /\ t[i] = a
                                   \/ f[i] = f[i - 1] + 1 /\ t[i] = b
              => SumOf(t) = Plus(Times(Whole(B - f[B]), a), Times(Whole(f[B]), b))
        BY <1>2, <3>1, TwoKinds
      <4> QED
        BY <2>1, <2>5, <2>6, <4>1, Zenon
  <2> QED
    BY <2>7, <2>8
<1> HIDE DEF X
<1> QED
  BY <1>7, <1>8 DEF T

\* What the first GPU sends each of the others (ep_all_to_all_latency).
LEMMA ExpertsPlaced ==
  ASSUME NEW c \in Clusters, c.scale_up_bw > 0, c.scale_out_bw > 0, c.ep > 1, NEW message \in Nat
  PROVE  EpByMessage(c, message)
           = Plus(Whole(c.scale_up_latency
                          + IF SameNode(c, 0, c.ep - 1) THEN 0 ELSE c.scale_out_latency),
                  SumOf([j \in 1 .. c.ep - 1 |-> Frac(message, c.ep * LinkBw(c, 0, j))]))
<1> DEFINE B == c.ep - 1
           N == NodeSize(c)
           up == c.ep * c.scale_up_bw
           out == c.ep * c.scale_out_bw
           L == c.scale_up_latency
           K == c.scale_out_latency
           a == Frac(message, up)
           b == Frac(message, out)
           s == [j \in 1 .. B |-> Frac(message, c.ep * LinkBw(c, 0, j))]
           far == [j \in 0 .. B |-> SatSub(j, N - 1)]
           F == SatSub(B, N - 1)
           X == Plus(Times(Whole(B - F), a), Times(Whole(F), b))
<1>1. /\ B \in Nat \ {0} /\ N \in Nat \ {0} /\ c.ep = B + 1 /\ L \in Nat /\ K \in Nat
  BY ClusterFields, NodeSizeType
<1>2. up \in Nat \ {0} /\ out \in Nat \ {0}
  <2>1. c.ep \in Nat \ {0} /\ c.scale_up_bw \in Nat \ {0} /\ c.scale_out_bw \in Nat \ {0}
    BY ClusterFields
  <2> QED
    BY <2>1
<1>3. \A j \in 1 .. B : s[j] = IF j < N THEN a ELSE b
  <2> TAKE j \in 1 .. B
  <2>1. j \in Nat \ {0}
    BY <1>1
  <2>2. 0 \div N = 0 /\ j \div N \in Nat /\ (j \div N = 0 <=> j < N)
    <3> HIDE DEF N
    <3> QED
      BY <1>1, <2>1, NextNode
  <2>3. SameNode(c, 0, j) <=> j < N
    BY <2>2 DEF SameNode
  <2> QED
    BY <2>3 DEF LinkBw
<1> HIDE DEF up, out
<1>4. a \in LowestTerms /\ b \in LowestTerms
  BY <1>2, FracType
<1>5. SumOf(s) = X
  <2> HIDE DEF a, b, N, s
  <2>1. s \in [1 .. B -> LowestTerms]
    BY <1>3, <1>4 DEF s
  <2>2. far \in [0 .. B -> Nat] /\ far[0] = 0 /\ \A j \in 0 .. B : far[j] <= j
    BY <1>1 DEF SatSub
  <2>3. \A j \in 1 .. B : \/ far[j] = far[j - 1] /\ s[j] = a
                          \/ far[j] = far[j - 1] + 1 /\ s[j] = b
    <3> TAKE j \in 1 .. B
    <3>1. j \in 0 .. B /\ j - 1 \in 0 .. B
      BY <1>1
    <3>2. far[j] = SatSub(j, N - 1) /\ far[j - 1] = SatSub(j - 1, N - 1)
      BY <3>1
    <3>3. s[j] = IF j < N THEN a ELSE b
      BY <1>3
    <3> HIDE DEF far
    <3>4. CASE j < N
      <4>1. far[j] = 0 /\ far[j - 1] = 0
        BY <1>1, <3>1, <3>2, <3>4 DEF SatSub
      <4> QED
        BY <3>3, <3>4, <4>1
    <3>5. CASE ~ (j < N)
      <4>1. far[j] = far[j - 1] + 1
        BY <1>1, <3>1, <3>2, <3>5 DEF SatSub
      <4> QED
        BY <3>3, <3>5, <4>1
    <3> QED
      BY <3>4, <3>5
  <2>4. far[B] = F
    BY <1>1
  <2> HIDE DEF B, far, F
  <2>5. SumOf(s) = Plus(Times(Whole(B - far[B]), a), Times(Whole(far[B]), b))
    <3>1. B \in Nat
      BY <1>1
    <3> QED
      <4>1. \A f \in [0 .. B -> Nat], t \in [1 .. B -> LowestTerms] :
              /\ f[0] = 0 /\ \A i \in 0 .. B : f[i] <= i
              /\ \A i \in 1 .. B : \/ f[i] = f[i - 1] /\ t[i] = a
                                   \/ f[i] = f[i - 1] + 1 /\ t[i] = b
              => SumOf(t) = Plus(Times(Whole(B - f[B]), a), Times(Whole(f[B]), b))
        BY <1>4, <3>1, TwoKinds
      <4> QED
        BY <2>1, <2>2, <2>3, <4>1, Zenon
  <2> QED
    BY <2>4, <2>5
<1>6. SameNode(c, 0, B) <=> B < N
  <2>1. 0 \div N = 0 /\ B \div N \in Nat /\ (B \div N = 0 <=> B < N)
    <3> HIDE DEF N, B
    <3> QED
      BY <1>1, NextNode
  <2> QED
    BY <2>1 DEF SameNode
<1>7. /\ F \in Nat /\ B - F \in Nat
      /\ Times(Whole(B - F), a) = Frac(message * (B - F), up)
      /\ Times(Whole(F), b) = Frac(message * F, out)
  <2>1. F \in Nat /\ B - F \in Nat
    BY <1>1 DEF SatSub
  <2> DEFINE G == B - F
  <2>2. G \in Nat
    BY <2>1
  <2> HIDE DEF F, G
  <2>3. message * G = G * message /\ message * F = F * message
    BY <2>1, <2>2
  <2>4. Times(Whole(G), a) = Frac(G * message, up) /\ Times(Whole(F), b) = Frac(F * message, out)
    BY <1>2, <2>1, <2>2, FracLaws
  <2> QED
    BY <2>1, <2>3, <2>4 DEF G
<1>8. CASE SpansScaleOut(c, c.ep)
  <2>1. N <= B /\ F = c.ep - N /\ B - F = N - 1 /\ Least(N, c.ep) = N
    BY <1>1, <1>8 DEF SpansScaleOut, SatSub, Least
  <2> DEFINE p == Frac(message * (N - 1), up)
             q == Frac(message * (c.ep - N), out)
  <2>2. EpByMessage(c, message) = Plus(Plus(Whole(L), p), Plus(Whole(K), q))
    BY <1>1, <1>8, <2>1 DEF EpByMessage, SpreadLatency, Hop, up, out
  <2>3. X = Plus(p, q)
    BY <1>7, <2>1
  <2>4. p \in LowestTerms /\ q \in LowestTerms
    <3>1. message * (N - 1) \in Nat /\ message * (c.ep - N) \in Nat
      <4>1. N - 1 \in Nat /\ c.ep - N \in Nat
        BY <1>1, <2>1
      <4> QED
        BY <4>1
    <3> QED
      BY <1>2, <3>1, FracType
  <2>5. Whole(L) \in LowestTerms /\ Whole(K) \in LowestTerms /\ Plus(Whole(L), Whole(K)) = Whole(L + K)
    BY <1>1, WholeLaws
  <2> HIDE DEF p, q
  <2>6. Plus(Plus(Whole(L), p), Plus(Whole(K), q)) = Plus(Whole(L + K), Plus(p, q))
    <3> DEFINE l == Whole(L)
               k == Whole(K)
    <3>1. l \in LowestTerms /\ k \in LowestTerms
      BY <2>5
    <3> HIDE DEF l, k
    <3>2. Plus(k, q) \in LowestTerms /\ Plus(p, q) \in LowestTerms
      BY <2>4, <3>1, PlusLaws
    <3>3. Plus(Plus(l, p), Plus(k, q)) = Plus(l, Plus(p, Plus(k, q)))
      BY <2>4, <3>1, <3>2, PlusLaws
    <3>4. Plus(p, Plus(k, q)) = Plus(Plus(p, k), q)
      BY <2>4, <3>1, PlusLaws
    <3>5. Plus(p, k) = Plus(k, p)
      BY <2>4, <3>1, PlusLaws
    <3>6. Plus(Plus(k, p), q) = Plus(k, Plus(p, q))
      BY <2>4, <3>1, PlusLaws
    <3>7. Plus(l, Plus(k, Plus(p, q))) = Plus(Plus(l, k), Plus(p, q))
      BY <2>4, <3>1, <3>2, PlusLaws
    <3> QED
      BY <2>5, <3>3, <3>4, <3>5, <3>6, <3>7 DEF l, k
  <2>7. ~ SameNode(c, 0, B)
    BY <1>1, <1>6, <2>1
  <2> HIDE DEF X
  <2> QED
    BY <1>5, <2>2, <2>3, <2>6, <2>7
<1>9. CASE ~ SpansScaleOut(c, c.ep)
  <2>1. B < N /\ F = 0 /\ B - F = B
    BY <1>1, <1>9 DEF SpansScaleOut, SatSub
  <2> DEFINE p == Frac(message * B, up)
  <2>2. EpByMessage(c, message) = Plus(Whole(L), p)
    BY <1>1, <1>9 DEF EpByMessage, Hop, up
  <2>3. p \in LowestTerms
    <3>1. message * B \in Nat
      BY <1>1
    <3> QED
      BY <1>2, <3>1, FracType
  <2>4. X = p
    <3>1. message * 0 = 0
      OBVIOUS
    <3>2. Frac(0, out) = Zero
      BY <1>2, FracLaws
    <3>3. X = Plus(p, Zero)
      BY <1>7, <2>1, <3>1, <3>2
    <3> HIDE DEF X, p
    <3> QED
      BY <2>3, <3>3, PlusLaws
  <2>5. SameNode(c, 0, B) /\ L + 0 = L
    BY <1>1, <1>6, <2>1
  <2> HIDE DEF X, p
  <2> QED
    BY <1>5, <2>2, <2>4, <2>5
<1> QED
  BY <1>8, <1>9

\* The nodes of a tensor-parallel group, and its GPUs on the first of them.
LEMMA GroupPlaced ==
  ASSUME NEW c \in Clusters, c.tp > 1
  PROVE  LET nodes == {i \div NodeSize(c) : i \in 0 .. c.tp - 1}
             first == {i \in 0 .. c.tp - 1 : SameNode(c, 0, i)}
         IN  /\ Cardinality(nodes) = CeilDiv(c.tp, NodeSize(c))
             /\ Cardinality(first) = Least(NodeSize(c), c.tp)
             /\ Cardinality(nodes) > 1 => c.tp > NodeSize(c)
<1> DEFINE B == c.tp - 1
           N == NodeSize(c)
           q == B \div N
           nodes == {i \div N : i \in 0 .. B}
           first == {i \in 0 .. B : SameNode(c, 0, i)}
<1>1. B \in Nat \ {0} /\ N \in Nat \ {0} /\ c.tp = B + 1
  BY ClusterFields, NodeSizeType
<1>2. /\ q \in Nat /\ q * N <= B /\ B < (q + 1) * N
  <2> HIDE DEF B, N
  <2> QED
    BY <1>1, DivHolds
<1>3. nodes = 0 .. q
  <2> HIDE DEF B, N, q
  <2>1. \A i \in 0 .. B : i \div N \in 0 .. q
    <3> TAKE i \in 0 .. B
    <3>1. i \in Nat /\ i <= B
      BY <1>1
    <3>2. i \div N \in Nat /\ i \div N <= B \div N
      BY <1>1, <3>1, DivGrows
    <3> QED
      BY <1>2, <3>2 DEF q
  <2>2. \A v \in 0 .. q : v * N \in 0 .. B /\ (v * N) \div N = v
    <3> TAKE v \in 0 .. q
    <3>1. v \in Nat /\ v <= q
      BY <1>2
    <3>2. v * N \in Nat /\ v * N <= q * N /\ v * N < (v + 1) * N
      BY <1>1, <1>2, <3>1
    <3> DEFINE w == v * N
               u == w \div N
    <3>3. w \in Nat
      BY <3>2
    <3> HIDE DEF w
    <3>4. u \in Nat /\ (\A r \in Nat : r * N <= w => r <= u) /\ (\A r \in Nat : w < r * N => u < r)
      BY <1>1, <3>3, DivHolds
    <3> HIDE DEF u
    <3>5. v <= u /\ u < v + 1
      <4>1. v + 1 \in Nat
        BY <3>1
      <4> QED
        BY <3>1, <3>2, <3>4, <4>1 DEF w
    <3>6. u = v
      BY <3>1, <3>4, <3>5
    <3>7. w \in 0 .. B
      BY <1>1, <1>2, <3>2, <3>3 DEF w
    <3> QED
      BY <3>6, <3>7 DEF u, w
  <2> QED
    BY <2>1, <2>2
<1>4. Cardinality(nodes) = q + 1
  <2> HIDE DEF nodes, q
  <2>1. 0 \in Int /\ q \in Int /\ ~ (0 > q)
    BY <1>2
  <2>2. Cardinality(0 .. q) = q - 0 + 1
    BY <2>1, FS_Interval
  <2> QED
    BY <1>2, <1>3, <2>2
<1>5. CeilDiv(c.tp, N) = q + 1
  <2> DEFINE m == B + N
             k == m \div N
  <2>1. CeilDiv(c.tp, N) = k
    <3>1. c.tp + N - 1 = m
      BY <1>1
    <3> QED
      BY <3>1 DEF CeilDiv
  <2> HIDE DEF B, N, q
  <2>2. m \in Nat /\ (q + 1) * N <= m /\ m < (q + 2) * N
    <3>1. (q + 1) * N = q * N + N /\ (q + 2) * N = (q + 1) * N + N
      BY <1>1, <1>2
    <3>2. q * N \in Nat /\ (q + 1) * N \in Nat
      BY <1>1, <1>2
    <3> QED
      BY <1>1, <1>2, <3>1, <3>2
  <2>3. q + 1 \in Nat /\ q + 2 \in Nat
    BY <1>2
  <2> HIDE DEF m
  <2>4. k \in Nat /\ (\A r \in Nat : r * N <= m => r <= k) /\ (\A r \in Nat : m < r * N => k < r)
    BY <1>1, <2>2, DivHolds
  <2> HIDE DEF k
  <2>5. q + 1 <= k /\ k < q + 2
    BY <2>2, <2>3, <2>4
  <2> QED
    BY <1>2, <2>1, <2>4, <2>5
<1>6. \A i \in 0 .. B : SameNode(c, 0, i) <=> i < N
  <2> TAKE i \in 0 .. B
  <2>1. 1 \in Nat \ {0} /\ (i = 0 \/ i \in Nat \ {0})
    BY <1>1
  <2> HIDE DEF N
  <2>2. 0 \div N = 0
    BY <1>1, <2>1, NextNode
  <2>3. CASE i = 0
    BY <1>1, <2>2, <2>3 DEF SameNode, N
  <2>4. CASE i \in Nat \ {0}
    <3>1. i \div N \in Nat /\ (i \div N = 0 <=> i < N)
      BY <1>1, <2>4, NextNode
    <3> QED
      BY <2>2, <3>1 DEF SameNode, N
  <2> QED
    BY <2>1, <2>3, <2>4
<1>7. Cardinality(first) = Least(N, c.tp)
  <2> DEFINE l == Least(N, c.tp) - 1
  <2>1. l \in Nat /\ l + 1 = Least(N, c.tp)
    BY <1>1 DEF Least
  <2>2. first = 0 .. l
    <3>1. \A i \in 0 .. B : i < N <=> i \in 0 .. l
      BY <1>1 DEF Least
    <3>2. \A i \in 0 .. l : i \in 0 .. B
      BY <1>1 DEF Least
    <3> HIDE DEF N, l, B
    <3> QED
      BY <1>6, <3>1, <3>2
  <2> HIDE DEF l, first
  <2>3. 0 \in Int /\ l \in Int /\ ~ (0 > l)
    BY <2>1
  <2>4. Cardinality(0 .. l) = l - 0 + 1
    BY <2>3, FS_Interval
  <2> QED
    BY <2>1, <2>2, <2>4
<1>8. q + 1 > 1 => c.tp > N
  <2> HIDE DEF B, N, q
  <2>1. q >= 1 => N <= q * N
    BY <1>1, <1>2
  <2> QED
    BY <1>1, <1>2, <2>1
<1> QED
  BY <1>4, <1>5, <1>7, <1>8

\* Collectives cost what their links cost, on any set-up.
LEMMA LinksHold ==
  ASSUME setup # None => WellSetUp(setup), kv_lens \in Seq(Nat)
  PROVE  LinksMatchPlacement
<1> SUFFICES ASSUME IsSetUp, setup.cluster.scale_up_bw > 0, setup.cluster.scale_out_bw > 0,
                    NEW c, c = setup.cluster, NEW bytes, bytes = BatchSize * setup.model.d_model,
                    NEW message,
                    message = DispatchBytes(c, BatchSize, setup.model.d_model, 1),
                    NEW nodes, nodes = {i \div NodeSize(c) : i \in 0 .. c.tp - 1},
                    NEW first, first = {i \in 0 .. c.tp - 1 : SameNode(c, 0, i)}
             PROVE  /\ c.pp > 1 =>
                         Times(Whole(c.pp - 1), PpTransferLatency(c, bytes, TRUE))
                           = SumOf([i \in 1 .. c.pp - 1 |->
                                      Hop(bytes, LinkBw(c, i - 1, i), LinkLatency(c, i - 1, i))])
                    /\ c.ep > 1 =>
                         EpAllToAllLatency(c, BatchSize, setup.model.d_model, 1)
                           = Plus(Whole(c.scale_up_latency
                                          + IF SameNode(c, 0, c.ep - 1) THEN 0
                                            ELSE c.scale_out_latency),
                                  SumOf([j \in 1 .. c.ep - 1 |->
                                           Frac(message, c.ep * LinkBw(c, 0, j))]))
                    /\ c.tp > 1 /\ Cardinality(nodes) > 1 =>
                         AllReduceLatency(c, bytes)
                           = Plus(Times(Whole(2), RingLatency(Cardinality(first), bytes,
                                                              c.scale_up_bw, c.scale_up_latency)),
                                  RingLatency(Cardinality(nodes), bytes, c.scale_out_bw,
                                              c.scale_out_latency))
  BY DEF LinksMatchPlacement
<1>1. c \in Clusters /\ setup.model \in LlmConfigs
  BY DEF IsSetUp, WellSetUp
<1>2. c.scale_up_bw > 0 /\ c.scale_out_bw > 0
  OBVIOUS
<1>3. BatchSize \in Nat /\ setup.model.d_model \in Nat
  BY <1>1, BatchTypes, ModelFields
<1>4. bytes \in Nat
  BY <1>3
<1>5. c.ep > 1 => message \in Nat
  <2> SUFFICES ASSUME c.ep > 1 PROVE message \in Nat
    OBVIOUS
  <2>1. Greatest(BatchSize \div c.ep, 1) \in Nat
    <3>1. BatchSize \div c.ep \in Nat
      BY <1>1, <1>3, ClusterFields, DivHolds
    <3> QED
      BY <3>1 DEF Greatest
  <2> QED
    BY <1>3, <2>1 DEF DispatchBytes
<1>6. EpAllToAllLatency(c, BatchSize, setup.model.d_model, 1) = EpByMessage(c, message)
  BY DEF EpAllToAllLatency, EpByMessage
<1>7. ASSUME c.tp > 1, Cardinality(nodes) > 1
      PROVE  AllReduceLatency(c, bytes)
               = Plus(Times(Whole(2), RingLatency(Cardinality(first), bytes,
                                                  c.scale_up_bw, c.scale_up_latency)),
                      RingLatency(Cardinality(nodes), bytes, c.scale_out_bw, c.scale_out_latency))
  <2>1. /\ Cardinality(nodes) = CeilDiv(c.tp, NodeSize(c))
        /\ Cardinality(first) = Least(NodeSize(c), c.tp)
        /\ c.tp > NodeSize(c)
    BY <1>1, <1>7, GroupPlaced
  <2>2. ~ (c.tp <= 1) /\ c.scale_up_bw # 0 /\ SpansScaleOut(c, c.tp)
    BY <1>1, <1>2, <1>7, <2>1, ClusterFields DEF SpansScaleOut
  <2> QED
    BY <2>1, <2>2 DEF AllReduceLatency, HierarchicalReduce
<1> QED
  BY <1>1, <1>2, <1>4, <1>5, <1>6, <1>7, PipelinePlaced, ExpertsPlaced

\* What the collectives cost is what their links cost, placed one by one on the
\* nodes (pp_transfer_latency, ep_all_to_all_latency, all_reduce_latency).
THEOREM LinksPlaced == PricedSpec => []LinksMatchPlacement
<1>1. PricedInv => LinksMatchPlacement
  BY LinksHold DEF PricedInv
<1> QED
  BY PricedInvAlways, <1>1, PTL

-----------------------------------------------------------------------------
(* A batch does not take longer than its requests one after the other *)

\* KV that counts a tenth is less than what fits on the chips.
LEMMA KvReach ==
  ASSUME NEW gpu \in GpuSpecs, NEW x \in Nat, NEW tp \in Nat \ {0}, NEW pp \in Nat \ {0},
         NEW Q, Q = (gpu.on_chip_sram + 1) * pp
  PROVE  /\ KvEffectiveBytes(gpu, x, tp, pp) \in Nat /\ Q \in Nat \ {0}
         /\ KvEffectiveBytes(gpu, x, tp, pp) <= x \div tp
         /\ x < tp * (KvEffectiveBytes(gpu, x, tp, pp) + Q)
<1> DEFINE sram == gpu.on_chip_sram
           k == tp * pp
           a == x \div tp
           e == KvEffectiveBytes(gpu, x, tp, pp)
           u == x \div k
<1>1. sram \in Nat
  BY GpuFields
<1>2. k \in Nat \ {0}
  BY SMT
<1>3. e = IF sram > 0 /\ u <= sram THEN a \div 10 ELSE a
  BY DEF KvEffectiveBytes
<1>4. a \in Nat /\ x < (a + 1) * tp
  BY DivHolds
<1>5. u \in Nat /\ x < (u + 1) * k
  <2> HIDE DEF k
  <2> QED
    BY <1>2, DivHolds
<1>6. Q = (sram + 1) * pp
  OBVIOUS
<1> HIDE DEF sram, a, u, e
<1>7. a \div 10 \in Nat /\ a \div 10 <= a
  BY <1>4
<1>8. e \in Nat /\ e <= a
  BY <1>3, <1>4, <1>7
<1>9. Q \in Nat \ {0}
  BY <1>1, <1>6, SMT
<1>10. ASSUME sram > 0 /\ u <= sram PROVE x < tp * (e + Q)
  <2>1. (u + 1) * k <= (sram + 1) * k
    <3> HIDE DEF k
    <3> QED
      BY <1>1, <1>2, <1>5, <1>10
  <2>2. (sram + 1) * k = tp * Q
    BY <1>1, <1>6
  <2>3. tp * Q <= tp * (e + Q) /\ tp * Q \in Nat
    <3>1. tp * (e + Q) = tp * e + tp * Q /\ tp * e \in Nat /\ tp * Q \in Nat
      BY <1>8, <1>9, SMT
    <3> QED
      BY <3>1
  <2> DEFINE p == (u + 1) * k
             q == (sram + 1) * k
             r == tp * Q
             s == tp * (e + Q)
  <2>4. x < p /\ p <= q /\ q = r /\ r <= s /\ r \in Nat
    BY <1>5, <2>1, <2>2, <2>3
  <2>5. p \in Nat /\ s \in Nat
    BY <1>1, <1>2, <1>5, <1>8, <1>9, SMT
  <2> HIDE DEF p, q, r, s
  <2>6. x < s
    BY <2>4, <2>5
  <2> QED
    BY <2>6 DEF s
<1>11. ASSUME ~ (sram > 0 /\ u <= sram) PROVE x < tp * (e + Q)
  <2>1. e = a
    BY <1>3, <1>11
  <2>2. (a + 1) * tp <= tp * (e + Q)
    <3>1. tp * (e + Q) = (a + 1) * tp + tp * (Q - 1) /\ tp * (Q - 1) \in Nat /\ (a + 1) * tp \in Nat
      BY <1>4, <1>9, <2>1, SMT
    <3> QED
      BY <3>1
  <2> DEFINE p == (a + 1) * tp
             s == tp * (e + Q)
  <2>3. x < p /\ p <= s /\ p \in Nat /\ s \in Nat
    BY <1>4, <1>8, <1>9, <2>2, SMT
  <2> HIDE DEF p, s
  <2>4. x < s
    BY <2>3
  <2> QED
    BY <2>4 DEF s
<1>12. x < tp * (e + Q)
  BY <1>10, <1>11
<1> QED
  BY <1>8, <1>9, <1>12 DEF e, a

\* The positions up to i but the last.
LEMMA OnePositionMore ==
  ASSUME NEW i \in Nat \ {0}
  PROVE  IsFiniteSet(1 .. i) /\ i \in 1 .. i /\ (1 .. i) \ {i} = 1 .. i - 1
<1>1. IsFiniteSet(1 .. i)
  BY FS_Interval
<1> QED
  BY <1>1

\* Bounds on two parts bound the sum.
LEMMA BoundsAdd ==
  ASSUME NEW A \in Nat, NEW B \in Nat, NEW x \in Nat, NEW v \in Nat, NEW f \in Nat, NEW g \in Nat,
         A * x <= B * f, A * v <= B * g
  PROVE  A * (x + v) <= B * (f + g)
<1> DEFINE l == A * x
           h == A * v
           u == B * f
           z == B * g
<1>1. l \in Nat /\ h \in Nat /\ u \in Nat /\ z \in Nat /\ l <= u /\ h <= z
  BY SMT
<1>2. A * (x + v) = l + h /\ B * (f + g) = u + z
  BY SMT
<1> HIDE DEF l, h, u, z
<1> QED
  BY <1>1, <1>2

\* Bounds of the requests add up to one of their total.
LEMMA TotalBound ==
  ASSUME NEW n \in Nat, NEW q \in [1 .. n -> Nat], NEW e \in [1 .. n -> Nat],
         NEW A \in Nat, NEW B \in Nat, NEW Q \in Nat,
         \A i \in 1 .. n : A * q[i] <= B * (e[i] + Q)
  PROVE  /\ Total(1 .. n, q) \in Nat /\ Total(1 .. n, e) \in Nat
         /\ A * Total(1 .. n, q) <= B * (Total(1 .. n, e) + n * Q)
<1> DEFINE T(f, i) == Total(1 .. i, f)
           Bounded(i) == A * T(q, i) <= B * (T(e, i) + i * Q)
           P == {i \in 0 .. n : T(q, i) \in Nat /\ T(e, i) \in Nat /\ Bounded(i)}
<1>1. 0 \in P
  <2>1. 1 .. 0 = {}
    OBVIOUS
  <2>2. T(q, 0) = 0 /\ T(e, 0) = 0
    BY <2>1, TotalEmpty
  <2>3. A * 0 <= B * (0 + 0 * Q)
    OBVIOUS
  <2> HIDE DEF T
  <2> QED
    BY <2>2, <2>3
<1>2. ASSUME NEW i \in 1 .. n, i - 1 \in P PROVE i \in P
  <2> DEFINE j == i - 1
             x == T(q, j)
             y == T(e, j)
             v == q[i]
             w == e[i]
             f == y + j * Q
             g == w + Q
  <2>1. /\ i \in Nat \ {0} /\ j \in Nat /\ i = j + 1 /\ x \in Nat /\ y \in Nat
        /\ v \in Nat /\ w \in Nat
    BY <1>2
  <2>2. A * x <= B * f /\ A * v <= B * g
    BY <1>2
  <2>3. IsFiniteSet(1 .. i) /\ i \in 1 .. i /\ (1 .. i) \ {i} = 1 .. j
    BY <2>1, OnePositionMore
  <2>4. \A k \in 1 .. i : q[k] \in Nat /\ e[k] \in Nat
    <3>1. \A k \in 1 .. i : k \in 1 .. n
      BY <2>1
    <3> QED
      BY <3>1
  <2>5. T(q, i) = x + v
    BY <2>3, <2>4, TotalRemove
  <2>6. T(e, i) = y + w
    BY <2>3, <2>4, TotalRemove
  <2> HIDE DEF j, x, y, v, w, T
  <2>7. j * Q \in Nat /\ i * Q = j * Q + Q
    BY <2>1, SMT
  <2> DEFINE c == j * Q
  <2> HIDE DEF c
  <2>8. c \in Nat /\ f = y + c /\ i * Q = c + Q
    BY <2>7 DEF c
  <2> HIDE DEF f
  <2>9. f \in Nat /\ g \in Nat /\ (y + w) + (c + Q) = f + g
    BY <2>1, <2>8
  <2> HIDE DEF g
  <2>10. A * (x + v) <= B * (f + g)
    BY <2>1, <2>2, <2>9, BoundsAdd
  <2>11. A * (x + v) <= B * ((y + w) + i * Q)
    BY <2>8, <2>9, <2>10
  <2>12. Bounded(i)
    BY <2>5, <2>6, <2>11
  <2>13. T(q, i) \in Nat /\ T(e, i) \in Nat
    <3> HIDE DEF Bounded
    <3>1. x + v \in Nat /\ y + w \in Nat
      BY <2>1
    <3> QED
      BY <2>5, <2>6, <3>1
  <2> HIDE DEF Bounded
  <2> QED
    BY <2>1, <2>12, <2>13
<1> HIDE DEF P
<1>3. \A i \in 0 .. n : i \in P
  BY <1>1, <1>2, UpTo
<1>4. n \in 0 .. n
  OBVIOUS
<1> QED
  BY <1>3, <1>4 DEF P

\* What requests of these lengths read, take to compute and take, one by one.
KvEach(gpu, m, q, n, tp, pp) ==
  [i \in 1 .. n |-> KvEffectiveBytes(gpu, KvBytes(m, q[i]) * 1, tp, pp)]
WorkEach(gpu, m, q, n, tp, pp, ep) ==
  [i \in 1 .. n |-> RooflineDecode(gpu, 1, q[i], m, tp, pp, ep)]
PipelinedEach(w, n, m, c) == [i \in 1 .. n |-> Pipelined(w[i], 1, m, c)]
LatencyEach(gpu, m, c, q, n) ==
  [i \in 1 .. n |-> DecodeLatency(gpu, 1, q[i], m, None, c)]
StepEach(b, y, n, m, spec, mtp) == [i \in 1 .. n |-> StepOf(b[i], y[i], m, spec, mtp)]

\* The KV of a batch, at its mean length, and that of its requests: what is more
\* is outweighed by the weights, which are read once.
LEMMA KvTogether ==
  ASSUME NEW gpu \in GpuSpecs, NEW m \in LlmConfigs, NEW tp \in Nat \ {0}, NEW pp \in Nat \ {0},
         NEW n \in Nat \ {0}, NEW q \in [1 .. n -> Nat],
         NEW kv, kv = Total(1 .. n, q) \div n,
         NEW W \in Nat, W >= 2 * pp * (gpu.on_chip_sram + 1),
         NEW e, e = KvEach(gpu, m, q, n, tp, pp)
  PROVE  /\ kv \in Nat /\ e \in [1 .. n -> Nat] /\ Total(1 .. n, e) \in Nat
         /\ KvEffectiveBytes(gpu, KvBytes(m, kv) * n, tp, pp) \in Nat
         /\ W + KvEffectiveBytes(gpu, KvBytes(m, kv) * n, tp, pp) <= n * W + Total(1 .. n, e)
<1> DEFINE Q == (gpu.on_chip_sram + 1) * pp
           A == KvEntries(m) * EffectiveKvBits(m)
           B == 8 * tp
           Tq == Total(1 .. n, q)
           Te == Total(1 .. n, e)
           Y == KvBytes(m, kv) * n
           E == KvEffectiveBytes(gpu, Y, tp, pp)
<1>0. e = [i \in 1 .. n |-> KvEffectiveBytes(gpu, KvBytes(m, q[i]) * 1, tp, pp)]
  BY DEF KvEach
<1>1. A \in Nat /\ B \in Nat /\ gpu.on_chip_sram \in Nat
  BY WidthTypes, GpuFields, SMT
<1>2. \A k \in Nat : KvBytes(m, k) \in Nat /\ KvBytes(m, k) * 8 <= A * k
                     /\ A * k < (KvBytes(m, k) + 1) * 8 /\ A * k \in Nat
  <2> TAKE k \in Nat
  <2>1. KvBytes(m, k) = (A * k) \div 8
    <3> DEFINE s == KvEntries(m)
               b == EffectiveKvBits(m)
    <3>1. s \in Nat /\ b \in Nat
      BY WidthTypes
    <3> HIDE DEF s, b
    <3>2. s * k * b = (s * b) * k
      BY <3>1
    <3> QED
      BY <3>2 DEF KvBytes, s, b
  <2> DEFINE p == A * k
  <2>2. p \in Nat
    <3> HIDE DEF A
    <3> QED
      BY <1>1, SMT
  <2> HIDE DEF p
  <2>3. p \div 8 \in Nat /\ (p \div 8) * 8 <= p /\ p < (p \div 8 + 1) * 8
    BY <2>2, DivHolds
  <2> QED
    BY <2>1, <2>2, <2>3 DEF p
<1>3. \A i \in 1 .. n : e[i] \in Nat /\ A * q[i] <= B * (e[i] + Q)
  <2> TAKE i \in 1 .. n
  <2> DEFINE x == KvBytes(m, q[i])
  <2>1. q[i] \in Nat /\ x \in Nat /\ A * q[i] < (x + 1) * 8 /\ A * q[i] \in Nat
    BY <1>2
  <2>2. x * 1 = x /\ e[i] = KvEffectiveBytes(gpu, x * 1, tp, pp)
    BY <1>0, <2>1
  <2> HIDE DEF x
  <2>3. e[i] \in Nat /\ Q \in Nat \ {0} /\ x < tp * (e[i] + Q)
    BY <2>1, <2>2, KvReach
  <2> DEFINE z == tp * (e[i] + Q)
             y == A * q[i]
             w == e[i]
  <2>4. z \in Nat
    <3> HIDE DEF Q
    <3> QED
      BY <2>3, SMT
  <2>5. x + 1 <= z
    <3> HIDE DEF z
    <3>1. x < z
      BY <2>3 DEF z
    <3> QED
      BY <2>1, <2>4, <3>1
  <2>6. B * (e[i] + Q) = 8 * z
    <3> HIDE DEF Q
    <3> QED
      BY <2>3
  <2>7. y \in Nat /\ y < (x + 1) * 8
    BY <2>1
  <2> HIDE DEF y, z
  <2>8. y <= 8 * z
    BY <2>1, <2>4, <2>5, <2>7
  <2> QED
    BY <2>3, <2>6, <2>8 DEF y
<1>4. e \in [1 .. n -> Nat]
  BY <1>0, <1>3
<1>5. Q \in Nat \ {0}
  <2> DEFINE r == gpu.on_chip_sram + 1
  <2>1. r \in Nat \ {0}
    BY <1>1
  <2> HIDE DEF r
  <2>2. r * pp \in Nat \ {0}
    BY <2>1, SMT
  <2> QED
    BY <2>2 DEF r
<1>6. Tq \in Nat /\ Te \in Nat /\ A * Tq <= B * (Te + n * Q)
  <2>1. n \in Nat /\ Q \in Nat
    BY <1>5
  <2>2. \A i \in 1 .. n : A * q[i] <= B * (e[i] + Q)
    BY <1>3
  <2>3. n \in Nat /\ A \in Nat /\ B \in Nat /\ q \in [1 .. n -> Nat]
    BY <1>1
  <2> HIDE DEF A, B, Q, Tq, Te
  <2>4. /\ Total(1 .. n, q) \in Nat /\ Total(1 .. n, e) \in Nat
        /\ A * Total(1 .. n, q) <= B * (Total(1 .. n, e) + n * Q)
    <3>1. \A f, g \in [1 .. n -> Nat] :
            (\A i \in 1 .. n : A * f[i] <= B * (g[i] + Q)) =>
              /\ Total(1 .. n, f) \in Nat /\ Total(1 .. n, g) \in Nat
              /\ A * Total(1 .. n, f) <= B * (Total(1 .. n, g) + n * Q)
      BY <2>1, <2>3, TotalBound
    <3> QED
      BY <1>4, <2>2, <2>3, <3>1, Zenon
  <2> QED
    BY <2>4 DEF Tq, Te
<1>7. kv \in Nat /\ kv * n <= Tq
  BY <1>6, DivHolds
<1>8. Y \in Nat /\ 8 * Y <= A * Tq
  <2> DEFINE k == KvBytes(m, kv)
             p == A * kv
  <2>1. k \in Nat /\ k * 8 <= p /\ p \in Nat
    BY <1>2, <1>7
  <2> HIDE DEF k, A, Tq
  <2>2. (k * 8) * n <= p * n
    <3> HIDE DEF p
    <3> QED
      BY <2>1, SMT
  <2>3. p * n = A * (kv * n) /\ (k * 8) * n = 8 * (k * n) /\ k * n \in Nat
    BY <1>1, <1>7, <2>1, SMT
  <2>4. A * (kv * n) <= A * Tq
    <3> DEFINE y == kv * n
    <3>1. y \in Nat /\ y <= Tq
      BY <1>7, SMT
    <3> HIDE DEF y
    <3>2. PICK d \in Nat : Tq = y + d
      <4>1. Tq - y \in Nat /\ Tq = y + (Tq - y)
        BY <1>6, <3>1
      <4> QED
        BY <4>1
    <3>3. A * Tq = A * y + A * d /\ A * y \in Nat /\ A * d \in Nat
      BY <1>1, <3>1, <3>2, SMT
    <3>4. A * y <= A * Tq
      BY <3>3
    <3> QED
      BY <3>4 DEF y
  <2> DEFINE f == A * (kv * n)
             g == A * Tq
             h == k * n
             l == p * n
  <2>5. 8 * h <= l /\ l = f /\ f <= g /\ h \in Nat
    BY <2>2, <2>3, <2>4
  <2>6. f \in Nat /\ g \in Nat
    <3> DEFINE y == kv * n
    <3>1. y \in Nat
      BY <1>7, SMT
    <3> HIDE DEF y
    <3>2. A * y \in Nat /\ A * Tq \in Nat
      BY <1>1, <1>6, <3>1, SMT
    <3> QED
      BY <3>2 DEF y
  <2> HIDE DEF f, g, h, l
  <2>7. 8 * h <= g
    BY <2>5, <2>6
  <2> QED
    BY <2>5, <2>7 DEF g, h, k
<1>9. E \in Nat /\ E <= Y \div tp
  <2> HIDE DEF Y, Q
  <2> QED
    BY <1>8, KvReach DEF Q
<1>10. E <= Te + n * Q
  <2> DEFINE z == Te + n * Q
  <2>1. z \in Nat
    <3> HIDE DEF Te, Q
    <3>1. n * Q \in Nat
      BY <1>5, SMT
    <3> QED
      BY <1>6, <3>1
  <2>2. 8 * Y <= A * Tq /\ A * Tq <= B * z
    BY <1>6, <1>8
  <2> HIDE DEF z, Y, A, Tq, E
  <2>3. B * z = 8 * (z * tp) /\ z * tp \in Nat
    BY <2>1
  <2> DEFINE y == z * tp
             g == A * Tq
  <2>4. g \in Nat
    BY <1>1, <1>6, SMT
  <2>5. y \in Nat /\ 8 * Y <= g /\ g <= 8 * y
    BY <2>2, <2>3
  <2> HIDE DEF y, g
  <2>6. Y <= y
    BY <1>8, <2>4, <2>5
  <2> DEFINE d == Y \div tp
  <2>7. d \in Nat /\ d * tp <= Y
    BY <1>8, DivHolds
  <2> HIDE DEF d
  <2>8. d <= z
    <3>1. d * tp <= z * tp
      <4> DEFINE x == d * tp
      <4>1. x <= Y /\ x \in Nat
        BY <2>7, SMT
      <4> HIDE DEF x
      <4>2. x <= y
        BY <1>8, <2>5, <2>6, <4>1
      <4> QED
        BY <4>2 DEF x, y
    <3> QED
      BY <2>1, <2>7, <3>1, SMT
  <2> QED
    BY <1>9, <2>1, <2>7, <2>8 DEF d, z
<1>11. CASE n >= 2
  <2>1. W >= 2 * Q
    <3> DEFINE r == gpu.on_chip_sram + 1
    <3>1. r \in Nat
      BY <1>1
    <3> HIDE DEF r
    <3>2. 2 * pp * r = 2 * (r * pp)
      BY <3>1
    <3> QED
      BY <3>2 DEF r
  <2> HIDE DEF Q, E, Te
  <2>2. PICK d \in Nat : n = d + 2
    <3>1. n - 2 \in Nat /\ n = (n - 2) + 2
      BY <1>11
    <3> QED
      BY <3>1
  <2>3. (d + 1) * (2 * Q) <= (d + 1) * W
    <3> DEFINE y == 2 * Q
    <3>1. y \in Nat /\ y <= W
      BY <1>5, <2>1
    <3> HIDE DEF y
    <3>2. (d + 1) * y <= (d + 1) * W
      BY <2>2, <3>1, SMT
    <3> QED
      BY <3>2 DEF y
  <2>4. /\ n * Q = d * Q + 2 * Q /\ (d + 1) * (2 * Q) = 2 * (d * Q) + 2 * Q /\ d * Q \in Nat
        /\ n * W = (d + 1) * W + W /\ (d + 1) * W \in Nat
    BY <1>5, <2>2, SMT
  <2> DEFINE a == d * Q
             b == (d + 1) * W
  <2>5. /\ n * Q = a + 2 * Q /\ (d + 1) * (2 * Q) = 2 * a + 2 * Q /\ a \in Nat
        /\ n * W = b + W /\ b \in Nat /\ (d + 1) * (2 * Q) <= b
    BY <2>3, <2>4
  <2> HIDE DEF a, b
  <2>6. n * Q <= b
    BY <1>5, <2>5
  <2>7. W + E <= n * W + Te
    BY <1>5, <1>6, <1>9, <1>10, <2>5, <2>6
  <2> QED
    BY <1>4, <1>6, <1>7, <1>9, <2>7 DEF E, Te
<1>12. CASE n = 1
  <2>1. 1 .. n = {1}
    BY <1>12
  <2>2. Tq = q[1] /\ Te = e[1] /\ q[1] \in Nat
    BY <1>4, <2>1, TotalSingleton
  <2>3. kv = q[1]
    <3>1. \A x \in Nat : x \div 1 = x
      OBVIOUS
    <3> QED
      BY <1>12, <2>2, <3>1
  <2>4. E = e[1]
    BY <1>0, <1>12, <2>1, <2>3
  <2>5. n * W = W
    BY <1>12
  <2> HIDE DEF E, Te
  <2>6. W + E <= n * W + Te
    BY <1>6, <1>9, <2>2, <2>4, <2>5
  <2> QED
    BY <1>4, <1>6, <1>7, <1>9, <2>6 DEF E, Te
<1>13. n = 1 \/ n >= 2
  OBVIOUS
<1> QED
  BY <1>11, <1>12, <1>13

\* What each GPU dispatches for a batch.
LEMMA BatchDispatch ==
  ASSUME NEW m \in LlmConfigs, NEW c \in Clusters, NEW n \in Nat \ {0}, c.ep > 1,
         TopK(m) <= c.ep \/ TopK(m) % Greatest(c.ep, 1) = 0
  PROVE  Dispatched(c, n * 1, m) <= n * Dispatched(c, 1, m)
<1> DEFINE t == TopK(m)
           d == c.ep
           S(x) == Greatest(x \div d, 1)
<1>1. t \in Nat \ {0} /\ d \in Nat \ {0} /\ d > 1
  BY ModelFields, ClusterFields DEF TopK, Greatest
<1>2. Dispatched(c, n * 1, m) = S(n * t) /\ Dispatched(c, 1, m) = S(t)
  <2>1. n * 1 = n /\ 1 * t = t
    BY <1>1
  <2> QED
    BY <2>1 DEF Dispatched, Share
<1>3. t <= d \/ t % d = 0
  BY <1>1 DEF Greatest
<1> HIDE DEF t, d
<1>4. t \div d \in Nat
  BY <1>1, DivHolds
<1>5. S(t) \in Nat /\ S(t) >= 1 /\ S(t) >= t \div d
  BY <1>4 DEF Greatest
<1> DEFINE p == n * t
           z == p \div d
<1>6. p \in Nat
  BY <1>1, SMT
<1>7. z \in Nat /\ z * d <= p
  <2> HIDE DEF p
  <2> QED
    BY <1>1, <1>6, DivHolds
<1>8. z <= n * S(t)
  <2> DEFINE s == S(t)
  <2>1. s \in Nat /\ s >= 1 /\ s >= t \div d
    BY <1>5
  <2> HIDE DEF s, z
  <2>2. CASE t <= d
    <3>1. n * t <= n * d
      BY <1>1, <2>2, SMT
    <3>2. z * d <= n * d
      <4> DEFINE a == n * d
                 b == z * d
      <4>1. a \in Nat /\ b \in Nat /\ b <= p /\ p <= a
        BY <1>1, <1>7, <3>1, SMT
      <4> HIDE DEF a, b, p
      <4>2. b <= a
        BY <1>6, <4>1
      <4> QED
        BY <4>2 DEF a, b
    <3>3. z <= n
      BY <1>1, <1>7, <3>2, SMT
    <3>4. n <= n * s
      BY <2>1, SMT
    <3> DEFINE y == n * s
    <3>5. y \in Nat
      BY <2>1, SMT
    <3> HIDE DEF y
    <3>6. z <= y
      BY <1>7, <3>3, <3>4, <3>5 DEF y
    <3> QED
      BY <3>6 DEF y, s
  <2>3. CASE t % d = 0
    <3> DEFINE g == t \div d
    <3>1. g \in Nat /\ t = d * g
      BY <1>1, <1>4, <2>3
    <3> HIDE DEF g
    <3>2. p = (n * g) * d
      BY <1>1, <3>1
    <3>3. z <= n * g
      <4> DEFINE a == n * g
      <4>1. a \in Nat /\ p = a * d
        BY <3>1, <3>2, SMT
      <4> HIDE DEF a, p
      <4>2. z * d <= a * d
        BY <1>7, <4>1
      <4>3. z <= a
        BY <1>1, <1>7, <4>1, <4>2, SMT
      <4> QED
        BY <4>3 DEF a
    <3>4. n * g <= n * s
      <4>1. g <= s
        BY <2>1 DEF g
      <4> QED
        BY <2>1, <3>1, <4>1, SMT
    <3> DEFINE x == n * g
               y == n * s
    <3>5. x \in Nat /\ y \in Nat /\ z <= x /\ x <= y
      BY <2>1, <3>1, <3>3, <3>4, SMT
    <3> HIDE DEF x, y
    <3>6. z <= y
      BY <1>7, <3>5
    <3> QED
      BY <3>6 DEF y, s
  <2> QED
    BY <1>3, <2>2, <2>3
<1>9. n * S(t) \in Nat /\ n * S(t) >= 1
  <2> DEFINE s == S(t)
  <2>1. s \in Nat \ {0}
    BY <1>5
  <2> HIDE DEF s
  <2>2. n * s \in Nat \ {0}
    BY <2>1, SMT
  <2> QED
    BY <2>2 DEF s
<1> DEFINE y == n * S(t)
<1>10. y \in Nat /\ y >= 1 /\ z <= y
  BY <1>8, <1>9
<1>11. S(p) = Greatest(z, 1)
  OBVIOUS
<1> HIDE DEF y, z
<1>12. Greatest(z, 1) <= y
  BY <1>7, <1>10 DEF Greatest
<1> QED
  BY <1>2, <1>11, <1>12 DEF y

\* The sum of quotients is the quotient of the sum.
LEMMA SumOver ==
  ASSUME NEW n \in Nat, NEW c \in LowestTerms, c # Zero
  PROVE  \A s \in [1 .. n -> LowestTerms] :
           /\ [i \in 1 .. n |-> Over(s[i], c)] \in [1 .. n -> LowestTerms]
           /\ SumOf(s) \in LowestTerms
           /\ SumOf([i \in 1 .. n |-> Over(s[i], c)]) = Over(SumOf(s), c)
<1> TAKE s \in [1 .. n -> LowestTerms]
<1> DEFINE r == Reciprocal(c)
           u == [i \in 1 .. n |-> Over(s[i], c)]
           v == [i \in 1 .. n |-> Times(r, s[i])]
<1>1. r \in LowestTerms /\ \A a \in LowestTerms : Over(a, c) = Times(a, r)
  BY OverLaws
<1> HIDE DEF r
<1>2. \A a \in LowestTerms : Over(a, c) = Times(r, a) /\ Times(r, a) \in LowestTerms
  BY <1>1, TimesLaws
<1>3. \A i \in 1 .. n : s[i] \in LowestTerms
  OBVIOUS
<1>4. u = v /\ u \in [1 .. n -> LowestTerms]
  BY <1>2, <1>3
<1>5. SumOf(s) \in LowestTerms
  <2>1. \A i \in 1 .. n : AtMost(s[i], s[i])
    BY <1>3, OrderLaws
  <2> QED
    BY <2>1, SumGrows
<1>6. SumOf(v) = Times(r, SumOf(s))
  BY <1>1, SumTimes
<1> HIDE DEF u, v
<1>7. SumOf(u) = Over(SumOf(s), c)
  BY <1>2, <1>4, <1>5, <1>6
<1> QED
  BY <1>4, <1>5, <1>7 DEF u

\* What the tokens of a step cost between GPUs.
LEMMA PartsType ==
  ASSUME NEW m \in LlmConfigs, NEW c \in Clusters, NEW y \in Nat
  PROVE  CollectiveCost(y, m, c) \in LowestTerms /\ HandOver(y, m, c) \in LowestTerms
<1> DEFINE d == m.d_model
           w == ActivationBytes(m)
           t == TopK(m)
           p == y * d * w
           q == y * t
<1>1. d \in Nat /\ t \in Nat /\ w \in Nat
  BY ModelFields, WidthTypes DEF TopK, Greatest
<1>2. /\ Reduce(y, m, c) = AllReduceLatency(c, p) /\ HandOver(y, m, c) = PpTransferLatency(c, p, TRUE)
      /\ Exchange(y, m, c) = EpAllToAllLatency(c, q, d, w)
  BY DEF Reduce, HandOver, Exchange
<1> HIDE DEF d, w, t
<1>3. p \in Nat /\ q \in Nat
  <2>1. y * d \in Nat
    BY <1>1, SMT
  <2> DEFINE z == y * d
  <2> HIDE DEF z
  <2>2. z \in Nat
    BY <2>1 DEF z
  <2>3. z * w \in Nat /\ y * t \in Nat
    BY <1>1, <2>2, SMT
  <2> QED
    BY <2>3 DEF z
<1> HIDE DEF p, q
<1>4. p <= 1 * p /\ 1 \in Nat \ {0} /\ w <= w
  BY <1>1, <1>3
<1>5. AllReduceLatency(c, p) \in LowestTerms
  BY <1>3, <1>4, AllReduceBound
<1>6. PpTransferLatency(c, p, TRUE) \in LowestTerms
  BY <1>3, <1>4, PpBound
<1>7. c.ep > 1 => Share(c, q) <= 1 * Share(c, q)
  BY <1>3, ShareType
<1>8. EpAllToAllLatency(c, q, d, w) \in LowestTerms
  BY <1>1, <1>3, <1>4, <1>7, ExchangeBound
<1>9. Reduce(y, m, c) \in LowestTerms /\ Exchange(y, m, c) \in LowestTerms
  BY <1>2, <1>5, <1>8
<1>10. /\ AtMost(Reduce(y, m, c), Times(Whole(1), Reduce(y, m, c)))
       /\ AtMost(Exchange(y, m, c), Times(Whole(1), Exchange(y, m, c)))
  BY <1>9, BoundOnce, OrderLaws
<1>11. Alike(m, m)
  BY DEF Alike
<1>12. CollectiveCost(y, m, c) \in LowestTerms
  BY <1>9, <1>10, <1>11, CollectiveBound
<1> QED
  BY <1>2, <1>6, <1>12

\* The price of the requests one by one is that of their mean work as often.
LEMMA PipelinedSum ==
  ASSUME NEW m \in LlmConfigs, NEW c \in Clusters, NEW n \in Nat \ {0},
         NEW w \in [1 .. n -> LowestTerms],
         NEW mean, mean = Over(SumOf(w), Whole(n)),
         NEW s, s = PipelinedEach(w, n, m, c)
  PROVE  /\ mean \in LowestTerms /\ SumOf(w) = Times(Whole(n), mean)
         /\ s \in [1 .. n -> LowestTerms]
         /\ SumOf(s) = Times(Whole(n), Pipelined(mean, 1, m, c))
<1> DEFINE C == CollectiveCost(1, m, c)
           H == Times(Whole(Greatest(c.pp, 1) - 1), HandOver(1, m, c))
           p == Whole(Greatest(c.pp, 1))
           R == Plus(Over(C, p), H)
           N == Whole(n)
<1>1. N \in LowestTerms /\ N # Zero
  BY WholeLaws
<1>2. p \in LowestTerms /\ p # Zero /\ Whole(Greatest(c.pp, 1) - 1) \in LowestTerms
  <2>1. Greatest(c.pp, 1) \in Nat \ {0}
    BY GroupTypes
  <2> DEFINE g == Greatest(c.pp, 1)
  <2>2. g \in Nat /\ g - 1 \in Nat /\ g # 0
    BY <2>1
  <2> HIDE DEF g
  <2>3. Whole(g) \in LowestTerms /\ (Whole(g) = Zero => g = 0) /\ Whole(g - 1) \in LowestTerms
    BY <2>2, WholeLaws
  <2> QED
    BY <2>2, <2>3 DEF g
<1>3. SumOf(w) \in LowestTerms
  BY <1>1, SumOver
<1>4. mean \in LowestTerms /\ Times(N, mean) = SumOf(w)
  <2> DEFINE r == Reciprocal(N)
             x == SumOf(w)
  <2>1. r \in LowestTerms /\ Over(x, N) = Times(x, r) /\ Times(N, r) = Whole(1) /\ x \in LowestTerms
    BY <1>1, <1>3, OverLaws
  <2> HIDE DEF N, r, x
  <2>2. Times(x, r) \in LowestTerms /\ Times(x, r) = Times(r, x)
    BY <2>1, TimesLaws
  <2>3. Times(N, Times(r, x)) = Times(Times(N, r), x)
    BY <1>1, <2>1, TimesLaws
  <2>4. Times(Whole(1), x) = x
    BY <2>1, TimesLaws
  <2> QED
    BY <2>1, <2>2, <2>3, <2>4 DEF x, N
<1>5. C \in LowestTerms /\ HandOver(1, m, c) \in LowestTerms
  BY PartsType
<1>6. H \in LowestTerms /\ Over(C, p) \in LowestTerms
  <2> HIDE DEF p, C
  <2>1. H \in LowestTerms
    BY <1>2, <1>5, TimesLaws
  <2>2. AtMost(C, C)
    BY <1>5, OrderLaws
  <2> QED
    BY <1>2, <1>5, <2>1, <2>2, OverGrows
<1>7. R \in LowestTerms
  <2> HIDE DEF H, p, C
  <2> QED
    BY <1>6, PlusLaws
<1>8. \A a \in LowestTerms : /\ Over(a, p) \in LowestTerms
                             /\ Pipelined(a, 1, m, c) = Plus(Over(a, p), R)
  <2> TAKE a \in LowestTerms
  <2>1. Pipelined(a, 1, m, c) = Plus(Over(Plus(a, C), p), H)
    BY DEF Pipelined, HandOver
  <2> HIDE DEF C, p, H
  <2>2. Over(a, p) \in LowestTerms /\ Plus(Over(a, p), Over(C, p)) = Over(Plus(a, C), p)
    BY <1>2, <1>5, OverPlus
  <2> DEFINE x == Over(a, p)
             y == Over(C, p)
  <2>3. x \in LowestTerms /\ y \in LowestTerms
    BY <1>6, <2>2
  <2> HIDE DEF x, y
  <2>4. Plus(Plus(x, y), H) = Plus(x, Plus(y, H))
    BY <1>6, <2>3, PlusLaws
  <2> QED
    BY <2>1, <2>2, <2>4 DEF x, y
<1> HIDE DEF C, H, p, R, N
<1> DEFINE u == [i \in 1 .. n |-> Over(w[i], p)]
           v == [i \in 1 .. n |-> R]
<1>9. u \in [1 .. n -> LowestTerms] /\ SumOf(u) = Over(SumOf(w), p)
  <2>1. n \in Nat
    OBVIOUS
  <2> QED
    BY <1>2, <2>1, SumOver
<1>10. v \in [1 .. n -> LowestTerms] /\ SumOf(v) = Times(N, R)
  BY <1>7, SumEqual DEF N
<1>11. s = [i \in 1 .. n |-> Plus(u[i], v[i])]
  BY <1>8 DEF PipelinedEach
<1>12. s \in [1 .. n -> LowestTerms]
  <2>1. \A i \in 1 .. n : u[i] \in LowestTerms /\ v[i] \in LowestTerms
    BY <1>9, <1>10
  <2> HIDE DEF u, v
  <2> QED
    BY <1>11, <2>1, PlusLaws
<1>13. SumOf(s) = Plus(Over(SumOf(w), p), Times(N, R))
  <2> HIDE DEF u, v
  <2>1. SumOf([i \in 1 .. n |-> Plus(u[i], v[i])]) = Plus(SumOf(u), SumOf(v))
    BY <1>9, <1>10, SumPlus
  <2> QED
    BY <1>9, <1>10, <1>11, <2>1
<1>14. Times(N, Plus(Over(mean, p), R)) = Plus(Over(SumOf(w), p), Times(N, R))
  <2> DEFINE r == Reciprocal(p)
             x == SumOf(w)
  <2>1. /\ r \in LowestTerms /\ Over(x, p) = Times(x, r) /\ Over(mean, p) = Times(mean, r)
        /\ x \in LowestTerms
    BY <1>2, <1>3, <1>4, OverLaws
  <2>2. x = Times(N, mean)
    BY <1>4
  <2> HIDE DEF r, x
  <2>3. Times(N, Plus(Times(mean, r), R)) = Plus(Times(N, Times(mean, r)), Times(N, R))
    <3>1. Times(mean, r) \in LowestTerms
      BY <1>4, <2>1, TimesLaws
    <3> QED
      BY <1>1, <1>7, <3>1, TimesLaws
  <2>4. Times(N, Times(mean, r)) = Times(Times(N, mean), r)
    BY <1>1, <1>4, <2>1, TimesLaws
  <2> QED
    BY <2>1, <2>2, <2>3, <2>4 DEF x
<1>15. Pipelined(mean, 1, m, c) = Plus(Over(mean, p), R)
  BY <1>4, <1>8
<1> QED
  BY <1>4, <1>12, <1>13, <1>14, <1>15 DEF N

\* A sum of so many fractions is one.
LEMMA SumType ==
  ASSUME NEW n \in Nat
  PROVE  \A s \in [1 .. n -> LowestTerms] : SumOf(s) \in LowestTerms
<1> TAKE s \in [1 .. n -> LowestTerms]
<1>1. \A i \in 1 .. n : AtMost(s[i], s[i])
  BY OrderLaws
<1> QED
  BY <1>1, SumGrows

\* The bytes that a GPU reads: the weights once are read sooner than each time.
LEMMA BatchWork ==
  ASSUME NEW gpu \in GpuSpecs, NEW m \in LlmConfigs, NEW tp \in Nat \ {0}, NEW pp \in Nat \ {0},
         NEW ep \in Nat, NEW n \in Nat \ {0}, NEW q \in [1 .. n -> Nat],
         NEW kv, kv = Total(1 .. n, q) \div n,
         WeightBytesPerChip(gpu, m, tp, ep) >= 2 * pp * (gpu.on_chip_sram + 1),
         NEW w, w = WorkEach(gpu, m, q, n, tp, pp, ep)
  PROVE  /\ w \in [1 .. n -> LowestTerms] /\ kv \in Nat
         /\ RooflineDecode(gpu, n, kv, m, tp, pp, ep) \in LowestTerms
         /\ AtMost(RooflineDecode(gpu, n, kv, m, tp, pp, ep), SumOf(w))
<1> DEFINE W == WeightBytesPerChip(gpu, m, tp, ep)
           R == DecodeRate(gpu)
           e == KvEach(gpu, m, q, n, tp, pp)
           E == KvEffectiveBytes(gpu, KvBytes(m, kv) * n, tp, pp)
           T == Total(1 .. n, e)
<1>1. W \in Nat /\ R \in LowestTerms /\ R # Zero
  BY ChipBytesType, DecodeRateType
<1>2. /\ kv \in Nat /\ e \in [1 .. n -> Nat] /\ T \in Nat /\ E \in Nat
      /\ W + E <= n * W + T
  <2>1. /\ W >= 2 * pp * (gpu.on_chip_sram + 1)
        /\ e = KvEach(gpu, m, q, n, tp, pp)
    OBVIOUS
  <2> HIDE DEF W, e
  <2> QED
    BY <1>1, <2>1, KvTogether
<1>3. /\ RooflineDecode(gpu, n, kv, m, tp, pp, ep) = Over(Whole(W + E), R)
      /\ RooflineDecode(gpu, n, kv, m, tp, pp, ep) \in LowestTerms
  BY <1>2, RooflineBytes
<1>4. \A i \in 1 .. n : w[i] = Over(Whole(W + e[i]), R) /\ w[i] \in LowestTerms
  <2> TAKE i \in 1 .. n
  <2>1. q[i] \in Nat /\ 1 \in Nat
    OBVIOUS
  <2>2. e[i] = KvEffectiveBytes(gpu, KvBytes(m, q[i]) * 1, tp, pp)
        /\ w[i] = RooflineDecode(gpu, 1, q[i], m, tp, pp, ep)
    BY DEF KvEach, WorkEach
  <2> QED
    BY <2>1, <2>2, RooflineBytes
<1>5. w \in [1 .. n -> LowestTerms]
  BY <1>4 DEF WorkEach
<1> HIDE DEF W, R, E, T, e
<1> DEFINE a == [i \in 1 .. n |-> Whole(W)]
           b == [i \in 1 .. n |-> Whole(e[i])]
           v == [i \in 1 .. n |-> Plus(a[i], b[i])]
<1>6. Whole(W) \in LowestTerms /\ \A i \in 1 .. n : Whole(e[i]) \in LowestTerms
  BY <1>1, <1>2, WholeLaws
<1>7. a \in [1 .. n -> LowestTerms] /\ b \in [1 .. n -> LowestTerms]
  BY <1>6
<1>8. SumOf(a) = Times(Whole(n), Whole(W)) /\ SumOf(b) = Whole(T)
  <2>1. SumOf(a) = Times(Whole(n), Whole(W))
    BY <1>6, SumEqual
  <2>2. SumOf(b) = Whole(Total(1 .. n, e))
    BY <1>2, SumWhole
  <2> QED
    BY <2>1, <2>2 DEF T
<1>9. v \in [1 .. n -> LowestTerms] /\ \A i \in 1 .. n : v[i] = Whole(W + e[i])
  <2>1. \A i \in 1 .. n : Plus(Whole(W), Whole(e[i])) = Whole(W + e[i])
    BY <1>1, <1>2, WholeLaws
  <2>2. \A i \in 1 .. n : Whole(W + e[i]) \in LowestTerms
    <3>1. \A i \in 1 .. n : W + e[i] \in Nat
      BY <1>1, <1>2
    <3> QED
      BY <3>1, WholeLaws
  <2> QED
    BY <2>1, <2>2
<1>10. SumOf(v) = Whole(n * W + T)
  <2> HIDE DEF a, b
  <2>1. SumOf(v) = Plus(SumOf(a), SumOf(b))
    BY <1>7, SumPlus
  <2>2. n * W \in Nat
    BY <1>1
  <2>3. Times(Whole(n), Whole(W)) = Whole(n * W)
    BY <1>1, WholeLaws
  <2> DEFINE z == n * W
  <2> HIDE DEF z
  <2>4. Plus(Whole(z), Whole(T)) = Whole(z + T)
    BY <1>2, <2>2, WholeLaws DEF z
  <2> QED
    BY <1>8, <2>1, <2>3, <2>4 DEF z
<1>11. w = [i \in 1 .. n |-> Over(v[i], R)]
  BY <1>4, <1>9 DEF WorkEach
<1>12. SumOf(w) = Over(Whole(n * W + T), R)
  <2> HIDE DEF v
  <2>1. n \in Nat
    OBVIOUS
  <2> QED
    BY <1>1, <1>9, <1>10, <1>11, <2>1, SumOver
<1>13. AtMost(Over(Whole(W + E), R), Over(Whole(n * W + T), R))
  <2> DEFINE x == W + E
             y == n * W + T
  <2>1. x \in Nat /\ y \in Nat /\ x <= y
    BY <1>1, <1>2
  <2> HIDE DEF x, y
  <2>2. Whole(x) \in LowestTerms /\ Whole(y) \in LowestTerms /\ AtMost(Whole(x), Whole(y))
    BY <2>1, WholeLaws
  <2>3. AtMost(Over(Whole(x), R), Over(Whole(y), R))
    BY <1>1, <2>2, OverGrows
  <2> QED
    BY <2>3 DEF x, y
<1> QED
  BY <1>2, <1>3, <1>5, <1>12, <1>13

\* ... and with what is sent between GPUs.
LEMMA BatchLatency ==
  ASSUME NEW gpu \in GpuSpecs, NEW m \in LlmConfigs, NEW c \in Clusters,
         NEW n \in Nat \ {0}, NEW q \in [1 .. n -> Nat],
         NEW kv, kv = Total(1 .. n, q) \div n,
         WeightBytesPerChip(gpu, m, Greatest(c.tp, 1), c.ep)
           >= 2 * Greatest(c.pp, 1) * (gpu.on_chip_sram + 1),
         TopK(m) <= c.ep \/ TopK(m) % Greatest(c.ep, 1) = 0,
         NEW s, s = LatencyEach(gpu, m, c, q, n)
  PROVE  /\ s \in [1 .. n -> LowestTerms] /\ kv \in Nat
         /\ DecodeLatency(gpu, n, kv, m, None, c) \in LowestTerms
         /\ AtMost(DecodeLatency(gpu, n, kv, m, None, c), SumOf(s))
<1> DEFINE w == [i \in 1 .. n |-> DecodeWork(gpu, 1, q[i], m, c)]
           a == DecodeWork(gpu, n, kv, m, c)
           mean == Over(SumOf(w), Whole(n))
           t == PipelinedEach(w, n, m, c)
<1>1. /\ w \in [1 .. n -> LowestTerms] /\ kv \in Nat /\ a \in LowestTerms
      /\ AtMost(a, SumOf(w))
  <2> DEFINE tp == Greatest(c.tp, 1)
             pp == Greatest(c.pp, 1)
             ep == c.ep
             u == WorkEach(gpu, m, q, n, tp, pp, ep)
  <2>1. tp \in Nat \ {0} /\ pp \in Nat \ {0} /\ ep \in Nat
    BY GroupTypes
  <2>2. WeightBytesPerChip(gpu, m, tp, ep) >= 2 * pp * (gpu.on_chip_sram + 1)
    OBVIOUS
  <2>3. w = u /\ a = RooflineDecode(gpu, n, kv, m, tp, pp, ep)
    BY DEF DecodeWork, WorkEach
  <2>5. u = WorkEach(gpu, m, q, n, tp, pp, ep)
    OBVIOUS
  <2> HIDE DEF tp, pp, ep, u, w
  <2>4. /\ u \in [1 .. n -> LowestTerms] /\ kv \in Nat
        /\ RooflineDecode(gpu, n, kv, m, tp, pp, ep) \in LowestTerms
        /\ AtMost(RooflineDecode(gpu, n, kv, m, tp, pp, ep), SumOf(u))
    BY <2>1, <2>2, <2>5, BatchWork
  <2> HIDE DEF u, w, a
  <2> QED
    BY <2>3, <2>4
<1>2. s = t
  <2>1. \A i \in 1 .. n : DecodeLatency(gpu, 1, q[i], m, None, c)
                            = Pipelined(DecodeWork(gpu, 1, q[i], m, c), 1, m, c)
    BY DecodeWorkType
  <2> QED
    BY <2>1 DEF PipelinedEach, LatencyEach
<1>3. DecodeLatency(gpu, n, kv, m, None, c) = Pipelined(a, n * 1, m, c)
  <2>1. n * 1 = n
    OBVIOUS
  <2> QED
    BY <1>1, <2>1, DecodeWorkType
<1> HIDE DEF w, a
<1>4. /\ mean \in LowestTerms /\ SumOf(w) = Times(Whole(n), mean)
      /\ t \in [1 .. n -> LowestTerms]
      /\ SumOf(t) = Times(Whole(n), Pipelined(mean, 1, m, c))
  <2>1. /\ mean = Over(SumOf(w), Whole(n))
        /\ t = PipelinedEach(w, n, m, c)
    OBVIOUS
  <2> HIDE DEF mean, t
  <2> QED
    BY <1>1, <2>1, PipelinedSum
<1> HIDE DEF mean, t
<1>5. Alike(m, m) /\ ActivationBytes(m) <= ActivationBytes(m)
  BY WidthTypes DEF Alike
<1>6. c.ep > 1 => Dispatched(c, n * 1, m) <= n * Dispatched(c, 1, m)
  BY BatchDispatch
<1>7. AtMost(a, Times(Whole(n), mean))
  BY <1>1, <1>4
<1>8. n * 1 \in Nat /\ 1 \in Nat /\ n * 1 <= n * 1
  OBVIOUS
<1> DEFINE x == n * 1
<1>9. x \in Nat /\ x <= n * 1 /\ (c.ep > 1 => Dispatched(c, x, m) <= n * Dispatched(c, 1, m))
  BY <1>6, <1>8
<1> HIDE DEF x
<1>10. /\ Pipelined(a, x, m, c) \in LowestTerms
       /\ AtMost(Pipelined(a, x, m, c), Times(Whole(n), Pipelined(mean, 1, m, c)))
  BY <1>1, <1>4, <1>5, <1>7, <1>8, <1>9, TokensBound
<1> QED
  BY <1>1, <1>2, <1>3, <1>4, <1>10 DEF x

\* The prices of steps add up as their latencies do.
LEMMA StepsSum ==
  ASSUME NEW n \in Nat \ {0}, NEW m \in LlmConfigs, NEW spec, NEW mtp,
         Speculates(spec), Speculates(mtp),
         NEW a \in LowestTerms, NEW b \in [1 .. n -> LowestTerms], AtMost(a, SumOf(b)),
         NEW x, NEW y,
         spec # None => /\ x \in LowestTerms /\ y \in [1 .. n -> LowestTerms]
                        /\ AtMost(x, SumOf(y)),
         NEW p, p = StepEach(b, y, n, m, spec, mtp)
  PROVE  AtMost(StepOf(a, x, m, spec, mtp), SumOf(p))
<1>0. SumOf(b) \in LowestTerms
  BY SumType
<1>1. CASE spec # None
  <2> DEFINE k == Whole(spec.k)
             u == [i \in 1 .. n |-> Times(k, y[i])]
  <2>1. k \in LowestTerms
    <3>1. spec.k \in Nat
      BY <1>1 DEF Speculates
    <3> QED
      BY <3>1, WholeLaws
  <2>2. x \in LowestTerms /\ y \in [1 .. n -> LowestTerms] /\ AtMost(x, SumOf(y))
    BY <1>1
  <2>3. StepOf(a, x, m, spec, mtp) = Plus(Times(k, x), a)
    BY <1>1 DEF StepOf
  <2>4. p = [i \in 1 .. n |-> Plus(u[i], b[i])]
    BY <1>1 DEF StepOf, StepEach
  <2> HIDE DEF k
  <2>5. SumOf(u) = Times(k, SumOf(y)) /\ SumOf(y) \in LowestTerms
    BY <2>1, <2>2, SumTimes, SumType
  <2>6. u \in [1 .. n -> LowestTerms]
    <3>1. \A i \in 1 .. n : y[i] \in LowestTerms
      BY <2>2
    <3> QED
      BY <2>1, <3>1, TimesLaws
  <2> HIDE DEF u
  <2>7. SumOf([i \in 1 .. n |-> Plus(u[i], b[i])]) = Plus(SumOf(u), SumOf(b))
    BY <2>6, SumPlus
  <2>8. /\ Times(k, x) \in LowestTerms /\ Times(k, SumOf(y)) \in LowestTerms
        /\ AtMost(Times(k, x), Times(k, SumOf(y)))
    BY <2>1, <2>2, <2>5, TimesLaws, OrderLaws, TimesGrows
  <2>9. AtMost(Plus(Times(k, x), a), Plus(Times(k, SumOf(y)), SumOf(b)))
    BY <1>0, <2>8, PlusGrows
  <2> QED
    BY <2>3, <2>4, <2>5, <2>7, <2>9
<1>2. CASE spec = None /\ mtp # None
  <2> DEFINE o == Plus(Whole(1), Frac(mtp.k, Greatest(m.n_layers, 1)))
             u == [i \in 1 .. n |-> Times(o, b[i])]
  <2>1. o \in LowestTerms
    BY <1>2, OverheadType
  <2>2. StepOf(a, x, m, spec, mtp) = Times(a, o)
    BY <1>2 DEF StepOf
  <2>3. p = [i \in 1 .. n |-> Times(b[i], o)]
    BY <1>2 DEF StepOf, StepEach
  <2> HIDE DEF o
  <2>4. p = u
    <3>1. \A i \in 1 .. n : b[i] \in LowestTerms
      OBVIOUS
    <3>2. \A i \in 1 .. n : Times(b[i], o) = Times(o, b[i])
      BY <2>1, <3>1, TimesLaws
    <3> QED
      BY <2>3, <3>2
  <2>5. SumOf(u) = Times(o, SumOf(b))
    BY <2>1, SumTimes
  <2>6. AtMost(Times(o, a), Times(o, SumOf(b)))
    BY <1>0, <2>1, OrderLaws, TimesGrows
  <2>7. Times(a, o) = Times(o, a)
    BY <2>1, TimesLaws
  <2> QED
    BY <2>2, <2>4, <2>5, <2>6, <2>7
<1>3. CASE spec = None /\ mtp = None
  <2>1. StepOf(a, x, m, spec, mtp) = a /\ p = [i \in 1 .. n |-> b[i]]
    BY <1>3 DEF StepOf, StepEach
  <2>2. p = b
    BY <2>1
  <2> QED
    BY <2>1, <2>2
<1> QED
  BY <1>1, <1>2, <1>3

\* The weights and the experts of a model allow of it.
Outweighs(s, m) == WeightsOutweighSram(s, m) /\ EvenDispatch(s, m)

\* A batch and its requests alone, for one of the models of a step.
LEMMA BatchLatencyHolds ==
  ASSUME NEW s, WellSetUp(s), NEW m \in LlmConfigs, Outweighs(s, m),
         NEW n \in Nat \ {0}, NEW q \in [1 .. n -> Nat],
         NEW kv, kv = Total(1 .. n, q) \div n
  PROVE  LET p == LatencyEach(s.gpu, m, s.cluster, q, n)
         IN  /\ p \in [1 .. n -> LowestTerms] /\ kv \in Nat
             /\ DecodeLatency(s.gpu, n, kv, m, None, s.cluster) \in LowestTerms
             /\ AtMost(DecodeLatency(s.gpu, n, kv, m, None, s.cluster), SumOf(p))
<1> DEFINE gpu == s.gpu
           c == s.cluster
           p == LatencyEach(gpu, m, c, q, n)
<1>1. gpu \in GpuSpecs /\ c \in Clusters
  BY DEF WellSetUp
<1>2. WeightBytesPerChip(gpu, m, Greatest(c.tp, 1), c.ep)
        >= 2 * Greatest(c.pp, 1) * (gpu.on_chip_sram + 1)
  BY DEF Outweighs, WeightsOutweighSram
<1>3. TopK(m) <= c.ep \/ TopK(m) % Greatest(c.ep, 1) = 0
  BY DEF Outweighs, EvenDispatch, TopK
<1>4. p = LatencyEach(gpu, m, c, q, n)
  OBVIOUS
<1> HIDE DEF gpu, c, p
<1>5. /\ p \in [1 .. n -> LowestTerms] /\ kv \in Nat
      /\ DecodeLatency(gpu, n, kv, m, None, c) \in LowestTerms
      /\ AtMost(DecodeLatency(gpu, n, kv, m, None, c), SumOf(p))
  BY <1>1, <1>2, <1>3, <1>4, BatchLatency
<1> QED
  BY <1>5 DEF gpu, c, p

\* Batching pays, on any set-up.
LEMMA BatchHolds ==
  ASSUME setup # None => WellSetUp(setup), kv_lens \in Seq(Nat)
  PROVE  BatchingPays
<1> DEFINE Each == [i \in DOMAIN kv_lens |-> PriceOf(setup, None, 1, kv_lens[i])]
<1> SUFFICES ASSUME IsSetUp, kv_lens # <<>>,
                    \A m \in ModelsOf(setup) : Outweighs(setup, m)
             PROVE  AtMost(Price(setup), SumOf(Each))
  BY DEF BatchingPays, Outweighs
<1> DEFINE c == setup.cluster
           m == setup.model
           gpu == setup.gpu
           spec == setup.spec
           mtp == setup.mtp
           draft == spec.draft_model
           kv == AvgKvLen
           n == BatchSize
           q == kv_lens
<1>1. WellSetUp(setup)
  BY DEF IsSetUp
<1>2. /\ m \in LlmConfigs /\ Speculates(spec) /\ Speculates(mtp)
      /\ spec # None => draft \in LlmConfigs
  BY <1>1 DEF WellSetUp
<1>3. n \in Nat \ {0} /\ q \in [1 .. n -> Nat] /\ DOMAIN q = 1 .. n
  <2>1. q \in [1 .. n -> Nat] /\ n \in Nat /\ n # 0
    BY DEF BatchSize
  <2> QED
    BY <2>1
<1>4. kv = Total(1 .. n, q) \div n
  <2>1. Greatest(n, 1) = n
    BY <1>3 DEF Greatest
  <2> QED
    BY <1>3, <2>1 DEF AvgKvLen, TotalKvLen
<1>5. Outweighs(setup, m) /\ (spec # None => Outweighs(setup, draft))
  BY DEF ModelsOf
<1> DEFINE a == DecodeLatency(gpu, n, kv, m, None, c)
           x == DecodeLatency(gpu, n, kv, draft, None, c)
           b == LatencyEach(gpu, m, c, q, n)
           y == LatencyEach(gpu, draft, c, q, n)
           p == StepEach(b, y, n, m, spec, mtp)
<1>6. Price(setup) = StepOf(a, x, m, spec, mtp)
  BY StepLatencyIs DEF Price, PriceOf
<1>7. Each = p
  <2>1. \A i \in 1 .. n : PriceOf(setup, None, 1, q[i])
           = StepOf(DecodeLatency(gpu, 1, q[i], m, None, c),
                    DecodeLatency(gpu, 1, q[i], draft, None, c), m, spec, mtp)
    BY StepLatencyIs DEF PriceOf
  <2>2. \A i \in 1 .. n : b[i] = DecodeLatency(gpu, 1, q[i], m, None, c)
                          /\ y[i] = DecodeLatency(gpu, 1, q[i], draft, None, c)
    BY DEF LatencyEach
  <2> HIDE DEF b, y, c, m, gpu, spec, mtp, draft, n
  <2> QED
    BY <1>3, <2>1, <2>2 DEF StepEach
<1> HIDE DEF Each, m, spec, mtp, draft, kv, n, q
<1>8. b \in [1 .. n -> LowestTerms] /\ a \in LowestTerms /\ AtMost(a, SumOf(b))
  BY <1>1, <1>2, <1>3, <1>4, <1>5, BatchLatencyHolds
<1>9. spec # None => /\ x \in LowestTerms /\ y \in [1 .. n -> LowestTerms]
                     /\ AtMost(x, SumOf(y))
  BY <1>1, <1>2, <1>3, <1>4, <1>5, BatchLatencyHolds
<1>10. p = StepEach(b, y, n, m, spec, mtp)
  OBVIOUS
<1> HIDE DEF a, b, x, y, p
<1>11. AtMost(StepOf(a, x, m, spec, mtp), SumOf(p))
  BY <1>2, <1>3, <1>8, <1>9, <1>10, StepsSum
<1> QED
  BY <1>6, <1>7, <1>11

\* A batch never takes longer for a step than its requests one after the other
\* would, where the weights outweigh the on-chip memory and messages are even
\* (roofline_decode, ep_all_to_all_latency).
THEOREM BatchPays == PricedSpec => []BatchingPays
<1>1. PricedInv => BatchingPays
  BY BatchHolds DEF PricedInv
<1> QED
  BY PricedInvAlways, <1>1, PTL

-----------------------------------------------------------------------------
(* Parts rounded down *)

\* Rounded down is the greatest whole number that is not more.
LEMMA FloorIs ==
  ASSUME NEW a \in LowestTerms, NEW n \in Nat
  PROVE  Floor(a) \in Nat /\ (AtMost(Whole(n), a) <=> n <= Floor(a))
<1> DEFINE x == a.num
           d == a.den
<1>1. x \in Nat /\ d \in Nat \ {0}
  BY FractionType
<1>2. (AtMost(Whole(n), a) <=> n * d <= x) /\ Floor(a) = x \div d
  BY <1>1 DEF AtMost, Whole, Floor
<1> HIDE DEF x, d
<1>3. /\ x \div d \in Nat /\ (x \div d) * d <= x
      /\ n * d <= x => n <= x \div d
  BY <1>1, DivHolds
<1>4. ASSUME n <= x \div d PROVE n * d <= x
  <2> DEFINE q == x \div d
  <2>1. q \in Nat /\ q * d <= x /\ n <= q
    BY <1>3, <1>4
  <2> HIDE DEF q
  <2>2. n * d <= q * d
    BY <1>1, <2>1, ProductGrows
  <2> DEFINE y == n * d
             z == q * d
  <2>3. y \in Nat /\ z \in Nat /\ y <= z /\ z <= x
    BY <1>1, <2>1, <2>2
  <2> HIDE DEF y, z
  <2>4. y <= x
    BY <1>1, <2>3
  <2> QED
    BY <2>4 DEF y
<1> QED
  BY <1>2, <1>3, <1>4

\* A common factor may be left out of a comparison.
LEMMA TimesCancels ==
  ASSUME NEW k \in LowestTerms, k # Zero, NEW a \in LowestTerms, NEW b \in LowestTerms,
         AtMost(Times(k, a), Times(k, b))
  PROVE  AtMost(a, b)
<1> DEFINE i == Reciprocal(k)
<1>1. i \in LowestTerms /\ Times(k, i) = Whole(1)
  BY OverLaws
<1> HIDE DEF i
<1>2. \A f \in LowestTerms : /\ Times(k, f) \in LowestTerms
                             /\ Times(i, Times(k, f)) = f
  <2> TAKE f \in LowestTerms
  <2>1. Times(k, f) \in LowestTerms /\ Times(Whole(1), f) = f
    BY TimesLaws
  <2>2. Times(i, k) = Whole(1)
    BY <1>1, TimesLaws
  <2>3. Times(Times(i, k), f) = Times(i, Times(k, f))
    BY <1>1, TimesLaws
  <2> QED
    BY <2>1, <2>2, <2>3
<1>3. AtMost(i, i)
  BY <1>1, OrderLaws
<1>4. AtMost(Times(i, Times(k, a)), Times(i, Times(k, b)))
  BY <1>1, <1>2, <1>3, TimesGrows
<1> QED
  BY <1>2, <1>4

\* What so many bytes are by a divisor, and r times as many: with rounding, r times
\* as much and more, but less than r more.
LEMMA SparseRatio ==
  ASSUME NEW s \in LowestTerms, s # Zero, NEW r \in Nat \ {0}, NEW x \in Nat, NEW y \in Nat,
         NEW u, u = Floor(Over(Whole(y), s)), NEW v, v = Floor(Over(Whole(x), s))
  PROVE  /\ u \in Nat /\ v \in Nat
         /\ r * y <= x => r * u <= v
         /\ r * y = x => v < r * (u + 1)
<1> DEFINE a == Over(Whole(y), s)
           b == Over(Whole(x), s)
           R == Whole(r)
<1>1. Whole(x) \in LowestTerms /\ Whole(y) \in LowestTerms /\ R \in LowestTerms /\ R # Zero
  BY WholeLaws
<1>2. a \in LowestTerms /\ b \in LowestTerms
  BY <1>1, OrderLaws, OverGrows
<1>3. Times(R, a) = Over(Whole(r * y), s) /\ Times(R, a) \in LowestTerms
  <2> DEFINE i == Reciprocal(s)
             z == r * y
  <2>1. z \in Nat /\ Times(R, Whole(y)) = Whole(z)
    <3>1. r \in Nat
      OBVIOUS
    <3> QED
      BY <3>1, WholeLaws
  <2> HIDE DEF z
  <2>2. Whole(z) \in LowestTerms
    BY <2>1, WholeLaws
  <2>3. i \in LowestTerms /\ Over(Whole(z), s) = Times(Whole(z), i) /\ a = Times(Whole(y), i)
    BY <1>1, <2>2, OverLaws
  <2> HIDE DEF a, R
  <2>4. Times(Times(R, Whole(y)), i) = Times(R, Times(Whole(y), i)) /\ Times(R, a) \in LowestTerms
    BY <1>1, <1>2, <2>3, TimesLaws
  <2> QED
    BY <2>1, <2>3, <2>4 DEF z
<1>4. u = Floor(a) /\ v = Floor(b) /\ u \in Nat /\ v \in Nat
  <2>1. u = Floor(a) /\ v = Floor(b)
    OBVIOUS
  <2> HIDE DEF a, b
  <2> QED
    BY <1>2, <2>1, FloorType
<1>5. ASSUME r * y <= x PROVE r * u <= v
  <2>1. AtMost(Times(R, a), b)
    <3> DEFINE z == r * y
    <3>1. z \in Nat /\ z <= x
      BY <1>5
    <3> HIDE DEF z
    <3>2. AtMost(Whole(z), Whole(x)) /\ Whole(z) \in LowestTerms
      BY <3>1, WholeLaws
    <3>3. AtMost(Over(Whole(z), s), Over(Whole(x), s))
      BY <1>1, <3>2, OverGrows
    <3> QED
      BY <1>3, <3>3 DEF z
  <2> HIDE DEF a, b
  <2>2. AtMost(Whole(u), a)
    BY <1>2, <1>4, FloorIs
  <2> DEFINE z == r * u
  <2>3. z \in Nat /\ Times(R, Whole(u)) = Whole(z) /\ Whole(u) \in LowestTerms
    <3> HIDE DEF a, b
    <3>1. r \in Nat /\ u \in Nat
      BY <1>4
    <3>2. Times(Whole(r), Whole(u)) = Whole(r * u) /\ Whole(u) \in LowestTerms
      BY <3>1, WholeLaws
    <3>3. r * u \in Nat
      BY <3>1
    <3> QED
      BY <3>2, <3>3
  <2> HIDE DEF z, R
  <2>4. Whole(z) \in LowestTerms
    BY <2>3, WholeLaws
  <2>5. AtMost(Times(R, Whole(u)), Times(R, a))
    BY <1>1, <1>2, <2>2, <2>3, OrderLaws, TimesGrows
  <2>6. AtMost(Whole(z), b)
    BY <1>2, <1>3, <2>1, <2>3, <2>4, <2>5, OrderLaws
  <2>7. z <= v
    BY <1>2, <1>4, <2>3, <2>6, FloorIs
  <2> QED
    BY <2>7 DEF z
<1>6. ASSUME r * y = x PROVE v < r * (u + 1)
  <2>1. b = Times(R, a)
    BY <1>3, <1>6
  <2> HIDE DEF a, b
  <2> DEFINE w == u + 1
             z == r * w
  <2>2. w \in Nat /\ r \in Nat
    BY <1>4
  <2>3. z \in Nat /\ Times(R, Whole(w)) = Whole(z) /\ Whole(w) \in LowestTerms
    <3> HIDE DEF w
    <3>1. Times(Whole(r), Whole(w)) = Whole(r * w) /\ Whole(w) \in LowestTerms
      BY <2>2, WholeLaws
    <3>2. r * w \in Nat
      BY <2>2
    <3> QED
      BY <3>1, <3>2
  <2> HIDE DEF z, R
  <2>4. ~ AtMost(Whole(w), a)
    <3>1. ~ (w <= u)
      BY <1>4
    <3> HIDE DEF w
    <3> QED
      BY <1>2, <1>4, <2>2, <3>1, FloorIs
  <2> HIDE DEF w
  <2>5. ~ AtMost(Whole(z), b)
    BY <1>1, <1>2, <2>1, <2>3, <2>4, TimesCancels
  <2>6. ~ (z <= v)
    BY <1>2, <1>4, <2>3, <2>5, FloorIs
  <2>7. v < z
    BY <1>4, <2>3, <2>6
  <2> QED
    BY <2>7 DEF z, w
<1> QED
  BY <1>4, <1>5, <1>6

\* What is left of r times as much is no less.
LEMMA PartsLeft ==
  ASSUME NEW r \in {2, 4}, NEW u \in Nat, NEW v \in Nat, NEW w \in Nat, NEW e \in Nat,
         r * u <= w, r * v <= e, e < r * (v + 1)
  PROVE  /\ SatSub(u, v) \in Nat /\ SatSub(w, e) \in Nat /\ SatSub(u, v) <= SatSub(w, e)
         /\ u <= w /\ v <= e
<1>1. CASE r = 2
  BY <1>1 DEF SatSub
<1>2. CASE r = 4
  BY <1>2 DEF SatSub
<1> QED
  BY <1>1, <1>2

-----------------------------------------------------------------------------
(* The model in fewer bits *)

\* A model of which k is in a half or a quarter of the bits.
Narrower(k, m, r) ==
  /\ k \in LlmConfigs /\ Alike(k, m) /\ m.weight_bits = r * k.weight_bits
  /\ EffectiveKvBits(k) <= EffectiveKvBits(m) /\ KvEntries(k) = KvEntries(m)
  /\ ActivationBytes(k) <= ActivationBytes(m)
  /\ k.weight_sparsity = m.weight_sparsity
  /\ k.expert_hidden = m.expert_hidden /\ k.ffn_hidden = m.ffn_hidden
  /\ r * k.weight_bytes <= m.weight_bytes
  /\ r * k.active_weight_bytes <= m.active_weight_bytes
  /\ m.active_weight_bytes > 0 <=> k.active_weight_bytes > 0

\* Half or a quarter of the weights, and nothing else larger (with_quantization).
LEMMA NarrowerIs ==
  ASSUME NEW m \in LlmConfigs, NEW bits \in {4, 8, 16}, bits < m.weight_bits,
         StaysKnown(m, bits), NEW k, k = Requantized(m, bits)
  PROVE  \E r \in {2, 4} : Narrower(k, m, r)
<1> DEFINE A == EffectiveActivationBits(m)
           V == EffectiveKvBits(m)
           W == m.weight_bytes
           F == m.active_weight_bytes
           b == m.weight_bits
           w == (W * bits) \div b
           f == (F * bits) \div b
<1>1. A \in Nat \ {0} /\ V \in Nat \ {0} /\ W \in Nat /\ F \in Nat /\ b \in {4, 8, 16}
  BY WidthTypes, ModelFields
<1>2. PICK r \in {2, 4} : b = r * bits
  <2>1. \/ bits = 4 /\ b = 8
        \/ bits = 4 /\ b = 16
        \/ bits = 8 /\ b = 16
    BY <1>1
  <2> HIDE DEF b
  <2>2. CASE b = 2 * bits
    BY <2>2
  <2>3. CASE b = 4 * bits
    BY <2>3
  <2>4. b = 2 * bits \/ b = 4 * bits
    BY <2>1
  <2> QED
    BY <2>2, <2>3, <2>4
<1>3. k = [m EXCEPT !.weight_bits = bits, !.activation_bits = Least(A, bits),
                    !.kv_bits = Least(V, bits), !.weight_sparsity = m.weight_sparsity,
                    !.weight_bytes = w, !.active_weight_bytes = f]
  BY DEF Requantized, WithQuantization, LlmConfigs
<1>4. \A n \in Nat : (n * bits) \div b \in Nat /\ r * ((n * bits) \div b) <= n
  <2> TAKE n \in Nat
  <2>1. CASE r = 2 /\ bits = 4
    BY <1>2, <2>1
  <2>2. CASE r = 4 /\ bits = 4
    BY <1>2, <2>2
  <2>3. CASE r = 2 /\ bits = 8
    BY <1>2, <2>3
  <2>4. ~ (r = 4 /\ bits = 8) /\ bits # 16
    BY <1>1, <1>2
  <2> QED
    BY <2>1, <2>2, <2>3, <2>4
<1> HIDE DEF b
<1>5. w \in Nat /\ f \in Nat /\ r * w <= W /\ r * f <= F
  BY <1>1, <1>4
<1> HIDE DEF w, f, A, V
<1>6. Least(A, bits) \in Nat \ {0} /\ Least(V, bits) \in Nat \ {0}
      /\ Least(A, bits) <= A /\ Least(V, bits) <= V
  BY <1>1 DEF Least
<1>7. k \in LlmConfigs
  <2> DEFINE x == Least(A, bits)
             y == Least(V, bits)
             s == m.weight_sparsity
  <2>1. x \in Nat /\ y \in Nat /\ s \in LowestTerms /\ w \in Nat /\ f \in Nat
    BY <1>5, <1>6, ModelFields
  <2>2. k = [m EXCEPT !.weight_bits = bits, !.activation_bits = x, !.kv_bits = y,
                      !.weight_sparsity = s, !.weight_bytes = w, !.active_weight_bytes = f]
    BY <1>3
  <2> HIDE DEF x, y, s
  <2>3. k.n_moe_layers = m.n_moe_layers /\ k.n_layers = m.n_layers
    BY <2>2 DEF LlmConfigs
  <2>4. m.n_moe_layers <= m.n_layers
    BY ModelFields
  <2> DEFINE S == [n_layers : Nat \ {0}, d_model : Nat, n_kv_heads : Nat, head_dim : Nat,
                   ffn_hidden : Nat, weight_bits : {4, 8, 16}, activation_bits : Nat,
                   kv_bits : Nat, weight_sparsity : LowestTerms, weight_bytes : Nat,
                   active_weight_bytes : Nat, n_experts : Nat, n_active_experts : Nat,
                   n_shared_experts : Nat, n_moe_layers : Nat, expert_hidden : Nat,
                   kv_lora_rank : Nat]
  <2>5. m \in S
    BY DEF LlmConfigs
  <2>6. k \in S
    <3>1. \A c \in S, v \in {4, 8, 16} : [c EXCEPT !.weight_bits = v] \in S
      OBVIOUS
    <3>2. \A c \in S, v \in Nat :
            /\ [c EXCEPT !.activation_bits = v] \in S /\ [c EXCEPT !.kv_bits = v] \in S
            /\ [c EXCEPT !.weight_bytes = v] \in S /\ [c EXCEPT !.active_weight_bytes = v] \in S
      OBVIOUS
    <3> DEFINE c1 == [m EXCEPT !.weight_bits = bits]
               c2 == [c1 EXCEPT !.activation_bits = x]
               c3 == [c2 EXCEPT !.kv_bits = y]
               c4 == [c3 EXCEPT !.weight_sparsity = s]
               c5 == [c4 EXCEPT !.weight_bytes = w]
               c6 == [c5 EXCEPT !.active_weight_bytes = f]
    <3>3. \A c \in S, v \in LowestTerms : [c EXCEPT !.weight_sparsity = v] \in S
      OBVIOUS
    <3>4. k = c6
      BY <2>2, Zenon
    <3> HIDE DEF S
    <3>5. c6 \in S
      BY <2>1, <2>5, <3>1, <3>2, <3>3, Zenon
    <3> QED
      BY <3>4, <3>5
  <2>7. k.n_moe_layers <= k.n_layers
    BY <2>3, <2>4
  <2> HIDE DEF S
  <2>8. LlmConfigs = {c \in S : c.n_moe_layers <= c.n_layers}
    BY DEF LlmConfigs, S
  <2> QED
    BY <2>6, <2>7, <2>8
<1>8. /\ k.weight_bits = bits /\ k.activation_bits = Least(A, bits)
      /\ k.kv_bits = Least(V, bits) /\ k.weight_sparsity = m.weight_sparsity
      /\ k.weight_bytes = w /\ k.active_weight_bytes = f
      /\ k.n_layers = m.n_layers /\ k.n_moe_layers = m.n_moe_layers
      /\ k.n_experts = m.n_experts /\ k.n_active_experts = m.n_active_experts
      /\ k.n_shared_experts = m.n_shared_experts /\ k.d_model = m.d_model
      /\ k.n_kv_heads = m.n_kv_heads /\ k.head_dim = m.head_dim
      /\ k.kv_lora_rank = m.kv_lora_rank
      /\ k.expert_hidden = m.expert_hidden /\ k.ffn_hidden = m.ffn_hidden
  BY <1>3 DEF LlmConfigs
<1>9. EffectiveKvBits(k) <= V
  BY <1>6, <1>8 DEF EffectiveKvBits
<1>10. ActivationBytes(k) <= ActivationBytes(m)
  <2>1. EffectiveActivationBits(k) = Least(A, bits)
    BY <1>6, <1>8 DEF EffectiveActivationBits
  <2> DEFINE x == Least(A, bits)
  <2>2. x \in Nat \ {0} /\ x <= A
    BY <1>6
  <2> HIDE DEF x
  <2>3. CeilDiv(x, 8) \in Nat /\ CeilDiv(A, 8) \in Nat /\ CeilDiv(x, 8) <= CeilDiv(A, 8)
    BY <1>1, <2>2 DEF CeilDiv
  <2> QED
    BY <2>1, <2>3 DEF ActivationBytes, Greatest, A, x
<1>11. KvEntries(k) = KvEntries(m)
  BY <1>8 DEF KvEntries
<1>12. F > 0 <=> f > 0
  <2>1. F > 0 => f > 0
    BY <1>8 DEF StaysKnown
  <2>2. F = 0 => f = 0
    BY <1>2, <1>5
  <2> QED
    BY <1>1, <1>5, <2>1, <2>2
<1>13. /\ m.weight_bits = r * bits /\ r * k.weight_bytes <= m.weight_bytes
       /\ r * k.active_weight_bytes <= m.active_weight_bytes
       /\ m.active_weight_bytes > 0 <=> k.active_weight_bytes > 0
  BY <1>2, <1>5, <1>8, <1>12 DEF b, W, F
<1>14. Alike(k, m) /\ EffectiveKvBits(k) <= EffectiveKvBits(m)
  BY <1>8, <1>9 DEF Alike, V
<1> QED
  BY <1>7, <1>8, <1>10, <1>11, <1>13, <1>14 DEF Narrower

\* The bytes of the weights that a token passes, all of them and those of experts.
LEMMA NarrowerBytes ==
  ASSUME NEW m \in LlmConfigs, NEW r \in {2, 4}, NEW k, Narrower(k, m, r)
  PROVE  /\ WeightBytesActive(k) \in Nat /\ WeightBytesActive(m) \in Nat
         /\ ExpertWeightBytesActive(k) \in Nat /\ ExpertWeightBytesActive(m) \in Nat
         /\ r * WeightBytesActive(k) <= WeightBytesActive(m)
         /\ r * ExpertWeightBytesActive(k) = ExpertWeightBytesActive(m)
<1>1. k \in LlmConfigs /\ Alike(k, m)
  BY DEF Narrower
<1>2. /\ WeightBytesActive(k) \in Nat /\ WeightBytesActive(m) \in Nat
      /\ ExpertWeightBytesActive(k) \in Nat /\ ExpertWeightBytesActive(m) \in Nat
  BY <1>1, ActiveBytesType, ExpertBytes
<1>3. r * ExpertWeightBytesActive(k) = ExpertWeightBytesActive(m)
  <2> DEFINE p == ExpertPairs(m)
             x == ExpertWeightBytesActive(k)
             y == ExpertWeightBytesActive(m)
             b == k.weight_bits
  <2>1. ExpertPairs(k) = p
    BY DEF ExpertPairs, Narrower, Alike, IsMoe
  <2>2. x \in Nat /\ y \in Nat /\ p \in Nat /\ b \in {4, 8, 16}
    BY <1>1, <1>2, ExpertBytes, ModelFields
  <2>3. x * 4 = p * b /\ y * 4 = p * (r * b)
    BY <1>1, <2>1, ExpertBytes DEF Narrower
  <2> HIDE DEF p, x, y, b
  <2>4. p * (r * b) = r * (p * b)
    BY <2>2
  <2> DEFINE z == p * b
  <2> HIDE DEF z
  <2>5. x * 4 = z /\ y * 4 = r * z
    BY <2>3, <2>4 DEF z
  <2>6. r * x = y
    <3>1. CASE r = 2
      BY <2>2, <2>5, <3>1
    <3>2. CASE r = 4
      BY <2>2, <2>5, <3>2
    <3> QED
      BY <3>1, <3>2
  <2> QED
    BY <2>6 DEF x, y
<1>4. r * WeightBytesActive(k) <= WeightBytesActive(m)
  <2>1. CASE m.active_weight_bytes > 0
    <3>1. k.active_weight_bytes > 0
      BY <2>1 DEF Narrower
    <3> QED
      BY <2>1, <3>1 DEF Narrower, WeightBytesActive
  <2>2. CASE ~ (m.active_weight_bytes > 0)
    <3> DEFINE f == ActiveParamFraction(m)
               x == m.weight_bytes
               y == k.weight_bytes
    <3>1. ~ (k.active_weight_bytes > 0)
      BY <2>2 DEF Narrower
    <3>2. ActiveParamFraction(k) = f
      BY <2>2, <3>1 DEF ActiveParamFraction, Narrower, Alike, IsMoe
    <3>3. /\ WeightBytesActive(k) = Floor(Times(Whole(y), f))
          /\ WeightBytesActive(m) = Floor(Times(Whole(x), f))
      BY <2>2, <3>1, <3>2 DEF WeightBytesActive
    <3>4. f \in LowestTerms /\ x \in Nat /\ y \in Nat /\ r * y <= x
      BY <1>1, ActiveFractionType, ModelFields DEF Narrower
    <3> HIDE DEF f, x, y
    <3>5. r * Floor(Times(Whole(y), f)) <= Floor(Times(Whole(x), f))
      <4> DEFINE a == Times(Whole(y), f)
                 b == Times(Whole(x), f)
                 R == Whole(r)
                 u == Floor(a)
                 z == r * y
                 q == r * u
      <4>1. z \in Nat /\ z <= x /\ r \in Nat
        BY <3>4
      <4>2. /\ Whole(x) \in LowestTerms /\ Whole(y) \in LowestTerms /\ R \in LowestTerms
            /\ Times(R, Whole(y)) = Whole(z)
        BY <3>4, <4>1, WholeLaws
      <4> HIDE DEF z
      <4>3. Whole(z) \in LowestTerms /\ AtMost(Whole(z), Whole(x))
        BY <3>4, <4>1, WholeLaws
      <4> HIDE DEF R
      <4>4. a \in LowestTerms /\ b \in LowestTerms /\ Times(R, a) = Times(Whole(z), f)
            /\ Times(R, a) \in LowestTerms
        BY <3>4, <4>2, TimesLaws
      <4>5. AtMost(Times(R, a), b)
        BY <3>4, <4>2, <4>3, <4>4, OrderLaws
      <4> HIDE DEF a, b
      <4>6. u \in Nat /\ AtMost(Whole(u), a)
        <5>1. u \in Nat
          BY <4>4, FloorType
        <5> QED
          BY <4>4, <5>1, FloorIs
      <4> HIDE DEF u
      <4>7. q \in Nat /\ Times(R, Whole(u)) = Whole(q) /\ Whole(u) \in LowestTerms
        <5>1. r * u \in Nat
          BY <4>1, <4>6
        <5>2. Times(Whole(r), Whole(u)) = Whole(r * u) /\ Whole(u) \in LowestTerms
          BY <4>1, <4>6, WholeLaws
        <5> QED
          BY <5>1, <5>2 DEF R
      <4> HIDE DEF q
      <4>8. Whole(q) \in LowestTerms
        BY <4>7, WholeLaws
      <4>9. AtMost(Times(R, Whole(u)), Times(R, a))
        BY <4>2, <4>4, <4>6, <4>7, OrderLaws, TimesGrows
      <4>10. AtMost(Whole(q), b)
        BY <4>4, <4>5, <4>7, <4>8, <4>9, OrderLaws
      <4>11. q <= Floor(b)
        BY <4>4, <4>7, <4>10, FloorIs
      <4> QED
        BY <4>11 DEF q, u, a, b
    <3> QED
      BY <3>3, <3>5
  <2> QED
    BY <2>1, <2>2
<1> QED
  BY <1>2, <1>3, <1>4

\* ... and of a GPU.
LEMMA NarrowerChipBytes ==
  ASSUME NEW m \in LlmConfigs, NEW r \in {2, 4}, NEW k, Narrower(k, m, r), NEW gpu \in GpuSpecs,
         NEW tp \in Nat \ {0}, NEW ep \in Nat
  PROVE  /\ WeightBytesPerChip(gpu, k, tp, ep) \in Nat /\ WeightBytesPerChip(gpu, m, tp, ep) \in Nat
         /\ WeightBytesPerChip(gpu, k, tp, ep) <= WeightBytesPerChip(gpu, m, tp, ep)
<1> DEFINE s == EffectiveSparsity(gpu, m)
           u == EffectiveWeightBytesActive(gpu, k)
           v == EffectiveExpertWeightBytesActive(gpu, k)
           w == EffectiveWeightBytesActive(gpu, m)
           e == EffectiveExpertWeightBytesActive(gpu, m)
<1>1. k \in LlmConfigs /\ s \in LowestTerms /\ s # Zero
  BY SparsityType DEF Narrower
<1>2. EffectiveSparsity(gpu, k) = s
  BY DEF EffectiveSparsity, Narrower
<1> HIDE DEF s
<1>3. /\ u = Floor(Over(Whole(WeightBytesActive(k)), s))
      /\ v = Floor(Over(Whole(ExpertWeightBytesActive(k)), s))
      /\ w = Floor(Over(Whole(WeightBytesActive(m)), s))
      /\ e = Floor(Over(Whole(ExpertWeightBytesActive(m)), s))
  BY <1>2 DEF EffectiveWeightBytesActive, EffectiveExpertWeightBytesActive, s
<1>4. ShardsExperts(k, ep) = ShardsExperts(m, ep)
  BY DEF ShardsExperts, IsMoe, Narrower, Alike
<1>5. /\ WeightBytesPerChip(gpu, k, tp, ep)
           = IF ShardsExperts(m, ep) THEN SatSub(u, v) \div tp + v \div ep ELSE u \div tp
      /\ WeightBytesPerChip(gpu, m, tp, ep)
           = IF ShardsExperts(m, ep) THEN SatSub(w, e) \div tp + e \div ep ELSE w \div tp
  BY <1>4 DEF WeightBytesPerChip
<1> HIDE DEF u, v, w, e
<1>6. r \in Nat \ {0}
  OBVIOUS
<1>7. /\ u \in Nat /\ v \in Nat /\ w \in Nat /\ e \in Nat
      /\ r * u <= w /\ r * v <= e /\ e < r * (v + 1)
  <2> DEFINE x == WeightBytesActive(m)
             y == WeightBytesActive(k)
             a == ExpertWeightBytesActive(m)
             b == ExpertWeightBytesActive(k)
  <2>1. x \in Nat /\ y \in Nat /\ a \in Nat /\ b \in Nat /\ r * y <= x /\ r * b = a
    BY NarrowerBytes
  <2>2. u = Floor(Over(Whole(y), s)) /\ w = Floor(Over(Whole(x), s))
        /\ v = Floor(Over(Whole(b), s)) /\ e = Floor(Over(Whole(a), s))
    BY <1>3
  <2> HIDE DEF x, y, a, b
  <2>3. u \in Nat /\ w \in Nat /\ r * u <= w
    BY <1>1, <1>6, <2>1, <2>2, SparseRatio
  <2>4. r * b <= a
    BY <2>1
  <2>5. v \in Nat /\ e \in Nat /\ r * v <= e /\ e < r * (v + 1)
    BY <1>1, <1>6, <2>1, <2>2, <2>4, SparseRatio
  <2> QED
    BY <2>3, <2>5
<1>8. /\ SatSub(u, v) \in Nat /\ SatSub(w, e) \in Nat /\ SatSub(u, v) <= SatSub(w, e)
      /\ u <= w /\ v <= e
  BY <1>7, PartsLeft
<1> DEFINE p == SatSub(u, v)
           q == SatSub(w, e)
<1>9. p \in Nat /\ q \in Nat /\ p <= q
  BY <1>8
<1> HIDE DEF p, q
<1>10. /\ p \div tp \in Nat /\ q \div tp \in Nat /\ p \div tp <= q \div tp
       /\ u \div tp \in Nat /\ w \div tp \in Nat /\ u \div tp <= w \div tp
  BY <1>7, <1>8, <1>9, DivGrows
<1>11. ShardsExperts(m, ep) => v \div ep \in Nat /\ e \div ep \in Nat /\ v \div ep <= e \div ep
  <2>1. ShardsExperts(m, ep) => ep \in Nat \ {0}
    BY DEF ShardsExperts
  <2> QED
    BY <1>7, <1>8, <2>1, DivGrows
<1> QED
  BY <1>5, <1>10, <1>11 DEF p, q

-----------------------------------------------------------------------------
(* What fewer bits cost *)

\* The KV cache (kv_bytes).
LEMMA NarrowerKv ==
  ASSUME NEW m \in LlmConfigs, NEW r \in {2, 4}, NEW k, Narrower(k, m, r), NEW n \in Nat
  PROVE  KvBytes(k, n) \in Nat /\ KvBytes(m, n) \in Nat /\ KvBytes(k, n) <= KvBytes(m, n)
<1> DEFINE e == KvEntries(m)
           a == EffectiveKvBits(k)
           b == EffectiveKvBits(m)
           x == e * n
<1>1. k \in LlmConfigs
  BY DEF Narrower
<1>2. e \in Nat /\ a \in Nat /\ b \in Nat /\ a <= b
  BY <1>1, WidthTypes DEF Narrower
<1>3. KvBytes(k, n) = (x * a) \div 8 /\ KvBytes(m, n) = (x * b) \div 8
  BY DEF KvBytes, Narrower
<1> HIDE DEF e, a, b
<1>4. x \in Nat
  BY <1>2, SMT
<1> HIDE DEF x
<1>5. a * x <= b * x
  BY <1>2, <1>4, ProductGrows
<1>6. a * x = x * a /\ b * x = x * b /\ x * a \in Nat /\ x * b \in Nat
  BY <1>2, <1>4, SMT
<1> DEFINE p == x * a
           q == x * b
<1>7. p \in Nat /\ q \in Nat /\ p <= q
  BY <1>5, <1>6
<1> HIDE DEF p, q
<1>8. p \div 8 \in Nat /\ q \div 8 \in Nat /\ p \div 8 <= q \div 8
  BY <1>7, DivGrows
<1> QED
  BY <1>3, <1>8 DEF p, q

\* The work of a step is no more.
LEMMA NarrowerWork ==
  ASSUME NEW m \in LlmConfigs, NEW r \in {2, 4}, NEW k, Narrower(k, m, r), NEW gpu \in GpuSpecs,
         NEW batch \in Nat, NEW kv \in Nat,
         NEW tp \in Nat \ {0}, NEW pp \in Nat \ {0}, NEW ep \in Nat
  PROVE  AtMost(RooflineDecode(gpu, batch, kv, k, tp, pp, ep),
                RooflineDecode(gpu, batch, kv, m, tp, pp, ep))
<1> DEFINE W == WeightBytesPerChip(gpu, m, tp, ep)
           V == WeightBytesPerChip(gpu, k, tp, ep)
           p == KvBytes(k, kv)
           q == KvBytes(m, kv)
           a == KvEffectiveBytes(gpu, p * batch, tp, pp)
           b == KvEffectiveBytes(gpu, q * batch, tp, pp)
           R == DecodeRate(gpu)
<1>1. k \in LlmConfigs
  BY DEF Narrower
<1>2. /\ RooflineDecode(gpu, batch, kv, k, tp, pp, ep) = Over(Whole(V + a), R)
      /\ RooflineDecode(gpu, batch, kv, m, tp, pp, ep) = Over(Whole(W + b), R)
  BY Zenon DEF RooflineDecode, DecodeRate
<1>3. V \in Nat /\ W \in Nat /\ V <= W
  BY NarrowerChipBytes
<1>4. p \in Nat /\ q \in Nat /\ p <= q
  BY NarrowerKv
<1> HIDE DEF V, W, p, q
<1>5. a \in Nat /\ b \in Nat /\ a <= b
  <2>1. p * batch <= q * batch
    BY <1>4, ProductGrows
  <2>2. p * batch \in Nat /\ q * batch \in Nat
    BY <1>4, SMT
  <2> DEFINE x == p * batch
             y == q * batch
  <2>3. x \in Nat /\ y \in Nat /\ x <= y
    BY <2>1, <2>2
  <2> HIDE DEF x, y
  <2>4. /\ KvEffectiveBytes(gpu, x, tp, pp) \in Nat /\ KvEffectiveBytes(gpu, y, tp, pp) \in Nat
        /\ KvEffectiveBytes(gpu, x, tp, pp) <= KvEffectiveBytes(gpu, y, tp, pp)
    BY <2>3, KvEffectiveGrows
  <2> QED
    BY <2>4 DEF x, y
<1>6. R \in LowestTerms /\ R # Zero
  BY DecodeRateType
<1> HIDE DEF a, b, R
<1> DEFINE x == V + a
           y == W + b
<1>7. x \in Nat /\ y \in Nat /\ x <= y
  BY <1>3, <1>5
<1> HIDE DEF x, y
<1>8. Whole(x) \in LowestTerms /\ Whole(y) \in LowestTerms /\ AtMost(Whole(x), Whole(y))
  BY <1>7, WholeLaws
<1>9. AtMost(Over(Whole(x), R), Over(Whole(y), R))
  BY <1>6, <1>8, OverGrows
<1> QED
  BY <1>2, <1>9 DEF x, y

\* As many tokens, with work that is no more.
LEMMA NarrowerPipelined ==
  ASSUME NEW m \in LlmConfigs, NEW r \in {2, 4}, NEW k, Narrower(k, m, r), NEW c \in Clusters,
         NEW x \in Nat, NEW a \in LowestTerms, NEW b \in LowestTerms, AtMost(a, b)
  PROVE  /\ Pipelined(a, x, k, c) \in LowestTerms /\ Pipelined(b, x, m, c) \in LowestTerms
         /\ AtMost(Pipelined(a, x, k, c), Pipelined(b, x, m, c))
<1>1. k \in LlmConfigs /\ Alike(k, m) /\ ActivationBytes(k) <= ActivationBytes(m)
  BY DEF Narrower
<1>2. x <= 1 * x /\ 1 \in Nat \ {0}
  OBVIOUS
<1>3. c.ep > 1 => Dispatched(c, x, m) <= 1 * Dispatched(c, x, m)
  <2>1. TopK(m) \in Nat
    BY ModelFields DEF TopK, Greatest
  <2>2. x * TopK(m) \in Nat
    BY <2>1, SMT
  <2>3. c.ep > 1 => Share(c, x * TopK(m)) \in Nat
    BY <2>2, ShareType
  <2> QED
    BY <2>3 DEF Dispatched
<1>4. AtMost(a, Times(Whole(1), b))
  BY BoundOnce
<1>5. /\ Pipelined(b, x, m, c) \in LowestTerms /\ Pipelined(a, x, k, c) \in LowestTerms
      /\ AtMost(Pipelined(a, x, k, c), Times(Whole(1), Pipelined(b, x, m, c)))
  BY <1>1, <1>2, <1>3, <1>4, TokensBound
<1> QED
  BY <1>5, BoundOnce

\* A step is no slower.
LEMMA NarrowerDecode ==
  ASSUME NEW m \in LlmConfigs, NEW r \in {2, 4}, NEW k, Narrower(k, m, r), NEW gpu \in GpuSpecs,
         NEW c \in Clusters, NEW batch \in Nat, NEW kv \in Nat
  PROVE  /\ DecodeLatency(gpu, batch, kv, k, None, c) \in LowestTerms
         /\ DecodeLatency(gpu, batch, kv, m, None, c) \in LowestTerms
         /\ AtMost(DecodeLatency(gpu, batch, kv, k, None, c),
                   DecodeLatency(gpu, batch, kv, m, None, c))
<1> DEFINE a == DecodeWork(gpu, batch, kv, k, c)
           b == DecodeWork(gpu, batch, kv, m, c)
<1>1. k \in LlmConfigs
  BY DEF Narrower
<1>2. /\ a \in LowestTerms /\ b \in LowestTerms
      /\ DecodeLatency(gpu, batch, kv, k, None, c) = Pipelined(a, batch, k, c)
      /\ DecodeLatency(gpu, batch, kv, m, None, c) = Pipelined(b, batch, m, c)
  BY <1>1, DecodeWorkType
<1>3. AtMost(a, b)
  BY GroupTypes, NarrowerWork DEF DecodeWork
<1> HIDE DEF a, b
<1> QED
  BY <1>2, <1>3, NarrowerPipelined

\* A narrower model is computed with no slower (peak_flops_for).
LEMMA NarrowerFlops ==
  ASSUME NEW m \in LlmConfigs, NEW r \in {2, 4}, NEW k, Narrower(k, m, r), NEW gpu \in GpuSpecs,
         FasterWhenNarrower(gpu)
  PROVE  /\ PeakFlopsFor(gpu, m) \in Nat \ {0} /\ PeakFlopsFor(gpu, k) \in Nat \ {0}
         /\ PeakFlopsFor(gpu, m) <= PeakFlopsFor(gpu, k)
<1>1. /\ gpu.flops_fp8 \in Nat /\ gpu.flops_fp4 \in Nat /\ gpu.flops_bf16 \in Nat \ {0}
      /\ m.weight_bits \in {4, 8, 16} /\ k.weight_bits \in {4, 8, 16}
      /\ k.weight_bits < m.weight_bits
  <2>1. k \in LlmConfigs /\ m.weight_bits = r * k.weight_bits
    BY DEF Narrower
  <2>2. k.weight_bits \in {4, 8, 16} /\ m.weight_bits \in {4, 8, 16}
    BY <2>1, ModelFields
  <2>3. CASE r = 2
    BY <2>1, <2>2, <2>3, GpuFields
  <2>4. CASE r = 4
    BY <2>1, <2>2, <2>4, GpuFields
  <2> QED
    BY <2>3, <2>4
<1> QED
  BY <1>1 DEF PeakFlopsFor, FasterWhenNarrower, Greatest

\* A half or a quarter of the bytes holds as many parameters.
LEMMA NarrowerParams ==
  ASSUME NEW m \in LlmConfigs, NEW r \in {2, 4}, NEW k, Narrower(k, m, r), NEW gpu \in GpuSpecs,
         NEW x \in Nat, NEW y \in Nat, r * y <= x
  PROVE  /\ ParamsOf(gpu, k, y) \in LowestTerms /\ ParamsOf(gpu, m, x) \in LowestTerms
         /\ AtMost(ParamsOf(gpu, k, y), ParamsOf(gpu, m, x))
<1> DEFINE s == EffectiveSparsity(gpu, m)
           b == k.weight_bits
           w == m.weight_bits
           u == Over(Whole(y), Frac(b, 8))
           v == Over(Whole(x), Frac(w, 8))
<1>1. k \in LlmConfigs /\ s \in LowestTerms /\ s # Zero
  BY SparsityType DEF Narrower
<1>2. EffectiveSparsity(gpu, k) = s
  BY DEF EffectiveSparsity, Narrower
<1>3. b \in {4, 8, 16} /\ w \in {4, 8, 16} /\ w = r * b
  BY <1>1, ModelFields DEF Narrower
<1>4. ParamsOf(gpu, k, y) = Over(u, s) /\ ParamsOf(gpu, m, x) = Over(v, s)
  BY <1>2 DEF ParamsOf, WeightBytesPerParam
<1>5. ParamsOf(gpu, k, y) \in LowestTerms /\ ParamsOf(gpu, m, x) \in LowestTerms
  BY <1>1, ParamsType
<1> HIDE DEF s, b, w
<1>6. u = Frac(y * 8, b) /\ v = Frac(x * 8, w)
  <2>1. Whole(y) = Frac(y, 1) /\ Whole(x) = Frac(x, 1)
    BY WholeIsFrac
  <2>2. 1 \in Nat \ {0} /\ 8 \in Nat \ {0} /\ b \in Nat \ {0} /\ w \in Nat \ {0}
    BY <1>3
  <2>3. Over(Frac(y, 1), Frac(b, 8)) = Frac(y * 8, 1 * b)
        /\ Over(Frac(x, 1), Frac(w, 8)) = Frac(x * 8, 1 * w)
    BY <2>2, FracOver
  <2>4. 1 * b = b /\ 1 * w = w
    BY <2>2
  <2> QED
    BY <2>1, <2>3, <2>4
<1> HIDE DEF u, v
<1>7. (y * 8) * w <= (x * 8) * b
  <2>1. CASE r = 2 /\ b = 4
    BY <1>3, <2>1
  <2>2. CASE r = 4 /\ b = 4
    BY <1>3, <2>2
  <2>3. CASE r = 2 /\ b = 8
    BY <1>3, <2>3
  <2>4. ~ (r = 4 /\ b = 8) /\ b # 16
    BY <1>3
  <2> QED
    BY <1>3, <2>1, <2>2, <2>3, <2>4
<1>8. u \in LowestTerms /\ v \in LowestTerms /\ AtMost(u, v)
  <2> DEFINE p == y * 8
             q == x * 8
  <2>1. p \in Nat /\ q \in Nat /\ b \in Nat \ {0} /\ w \in Nat \ {0} /\ p * w <= q * b
    BY <1>3, <1>7
  <2> HIDE DEF p, q
  <2>2. Frac(p, b) \in LowestTerms /\ Frac(q, w) \in LowestTerms
        /\ AtMost(Frac(p, b), Frac(q, w))
    BY <2>1, FracType, FracAtMost
  <2> QED
    BY <1>6, <2>2 DEF p, q
<1> QED
  BY <1>1, <1>4, <1>5, <1>8, OverGrows

\* What a GPU computes for a token.
LEMMA NarrowerPerToken ==
  ASSUME NEW m \in LlmConfigs, NEW r \in {2, 4}, NEW k, Narrower(k, m, r), NEW gpu \in GpuSpecs,
         NEW tp \in Nat \ {0}, NEW ep \in Nat
  PROVE  AtMost(PerToken(gpu, k, tp, ep), PerToken(gpu, m, tp, ep))
<1> DEFINE w == WeightBytesActive(m)
           u == WeightBytesActive(k)
           e == ExpertWeightBytesActive(m)
           v == ExpertWeightBytesActive(k)
           p == SatSub(u, v)
           q == SatSub(w, e)
<1>1. w \in Nat /\ u \in Nat /\ e \in Nat /\ v \in Nat /\ r * u <= w /\ r * v = e
  BY NarrowerBytes
<1>2. ShardsExperts(k, ep) = ShardsExperts(m, ep)
  BY DEF ShardsExperts, IsMoe, Narrower, Alike
<1> DEFINE a == ParamsOf(gpu, k, v)
           b == ParamsOf(gpu, k, p)
           c == ParamsOf(gpu, k, u)
           x == ParamsOf(gpu, m, e)
           y == ParamsOf(gpu, m, q)
           z == ParamsOf(gpu, m, w)
<1>3. /\ PerToken(gpu, k, tp, ep)
           = IF ShardsExperts(m, ep) THEN Plus(Over(b, Whole(tp)), Over(a, Whole(ep)))
             ELSE Over(c, Whole(tp))
      /\ PerToken(gpu, m, tp, ep)
           = IF ShardsExperts(m, ep) THEN Plus(Over(y, Whole(tp)), Over(x, Whole(ep)))
             ELSE Over(z, Whole(tp))
  BY <1>2 DEF PerToken
<1> HIDE DEF w, u, e, v
<1>4. p \in Nat /\ q \in Nat /\ r * p <= q /\ r * v <= e
  <2>1. CASE r = 2
    BY <1>1, <2>1 DEF SatSub
  <2>2. CASE r = 4
    BY <1>1, <2>2 DEF SatSub
  <2> QED
    BY <2>1, <2>2
<1> HIDE DEF p, q
<1>5. a \in LowestTerms /\ x \in LowestTerms /\ AtMost(a, x)
  BY <1>1, <1>4, NarrowerParams
<1>6. b \in LowestTerms /\ y \in LowestTerms /\ AtMost(b, y)
  BY <1>4, NarrowerParams
<1>7. c \in LowestTerms /\ z \in LowestTerms /\ AtMost(c, z)
  BY <1>1, NarrowerParams
<1> HIDE DEF a, b, c, x, y, z
<1>8. \A n \in Nat \ {0} : \A f, g \in LowestTerms :
        AtMost(f, g) => /\ Over(f, Whole(n)) \in LowestTerms /\ Over(g, Whole(n)) \in LowestTerms
                        /\ AtMost(Over(f, Whole(n)), Over(g, Whole(n)))
  <2> TAKE n \in Nat \ {0}
  <2> TAKE f, g \in LowestTerms
  <2> HAVE AtMost(f, g)
  <2>1. Whole(n) \in LowestTerms /\ Whole(n) # Zero
    BY WholeLaws
  <2>2. AtMost(g, g)
    BY OrderLaws
  <2> QED
    BY <2>1, <2>2, OverGrows
<1>9. AtMost(Over(c, Whole(tp)), Over(z, Whole(tp)))
  BY <1>7, <1>8
<1>10. ShardsExperts(m, ep) => AtMost(Plus(Over(b, Whole(tp)), Over(a, Whole(ep))),
                                      Plus(Over(y, Whole(tp)), Over(x, Whole(ep))))
  <2> SUFFICES ASSUME ShardsExperts(m, ep)
               PROVE  AtMost(Plus(Over(b, Whole(tp)), Over(a, Whole(ep))),
                             Plus(Over(y, Whole(tp)), Over(x, Whole(ep))))
    OBVIOUS
  <2>1. ep \in Nat \ {0}
    BY DEF ShardsExperts
  <2>2. /\ Over(b, Whole(tp)) \in LowestTerms /\ Over(y, Whole(tp)) \in LowestTerms
        /\ AtMost(Over(b, Whole(tp)), Over(y, Whole(tp)))
    BY <1>6, <1>8
  <2>3. /\ Over(a, Whole(ep)) \in LowestTerms /\ Over(x, Whole(ep)) \in LowestTerms
        /\ AtMost(Over(a, Whole(ep)), Over(x, Whole(ep)))
    BY <1>5, <1>8, <2>1
  <2> QED
    BY <2>2, <2>3, PlusGrows
<1> QED
  BY <1>3, <1>9, <1>10

\* A prefill is no slower.
LEMMA NarrowerPrefill ==
  ASSUME NEW m \in LlmConfigs, NEW r \in {2, 4}, NEW k, Narrower(k, m, r), NEW gpu \in GpuSpecs,
         FasterWhenNarrower(gpu), NEW c \in Clusters, NEW t \in Nat
  PROVE  AtMost(PrefillLatency(gpu, 1, t, k, None, c), PrefillLatency(gpu, 1, t, m, None, c))
<1> DEFINE tp == Greatest(c.tp, 1)
           T == Whole(2 * 1 * t)
           p == PerToken(gpu, k, tp, c.ep)
           q == PerToken(gpu, m, tp, c.ep)
           f == PrefillRate(gpu, k)
           g == PrefillRate(gpu, m)
           a == PrefillWork(gpu, 1, t, k, c)
           b == PrefillWork(gpu, 1, t, m, c)
<1>1. k \in LlmConfigs /\ tp \in Nat \ {0} /\ c.ep \in Nat
  BY GroupTypes DEF Narrower
<1>2. /\ a \in LowestTerms /\ b \in LowestTerms
      /\ PrefillLatency(gpu, 1, t, k, None, c) = Pipelined(a, t, k, c)
      /\ PrefillLatency(gpu, 1, t, m, None, c) = Pipelined(b, t, m, c)
  BY <1>1, PrefillIs
<1>3. a = Over(Times(T, p), f) /\ b = Over(Times(T, q), g)
  BY Zenon DEF PrefillWork, RooflinePrefill, PerToken, PrefillRate
<1>4. T \in LowestTerms
  <2>1. 2 * 1 * t \in Nat
    BY SMT
  <2> QED
    BY <2>1, WholeLaws
<1>5. p \in LowestTerms /\ q \in LowestTerms /\ AtMost(p, q)
  BY <1>1, PerTokenType, NarrowerPerToken
<1>6. f \in LowestTerms /\ g \in LowestTerms /\ f # Zero /\ g # Zero /\ AtMost(g, f)
  <2> DEFINE x == PeakFlopsFor(gpu, k)
             y == PeakFlopsFor(gpu, m)
             u == gpu.mfu_prefill
  <2>1. f \in LowestTerms /\ g \in LowestTerms /\ f # Zero /\ g # Zero
    BY PrefillRateType
  <2>2. f = Times(Whole(x), u) /\ g = Times(Whole(y), u)
    BY DEF PrefillRate
  <2>3. x \in Nat /\ y \in Nat /\ y <= x /\ u \in LowestTerms
    BY NarrowerFlops, GpuFields
  <2> HIDE DEF x, y, u, f, g
  <2>4. Whole(x) \in LowestTerms /\ Whole(y) \in LowestTerms /\ AtMost(Whole(y), Whole(x))
    BY <2>3, WholeLaws
  <2>5. AtMost(Times(Whole(y), u), Times(Whole(x), u))
    BY <2>3, <2>4, OrderLaws
  <2> QED
    BY <2>1, <2>2, <2>5
<1> HIDE DEF tp, T, p, q, f, g, a, b
<1> DEFINE x == Times(T, p)
           y == Times(T, q)
<1>7. x \in LowestTerms /\ y \in LowestTerms /\ AtMost(x, y)
  BY <1>4, <1>5, OrderLaws, TimesLaws, TimesGrows
<1> HIDE DEF x, y
<1>8. AtMost(y, y)
  BY <1>7, OrderLaws
<1>9. /\ Over(x, f) \in LowestTerms /\ Over(y, f) \in LowestTerms /\ Over(y, g) \in LowestTerms
      /\ AtMost(Over(x, f), Over(y, f)) /\ AtMost(Over(y, f), Over(y, g))
  BY <1>6, <1>7, <1>8, OverGrows, OverShrinks
<1>10. AtMost(a, b)
  BY <1>3, <1>9, OrderLaws DEF x, y
<1> QED
  BY <1>2, <1>10, NarrowerPipelined

\* The transfer of a KV cache is no slower (kv_transfer_latency).
LEMMA NarrowerTransfer ==
  ASSUME NEW m \in LlmConfigs, NEW r \in {2, 4}, NEW k, Narrower(k, m, r),
         NEW c \in Clusters, NEW n \in Nat
  PROVE  AtMost(KvTransferLatency(c, KvBytes(k, n)), KvTransferLatency(c, KvBytes(m, n)))
<1> DEFINE p == KvBytes(k, n)
           q == KvBytes(m, n)
<1>1. p \in Nat /\ q \in Nat /\ p <= q
  BY NarrowerKv
<1>2. c.internode_bw \in Nat
  BY ClusterFields
<1> HIDE DEF p, q
<1>3. CASE ~c.disaggregate \/ c.internode_bw = 0
  <2>1. AtMost(Zero, Zero)
    BY WholeLaws, OrderLaws
  <2> QED
    BY <1>3, <2>1 DEF KvTransferLatency, p, q
<1>4. CASE ~(~c.disaggregate \/ c.internode_bw = 0)
  <2> DEFINE d == c.internode_bw
  <2>1. d \in Nat \ {0} /\ d <= d
    BY <1>2, <1>4
  <2> HIDE DEF d
  <2>2. AtMost(Frac(p, d), Frac(q, d))
    BY <1>1, <2>1, FracGrows
  <2> QED
    BY <1>4, <2>2 DEF KvTransferLatency, p, q, d
<1> QED
  BY <1>3, <1>4

\* The blocks of a pool are no fewer (auto_kv_blocks).
LEMMA NarrowerBlocks ==
  ASSUME NEW m \in LlmConfigs, NEW r \in {2, 4}, NEW k, Narrower(k, m, r), NEW gpu \in GpuSpecs,
         NEW block_size \in Nat, NEW tp \in Nat, NEW pp \in Nat,
         m.weight_bytes \div Greatest(tp * pp, 1) < gpu.memory_capacity
  PROVE  AutoKvBlocks(gpu, k, block_size, tp, pp) >= AutoKvBlocks(gpu, m, block_size, tp, pp)
<1> DEFINE n == Greatest(tp * pp, 1)
           M == gpu.memory_capacity
           W == m.weight_bytes
           V == k.weight_bytes
           w == W \div n
           v == V \div n
           p == KvBytes(k, 1)
           q == KvBytes(m, 1)
           x == Greatest(p * block_size, 1)
           y == Greatest(q * block_size, 1)
           a == Frac(4 * (M - v), 5)
           b == Frac(4 * (M - w), 5)
           f == Floor(Over(Times(Whole(n), a), Whole(x)))
           g == Floor(Over(Times(Whole(n), b), Whole(y)))
<1>1. n \in Nat \ {0}
  <2>1. tp * pp \in Nat
    BY SMT
  <2> DEFINE z == tp * pp
  <2>2. z \in Nat
    BY <2>1
  <2> HIDE DEF z
  <2>3. Greatest(z, 1) \in Nat \ {0}
    BY <2>2 DEF Greatest
  <2> QED
    BY <2>3 DEF z
<1>2. k \in LlmConfigs /\ V \in Nat /\ W \in Nat /\ M \in Nat /\ r * V <= W /\ w < M
  BY ModelFields, GpuFields DEF Narrower
<1>3. V <= W
  <2> HIDE DEF V, W, w, M
  <2>1. CASE r = 2
    BY <1>2, <2>1
  <2>2. CASE r = 4
    BY <1>2, <2>2
  <2> QED
    BY <2>1, <2>2
<1> HIDE DEF n, W, V, M
<1>4. w \in Nat /\ v \in Nat /\ v <= w
  BY <1>1, <1>2, <1>3, DivGrows
<1> HIDE DEF v, w
<1>5. v < M
  BY <1>2, <1>4
<1>6. /\ AutoKvBlocks(gpu, k, block_size, tp, pp) = Greatest(f, 64)
      /\ AutoKvBlocks(gpu, m, block_size, tp, pp) = Greatest(g, 64)
  BY <1>2, <1>5 DEF AutoKvBlocks, n, M, V, W, v, w
<1>7. a \in LowestTerms /\ b \in LowestTerms /\ AtMost(b, a)
  <2> DEFINE i == 4 * (M - v)
             j == 4 * (M - w)
  <2>1. i \in Nat /\ j \in Nat /\ j <= i
    BY <1>2, <1>4
  <2> HIDE DEF i, j
  <2>2. 5 \in Nat \ {0} /\ 5 <= 5
    OBVIOUS
  <2>3. Frac(i, 5) \in LowestTerms /\ Frac(j, 5) \in LowestTerms /\ AtMost(Frac(j, 5), Frac(i, 5))
    BY <2>1, <2>2, FracType, FracGrows
  <2> QED
    BY <2>3 DEF i, j
<1>8. x \in Nat \ {0} /\ y \in Nat \ {0} /\ x <= y
  <2>1. p \in Nat /\ q \in Nat /\ p <= q
    BY NarrowerKv
  <2> HIDE DEF p, q
  <2>2. p * block_size <= q * block_size
    BY <2>1, ProductGrows
  <2>3. p * block_size \in Nat /\ q * block_size \in Nat
    BY <2>1, SMT
  <2> DEFINE i == p * block_size
             j == q * block_size
  <2>4. i \in Nat /\ j \in Nat /\ i <= j
    BY <2>2, <2>3
  <2> HIDE DEF i, j
  <2>5. Greatest(i, 1) \in Nat \ {0} /\ Greatest(j, 1) \in Nat \ {0} /\ Greatest(i, 1) <= Greatest(j, 1)
    BY <2>4 DEF Greatest
  <2> QED
    BY <2>5 DEF i, j
<1> HIDE DEF x, y, a, b
<1>9. /\ Whole(n) \in LowestTerms /\ Whole(x) \in LowestTerms /\ Whole(y) \in LowestTerms
      /\ Whole(x) # Zero /\ Whole(y) # Zero /\ AtMost(Whole(x), Whole(y))
  <2>1. n \in Nat /\ x \in Nat /\ y \in Nat /\ x # 0 /\ y # 0
    BY <1>1, <1>8
  <2> QED
    BY <1>8, <2>1, WholeLaws
<1> DEFINE i == Times(Whole(n), a)
           j == Times(Whole(n), b)
<1>10. i \in LowestTerms /\ j \in LowestTerms /\ AtMost(j, i)
  BY <1>7, <1>9, OrderLaws, TimesLaws, TimesGrows
<1> HIDE DEF i, j
<1>11. AtMost(i, i)
  BY <1>10, OrderLaws
<1>12. /\ Over(j, Whole(y)) \in LowestTerms /\ Over(i, Whole(y)) \in LowestTerms
       /\ Over(i, Whole(x)) \in LowestTerms
       /\ AtMost(Over(j, Whole(y)), Over(i, Whole(y)))
       /\ AtMost(Over(i, Whole(y)), Over(i, Whole(x)))
  BY <1>9, <1>10, <1>11, OverGrows, OverShrinks
<1>13. AtMost(Over(j, Whole(y)), Over(i, Whole(x)))
  BY <1>12, OrderLaws
<1>14. f \in Nat /\ g \in Nat /\ g <= f
  BY <1>12, <1>13, FloorGrows DEF i, j
<1> HIDE DEF f, g
<1> QED
  BY <1>6, <1>14 DEF Greatest

\* Fewer bits are no slower, on any set-up.
LEMMA BitsHold ==
  ASSUME setup # None => WellSetUp(setup), kv_lens \in Seq(Nat)
  PROVE  FewerBitsNeverSlower
<1> DEFINE Blocks(s) == AutoKvBlocks(s.gpu, s.model, s.block_size, s.cluster.tp, s.cluster.pp)
           Transfer(s) == KvTransferLatency(s.cluster, KvBytes(s.model, AvgKvLen))
<1> SUFFICES ASSUME IsSetUp, FasterWhenNarrower(setup.gpu), NEW bits \in {4, 8, 16},
                    bits < setup.model.weight_bits, StaysKnown(setup.model, bits)
             PROVE  LET narrow == [setup EXCEPT !.model = Requantized(@, bits)]
                    IN  /\ AtMost(Price(narrow), Price(setup))
                        /\ AtMost(PrefillPrice(narrow), PrefillPrice(setup))
                        /\ AtMost(Transfer(narrow), Transfer(setup))
                        /\ WeightsFit(setup) => Blocks(narrow) >= Blocks(setup)
  BY Zenon DEF FewerBitsNeverSlower
<1> DEFINE narrow == [setup EXCEPT !.model = Requantized(@, bits)]
           c == setup.cluster
           m == setup.model
           k == Requantized(m, bits)
           gpu == setup.gpu
           kv == AvgKvLen
           batch == BatchSize
           spec == setup.spec
           mtp == setup.mtp
           t == Greatest(TotalKvLen(kv_lens), 1)
<1>1. WellSetUp(setup)
  BY DEF IsSetUp
<1>2. /\ narrow.gpu = gpu /\ narrow.model = k /\ narrow.spec = spec /\ narrow.mtp = mtp
      /\ narrow.cluster = c /\ narrow.block_size = setup.block_size
  BY <1>1 DEF WellSetUp
<1>3. /\ gpu \in GpuSpecs /\ m \in LlmConfigs /\ c \in Clusters /\ setup.block_size \in Nat
      /\ Speculates(spec) /\ Speculates(mtp)
      /\ spec # None => spec.draft_model \in LlmConfigs
  BY <1>1 DEF WellSetUp
<1>4. batch \in Nat /\ kv \in Nat /\ t \in Nat
  BY BatchTypes
<1> DEFINE a == DecodeLatency(gpu, batch, kv, k, None, c)
           b == DecodeLatency(gpu, batch, kv, m, None, c)
           y == DecodeLatency(gpu, batch, kv, spec.draft_model, None, c)
<1>5. Price(setup) = StepOf(b, y, m, spec, mtp) /\ Price(narrow) = StepOf(a, y, k, spec, mtp)
  BY <1>2, StepLatencyIs DEF Price, PriceOf
<1>6. /\ PrefillPrice(setup) = PrefillLatency(gpu, 1, t, m, None, c)
      /\ PrefillPrice(narrow) = PrefillLatency(gpu, 1, t, k, None, c)
  BY <1>2 DEF PrefillPrice
<1>7. /\ Transfer(setup) = KvTransferLatency(c, KvBytes(m, kv))
      /\ Transfer(narrow) = KvTransferLatency(c, KvBytes(k, kv))
  BY <1>2
<1>8. /\ Blocks(setup) = AutoKvBlocks(gpu, m, setup.block_size, c.tp, c.pp)
      /\ Blocks(narrow) = AutoKvBlocks(gpu, k, setup.block_size, c.tp, c.pp)
  BY <1>2
<1>9. /\ FasterWhenNarrower(gpu) /\ bits < m.weight_bits /\ StaysKnown(m, bits)
      /\ WeightsFit(setup) => m.weight_bytes \div Greatest(c.tp * c.pp, 1) < gpu.memory_capacity
  BY DEF WeightsFit
<1> DEFINE size == setup.block_size
<1>10. size \in Nat
  BY <1>3
<1> HIDE DEF c, m, gpu, kv, batch, spec, mtp, t, size
<1>11. PICK r \in {2, 4} : Narrower(k, m, r)
  BY <1>3, <1>9, NarrowerIs
<1> HIDE DEF k
<1>12. AtMost(PrefillLatency(gpu, 1, t, k, None, c), PrefillLatency(gpu, 1, t, m, None, c))
  BY <1>3, <1>4, <1>9, <1>11, NarrowerPrefill
<1>13. AtMost(KvTransferLatency(c, KvBytes(k, kv)), KvTransferLatency(c, KvBytes(m, kv)))
  BY <1>3, <1>4, <1>11, NarrowerTransfer
<1>14. c.tp \in Nat /\ c.pp \in Nat
  BY <1>3, ClusterFields
<1>15. WeightsFit(setup) => AutoKvBlocks(gpu, k, size, c.tp, c.pp)
                              >= AutoKvBlocks(gpu, m, size, c.tp, c.pp)
  <2> SUFFICES ASSUME WeightsFit(setup)
               PROVE  AutoKvBlocks(gpu, k, size, c.tp, c.pp) >= AutoKvBlocks(gpu, m, size, c.tp, c.pp)
    OBVIOUS
  <2> QED
    BY <1>3, <1>9, <1>10, <1>11, <1>14, NarrowerBlocks
<1>16. /\ a \in LowestTerms /\ b \in LowestTerms /\ AtMost(a, b)
       /\ spec # None => y \in LowestTerms
  <2>1. a \in LowestTerms /\ b \in LowestTerms /\ AtMost(a, b)
    BY <1>3, <1>4, <1>11, NarrowerDecode
  <2>2. spec # None => y \in LowestTerms
    <3> SUFFICES ASSUME spec # None PROVE y \in LowestTerms
      OBVIOUS
    <3> DEFINE d == spec.draft_model
    <3>1. d \in LlmConfigs
      BY <1>3
    <3> HIDE DEF d
    <3>2. DecodeLatency(gpu, batch, kv, d, None, c) \in LowestTerms
      <4>1. AtMost(DecodeWork(gpu, batch, kv, d, c), DecodeWork(gpu, batch, kv, d, c))
        BY <1>3, <1>4, <3>1, DecodeWorkType, OrderLaws
      <4> QED
        BY <1>3, <1>4, <3>1, <4>1, DecodeWorkType, PipelinedGrows
    <3> QED
      BY <3>2 DEF d
  <2> QED
    BY <2>1, <2>2
<1>17. k.n_layers = m.n_layers
  BY <1>11 DEF Narrower, Alike
<1> HIDE DEF a, b, y
<1>18. AtMost(a, Times(Whole(1), b)) /\ (spec # None => AtMost(y, Times(Whole(1), y)))
  <2>1. spec # None => AtMost(y, y)
    BY <1>16, OrderLaws
  <2> QED
    BY <1>16, <2>1, BoundOnce
<1>19. /\ StepOf(a, y, k, spec, mtp) \in LowestTerms /\ StepOf(b, y, m, spec, mtp) \in LowestTerms
       /\ AtMost(StepOf(a, y, k, spec, mtp), Times(Whole(1), StepOf(b, y, m, spec, mtp)))
  BY <1>3, <1>16, <1>17, <1>18, StepBound
<1>20. AtMost(Price(narrow), Price(setup))
  BY <1>5, <1>19, BoundOnce
<1> QED
  BY <1>6, <1>7, <1>8, <1>12, <1>13, <1>15, <1>20 DEF k, m, size

\* A model in fewer bits never takes longer for a prefill, a step or the transfer of
\* a KV cache, nor leaves room for fewer blocks (with_quantization, peak_flops_for,
\* active_param_fraction, kv_bytes, kv_transfer_latency, auto_kv_blocks).
THEOREM FewerBitsFaster == PricedSpec => []FewerBitsNeverSlower
<1>1. PricedInv => FewerBitsNeverSlower
  BY BitsHold DEF PricedInv
<1> QED
  BY PricedInvAlways, <1>1, PTL
=============================================================================
