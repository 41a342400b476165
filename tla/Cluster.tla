------------------------------- MODULE Cluster ------------------------------
(***************************************************************************)
(* What communication costs: hardware/cluster.rs.  A cluster is a record   *)
(* with the fields of ClusterConfig, bandwidths in bytes per unit of time. *)
(* A bandwidth of 0 is a network that is not there.                        *)
(***************************************************************************)
EXTENDS Fractions, Tally

NodeSize(c) == Greatest(c.gpus_per_node, 1)

\* One message over a link.
Hop(bytes, bw, latency) == Plus(Whole(latency), Frac(bytes, bw))

\* Each hop of a ring passes on the nth part of the message.
RingLatency(n, msg_bytes, bw, latency) ==
  IF n <= 1 \/ bw = 0 THEN Zero
  ELSE Times(Whole(2 * (n - 1)), Hop(msg_bytes, n * bw, latency))

SpansScaleOut(c, degree) == c.scale_out_bw > 0 /\ degree > NodeSize(c)

KvTransferLatency(c, kv_bytes) ==
  IF ~c.disaggregate \/ c.internode_bw = 0 THEN Zero ELSE Frac(kv_bytes, c.internode_bw)

\* Within each node, then across nodes, then within each node again.
HierarchicalReduce(c, msg_bytes) ==
  LET local == Least(NodeSize(c), c.tp)
      nodes == CeilDiv(c.tp, NodeSize(c))
  IN  Plus(Times(Whole(2), RingLatency(local, msg_bytes, c.scale_up_bw, c.scale_up_latency)),
           RingLatency(nodes, msg_bytes, c.scale_out_bw, c.scale_out_latency))

AllReduceLatency(c, msg_bytes) ==
  IF c.tp <= 1 \/ c.scale_up_bw = 0 THEN Zero
  ELSE IF SpansScaleOut(c, c.tp) THEN HierarchicalReduce(c, msg_bytes)
  ELSE RingLatency(c.tp, msg_bytes, c.scale_up_bw, c.scale_up_latency)

\* Mutant of CrossBoundaries: rounds up, as for a number of nodes.
CrossBoundaries_RoundedUp(c) == CeilDiv(c.pp - 1, NodeSize(c))

\* Boundaries of the pipeline with a node on either side.
CrossBoundaries(c) == (c.pp - 1) \div NodeSize(c)

\* Mutant of MeanBoundary: divides by the number of stages.
MeanBoundary_OverStages(c, activation_bytes, scale_out_bw) ==
  LET cross == CrossBoundaries(c)
      local == Hop(activation_bytes, Greatest(c.scale_up_bw, 1), c.scale_up_latency)
      remote == Hop(activation_bytes, Greatest(scale_out_bw, 1), c.scale_out_latency)
  IN  Over(Plus(Times(Whole(c.pp - 1 - cross), local), Times(Whole(cross), remote)),
           Whole(c.pp))

\* The mean over the boundaries of a pipeline that spans nodes.
MeanBoundary(c, activation_bytes, scale_out_bw) ==
  LET boundaries == c.pp - 1
      cross == CrossBoundaries(c)
      local == Hop(activation_bytes, Greatest(c.scale_up_bw, 1), c.scale_up_latency)
      remote == Hop(activation_bytes, Greatest(scale_out_bw, 1), c.scale_out_latency)
  IN  Over(Plus(Times(Whole(boundaries - cross), local), Times(Whole(cross), remote)),
           Whole(boundaries))

PpTransferLatency(c, activation_bytes, intranode) ==
  LET scale_out_bw == IF c.scale_out_bw > 0 THEN c.scale_out_bw ELSE c.internode_bw
      bw == IF intranode THEN c.scale_up_bw ELSE scale_out_bw
      latency == IF intranode THEN c.scale_up_latency ELSE c.scale_out_latency
  IN  IF c.pp <= 1 THEN Zero
      ELSE IF intranode /\ SpansScaleOut(c, c.pp)
           THEN MeanBoundary(c, activation_bytes, scale_out_bw)
      ELSE IF bw = 0 THEN Zero ELSE Hop(activation_bytes, bw, latency)

\* The bytes a GPU holds for an all-to-all: those of one token at least.
DispatchBytes(c, batch_tokens, d_model, activation_bytes) ==
  Greatest(batch_tokens \div c.ep, 1) * d_model * activation_bytes

\* An all-to-all that leaves the node: the part for its own node, and the rest.
SpreadLatency(c, msg_bytes) ==
  LET local_ep == Least(NodeSize(c), c.ep)
  IN  Plus(Hop(msg_bytes * (local_ep - 1), c.ep * c.scale_up_bw, c.scale_up_latency),
           Hop(msg_bytes * (c.ep - local_ep), c.ep * c.scale_out_bw, c.scale_out_latency))

\* One direction of expert dispatch.  batch_tokens counts a token once for each
\* expert it goes to.
EpAllToAllLatency(c, batch_tokens, d_model, activation_bytes) ==
  LET msg_bytes == DispatchBytes(c, batch_tokens, d_model, activation_bytes)
  IN  IF c.ep <= 1 \/ c.scale_up_bw = 0 THEN Zero
      ELSE IF SpansScaleOut(c, c.ep) THEN SpreadLatency(c, msg_bytes)
      ELSE Hop(msg_bytes * (c.ep - 1), c.ep * c.scale_up_bw, c.scale_up_latency)
=============================================================================
