--------------------------- MODULE PricedProperties -------------------------
(***************************************************************************)
(* What the prices of decode steps owe to the machine and the model.       *)
(***************************************************************************)
EXTENDS PricedDecode

IsSetUp == setup # None

\* A step of the batch as it is, on another set-up, without a table.
Price(s) == PriceOf(s, None, BatchSize, AvgKvLen)

\* A prefill of as many tokens, likewise.
PrefillPrice(s) == PrefillLatency(s.gpu, 1, Greatest(TotalKvLen(kv_lens), 1), s.model, None, s.cluster)

-----------------------------------------------------------------------------
(* The batch *)

\* The rows read do not say that a longer context is faster.
MonotoneRows ==
  \A i, j \in DOMAIN read :
    /\ read[i] # Malformed /\ read[j] # Malformed
    /\ <<read[i].target, read[i].op, read[i].batch>>
         = <<read[j].target, read[j].op, read[j].batch>>
    /\ read[i].seq_len <= read[j].seq_len
    => read[i].latency <= read[j].latency

\* While a batch stays together its steps never get cheaper as contexts grow: not
\* where the KV cache outgrows the on-chip memory, nor beyond or between the
\* measured lengths of a table that is monotone itself (avg_kv_len,
\* decode_latency and roofline_decode, lookup_nearest_batch).
LongerNeverCheaper ==
  [][DecodeStep /\ MonotoneRows =>
       \A after \in {StepPrices(lens) : lens \in {kv_lens'}} :
         /\ \A p \in StepPrices(kv_lens) : \E q \in after : AtMost(p, q)
         /\ \A q \in after : \E p \in StepPrices(kv_lens) : AtMost(p, q)]_<<vars, priced>>

\* The models that run in a step.
ModelsOf(s) == {s.model} \cup IF s.spec # None THEN {s.spec.draft_model} ELSE {}

\* The weights of a chip outweigh the KV that fits on the chips of its pipeline,
\* as roofline_decode has it of every SRAM.
WeightsOutweighSram(s, m) ==
  WeightBytesPerChip(s.gpu, m, Greatest(s.cluster.tp, 1), s.cluster.ep)
    >= 2 * Greatest(s.cluster.pp, 1) * (s.gpu.on_chip_sram + 1)

\* A token goes to at most one expert of a GPU, or to as many on each: otherwise
\* the whole messages of ep_all_to_all_latency count those of a batch that are
\* left over, and drop that of a token.
EvenDispatch(s, m) ==
  LET top_k == Greatest(m.n_active_experts + m.n_shared_experts, 1)
  IN  top_k <= s.cluster.ep \/ top_k % Greatest(s.cluster.ep, 1) = 0

\* A batch never takes longer for a step than its requests one after the other
\* would, though its KV cache may be too large for the on-chip memory that each of
\* theirs fits (roofline_decode; the collectives of one message or of several).
BatchingPays ==
  IsSetUp /\ kv_lens # <<>>
          /\ (\A m \in ModelsOf(setup) : WeightsOutweighSram(setup, m) /\ EvenDispatch(setup, m)) =>
    AtMost(Price(setup),
           SumOf([i \in DOMAIN kv_lens |-> PriceOf(setup, None, 1, kv_lens[i])]))

-----------------------------------------------------------------------------
(* The cluster *)

\* GPUs fill the nodes one after the other.
SameNode(c, i, j) == i \div NodeSize(c) = j \div NodeSize(c)
LinkBw(c, i, j) == IF SameNode(c, i, j) THEN c.scale_up_bw ELSE c.scale_out_bw
LinkLatency(c, i, j) ==
  IF SameNode(c, i, j) THEN c.scale_up_latency ELSE c.scale_out_latency

\* What collectives cost is what the links between their GPUs cost, when these
\* are placed on the nodes one by one: a pipeline hands over at each boundary; the
\* first GPU of an expert group sends every other one its part; an all-reduce runs
\* one ring over the nodes in use and two over the GPUs of the first
\* (pp_transfer_latency, ep_all_to_all_latency, all_reduce_latency).  So where GPUs
\* and nodes are linked at all.
LinksMatchPlacement ==
  IsSetUp /\ setup.cluster.scale_up_bw > 0 /\ setup.cluster.scale_out_bw > 0 =>
    LET c == setup.cluster
        d_model == setup.model.d_model
        bytes == BatchSize * d_model
        message == DispatchBytes(c, BatchSize, d_model, 1)
        nodes == {i \div NodeSize(c) : i \in 0 .. c.tp - 1}
        first == {i \in 0 .. c.tp - 1 : SameNode(c, 0, i)}
    IN  /\ c.pp > 1 =>
             Times(Whole(c.pp - 1), PpTransferLatency(c, bytes, TRUE))
               = SumOf([i \in 1 .. c.pp - 1 |->
                          Hop(bytes, LinkBw(c, i - 1, i), LinkLatency(c, i - 1, i))])
        /\ c.ep > 1 =>
             EpAllToAllLatency(c, BatchSize, d_model, 1)
               = Plus(Whole(c.scale_up_latency
                              + IF SameNode(c, 0, c.ep - 1) THEN 0 ELSE c.scale_out_latency),
                      SumOf([j \in 1 .. c.ep - 1 |-> Frac(message, c.ep * LinkBw(c, 0, j))]))
        /\ c.tp > 1 /\ Cardinality(nodes) > 1 =>
             AllReduceLatency(c, bytes)
               = Plus(Times(Whole(2), RingLatency(Cardinality(first), bytes, c.scale_up_bw,
                                                  c.scale_up_latency)),
                      RingLatency(Cardinality(nodes), bytes, c.scale_out_bw,
                                  c.scale_out_latency))

\* The network between nodes is no faster than the fabric within them.  Beyond two
\* nodes the hierarchical all-reduce saves hops, and that can outweigh the network.
SlowerOutside(c) ==
  /\ c.scale_out_bw <= c.scale_up_bw /\ c.scale_out_latency >= c.scale_up_latency
  /\ c.scale_up_latency = 0 \/ c.tp <= 2 * NodeSize(c)

\* Spreading a group over nodes never makes a step or a prefill cheaper than the
\* one large node that the model assumes without a scale-out network, whichever
\* of its groups span nodes (spans_scale_out and its callers).
CrossNodeNeverHelps ==
  IsSetUp /\ SlowerOutside(setup.cluster) =>
    LET one_node == [setup EXCEPT !.cluster.scale_out_bw = 0]
    IN  /\ AtMost(Price(one_node), Price(setup))
        /\ AtMost(PrefillPrice(one_node), PrefillPrice(setup))

-----------------------------------------------------------------------------
(* The model *)

\* Experts over as many GPUs as the other weights are over: the compute and the
\* traffic of a GPU are what they are without expert parallelism, but for a byte
\* of rounding (roofline_prefill, roofline_decode; docs/latency-model.md).
ExpertsShardLikeWeights ==
  IsSetUp /\ ExpertWeightBytesActive(setup.model) <= WeightBytesActive(setup.model) =>
    LET gpu == setup.gpu
        m == setup.model
        tp == Greatest(setup.cluster.tp, 1)
        pp == Greatest(setup.cluster.pp, 1)
        byte == Over(Whole(1), Times(Whole(gpu.memory_bandwidth), gpu.mfu_decode))
        Decode(ep) == RooflineDecode(gpu, BatchSize, AvgKvLen, m, tp, pp, ep)
        Prefill(ep) == RooflinePrefill(gpu, BatchSize, AvgKvLen, m, tp, ep)
    IN  /\ Prefill(tp) = Prefill(1)
        /\ AtMost(Decode(tp), Decode(1)) /\ AtMost(Decode(1), Plus(Decode(tp), byte))

\* The model in fewer bits, as a preset of it would be made.
Requantized(m, bits) ==
  WithQuantization(m, bits, Least(EffectiveActivationBits(m), bits),
                   Least(EffectiveKvBits(m), bits), m.weight_sparsity)

\* A narrower format the GPU has is no slower.
FasterWhenNarrower(gpu) ==
  /\ gpu.flops_fp8 > 0 => gpu.flops_fp8 >= gpu.flops_bf16
  /\ gpu.flops_fp4 > 0 => gpu.flops_fp4 >= Greatest(gpu.flops_fp8, gpu.flops_bf16)

\* A size that is known does not round to 0, which would have it estimated.
StaysKnown(m, bits) ==
  m.active_weight_bytes > 0 => Requantized(m, bits).active_weight_bytes > 0

\* The weights leave some of the memory: where they do not, auto_kv_blocks takes a
\* fifth of it to be free, which may be more than fewer bits leave.
WeightsFit(s) ==
  s.model.weight_bytes \div Greatest(s.cluster.tp * s.cluster.pp, 1) < s.gpu.memory_capacity

\* A model in fewer bits never takes longer for a prefill, a step or the transfer
\* of a KV cache, nor leaves room for fewer blocks: on GPUs with and without the
\* narrow formats, with weights of known and of estimated size, and with messages
\* of whole bytes (with_quantization, peak_flops_for, active_param_fraction,
\* kv_bytes, kv_transfer_latency).
FewerBitsNeverSlower ==
  IsSetUp /\ FasterWhenNarrower(setup.gpu) =>
    \A bits \in {b \in {4, 8, 16} : b < setup.model.weight_bits
                                  /\ StaysKnown(setup.model, b)} :
      LET narrow == [setup EXCEPT !.model = Requantized(@, bits)]
          Blocks(s) == AutoKvBlocks(s.gpu, s.model, s.block_size, s.cluster.tp, s.cluster.pp)
          Transfer(s) == KvTransferLatency(s.cluster, KvBytes(s.model, AvgKvLen))
      IN  /\ AtMost(Price(narrow), Price(setup))
          /\ AtMost(PrefillPrice(narrow), PrefillPrice(setup))
          /\ AtMost(Transfer(narrow), Transfer(setup))
          /\ WeightsFit(setup) => Blocks(narrow) >= Blocks(setup)

-----------------------------------------------------------------------------
(* What the simulator relies on *)

\* The tokens of a speculative step are the expected length of the accepted run,
\* one of the main model's included; rounded, they are at least one and at most
\* all that were drafted and that one: what module Simulator takes as Advance
\* (SpecConfig, MtpConfig, handle_batch_decode_step).  That a rate of 1 advances by
\* all of them takes few enough for the rate that is cut off.
AdvanceIsExpected ==
  IsSetUp =>
    LET s == IF setup.spec # None THEN setup.spec ELSE setup.mtp
        g == Clamped(s.acceptance_rate)
    IN  IF s = None THEN Advance = 1
        ELSE /\ TokensPerStep(s.k, s.acceptance_rate)
                  = SumOf([i \in 1 .. s.k + 1 |-> Power(g, i - 1)])
             /\ Advance \in 1 .. s.k + 1
             /\ s.acceptance_rate = Zero => Advance = 1
             /\ s.acceptance_rate = Whole(1) /\ s.k * (s.k + 1) <= ClampDen
                => Advance = s.k + 1

\* The pool of blocks that the scheduler hands out and the weights fit together in
\* the memory of the GPUs that hold them, if it is the pool made for them and not
\* the least one, a token takes whole bytes and the weights leave some memory; of
\* that a fifth is kept, for the bytes that were rounded off (auto_kv_blocks,
\* kv_bytes).
PoolFitsMemory ==
  IsSetUp =>
    LET c == setup.cluster
        m == setup.model
        gpus == Greatest(c.tp * c.pp, 1)
        memory == gpus * setup.gpu.memory_capacity
        pool == AutoKvBlocks(setup.gpu, m, setup.block_size, c.tp, c.pp)
    IN  /\ setup.kv_blocks = pool /\ pool > 64
        /\ (KvEntries(m) * EffectiveKvBits(m)) % 8 = 0
        /\ m.weight_bytes + 5 * gpus <= memory
        => m.weight_bytes + KvBytes(m, setup.kv_blocks * setup.block_size) <= memory
=============================================================================
