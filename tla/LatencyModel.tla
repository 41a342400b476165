----------------------------- MODULE LatencyModel ---------------------------
(***************************************************************************)
(* How long a prefill or a decode step takes: hardware/gpu.rs, and what    *)
(* speculation adds, engine/sim.rs.  A GPU is a record with the fields of  *)
(* GpuSpec; `measured` is the answer of the kernel table, None without     *)
(* one.  Floating-point numbers are exact fractions.                       *)
(***************************************************************************)
EXTENDS ModelConfig, Cluster

CONSTANT ClampDen  \* acceptance rates are cut off at 1 - 1/ClampDen

ASSUME ClampAssumption == ClampDen \in Nat \ {0}

-----------------------------------------------------------------------------
(* What a GPU makes of a model *)

\* The GPUs: each computes in 16 bits, and the fabric of one may be missing.
GpuSpecs ==
  [flops_bf16 : Nat \ {0}, flops_fp8 : Nat, flops_fp4 : Nat,
   supports_2to4_sparsity : BOOLEAN, memory_bandwidth : Nat \ {0},
   memory_capacity : Nat, on_chip_sram : Nat, scale_up_bandwidth : Nat,
   scale_up_latency : Nat, mfu_prefill : LowestTerms \ {Zero},
   mfu_decode : LowestTerms \ {Zero}]

EffectiveSparsity(gpu, m) ==
  IF gpu.supports_2to4_sparsity /\ AtMost(Whole(1), m.weight_sparsity)
  THEN m.weight_sparsity ELSE Whole(1)

\* The rate of the narrowest format that the weights fit and the GPU has.
PeakFlopsFor(gpu, m) ==
  IF m.weight_bits <= 4 /\ gpu.flops_fp4 > 0 THEN gpu.flops_fp4
  ELSE IF m.weight_bits <= 8 /\ gpu.flops_fp8 > 0 THEN gpu.flops_fp8
  ELSE gpu.flops_bf16

EffectiveWeightBytesActive(gpu, m) ==
  Floor(Over(Whole(WeightBytesActive(m)), EffectiveSparsity(gpu, m)))
EffectiveExpertWeightBytesActive(gpu, m) ==
  Floor(Over(Whole(ExpertWeightBytesActive(m)), EffectiveSparsity(gpu, m)))

\* The experts of a mixture are spread over GPUs of their own.
ShardsExperts(m, ep) == ep > 1 /\ IsMoe(m)

-----------------------------------------------------------------------------
(* The rooflines *)

ParamsOf(gpu, m, bytes) ==
  Over(Over(Whole(bytes), WeightBytesPerParam(m)), EffectiveSparsity(gpu, m))

\* Mutant of RooflinePrefill: experts are counted among the other weights as well.
RooflinePrefill_ExpertsTwice(gpu, batch, seq_len, m, tp, ep) ==
  LET expert == ParamsOf(gpu, m, ExpertWeightBytesActive(m))
      all == ParamsOf(gpu, m, WeightBytesActive(m))
      per_token == IF ShardsExperts(m, ep)
                   THEN Plus(Over(all, Whole(tp)), Over(expert, Whole(ep)))
                   ELSE Over(all, Whole(tp))
  IN  Over(Times(Whole(2 * batch * seq_len), per_token),
           Times(Whole(PeakFlopsFor(gpu, m)), gpu.mfu_prefill))

\* Bound by computing.
RooflinePrefill(gpu, batch, seq_len, m, tp, ep) ==
  LET expert == ParamsOf(gpu, m, ExpertWeightBytesActive(m))
      other == ParamsOf(gpu, m, SatSub(WeightBytesActive(m), ExpertWeightBytesActive(m)))
      all == ParamsOf(gpu, m, WeightBytesActive(m))
      per_token == IF ShardsExperts(m, ep)
                   THEN Plus(Over(other, Whole(tp)), Over(expert, Whole(ep)))
                   ELSE Over(all, Whole(tp))
  IN  Over(Times(Whole(2 * batch * seq_len), per_token),
           Times(Whole(PeakFlopsFor(gpu, m)), gpu.mfu_prefill))

WeightBytesPerChip(gpu, m, tp, ep) ==
  LET expert_bytes == EffectiveExpertWeightBytesActive(gpu, m)
      weight_bytes == EffectiveWeightBytesActive(gpu, m)
  IN  IF ShardsExperts(m, ep)
      THEN SatSub(weight_bytes, expert_bytes) \div tp + expert_bytes \div ep
      ELSE weight_bytes \div tp

\* Mutant of KvEffectiveBytes: the cheap memory is the one that is outgrown.
KvEffectiveBytes_Inverted(gpu, kv_bytes, tp, pp) ==
  IF gpu.on_chip_sram > 0 /\ kv_bytes \div (tp * pp) > gpu.on_chip_sram
  THEN (kv_bytes \div tp) \div 10
  ELSE kv_bytes \div tp

\* KV that fits on the chip counts a tenth.
KvEffectiveBytes(gpu, kv_bytes, tp, pp) ==
  IF gpu.on_chip_sram > 0 /\ kv_bytes \div (tp * pp) <= gpu.on_chip_sram
  THEN (kv_bytes \div tp) \div 10
  ELSE kv_bytes \div tp

\* Mutant of RooflineDecode: every request of the batch reads the weights for itself.
RooflineDecode_WeightsEach(gpu, batch, avg_kv_len, m, tp, pp, ep) ==
  Over(Whole(batch * (1 + WeightBytesPerChip(gpu, m, tp, ep))
               + KvEffectiveBytes(gpu, KvBytes(m, avg_kv_len) * batch, tp, pp)),
       Times(Whole(gpu.memory_bandwidth), gpu.mfu_decode))

\* Bound by memory: the weights once, and the KV of every request.
RooflineDecode(gpu, batch, avg_kv_len, m, tp, pp, ep) ==
  Over(Whole(WeightBytesPerChip(gpu, m, tp, ep)
               + KvEffectiveBytes(gpu, KvBytes(m, avg_kv_len) * batch, tp, pp)),
       Times(Whole(gpu.memory_bandwidth), gpu.mfu_decode))

-----------------------------------------------------------------------------
(* Latencies *)

\* Two collectives in each layer, and two exchanges in each layer with experts.
\* tokens is what a collective carries, in tokens.
CollectiveCost(tokens, m, c) ==
  LET activation_bytes == ActivationBytes(m)
      top_k == Greatest(m.n_active_experts + m.n_shared_experts, 1)
      ar_cost == Times(Whole(m.n_layers * 2),
                       AllReduceLatency(c, tokens * m.d_model * activation_bytes))
      ep_cost == Times(Whole(m.n_moe_layers * 2),
                       EpAllToAllLatency(c, tokens * top_k, m.d_model, activation_bytes))
  IN  IF IsMoe(m) /\ m.n_moe_layers > 0 THEN Plus(ar_cost, ep_cost) ELSE ar_cost

\* The stages of a pipeline share the work evenly, and hand over between them.
Pipelined(tp_group_lat, tokens, m, c) ==
  LET pp == Greatest(c.pp, 1)
      act_bytes == tokens * m.d_model * ActivationBytes(m)
  IN  Plus(Over(Plus(tp_group_lat, CollectiveCost(tokens, m, c)), Whole(pp)),
           Times(Whole(pp - 1), PpTransferLatency(c, act_bytes, TRUE)))

\* What was measured was measured on one GPU.
PrefillLatency(gpu, batch, seq_len, m, measured, c) ==
  LET tp == Greatest(c.tp, 1)
      tp_group_lat == IF measured # None THEN Frac(measured.num, measured.den * tp)
                      ELSE RooflinePrefill(gpu, batch, seq_len, m, tp, c.ep)
  IN  Pipelined(tp_group_lat, batch * seq_len, m, c)

DecodeLatency(gpu, batch, avg_kv_len, m, measured, c) ==
  LET tp == Greatest(c.tp, 1)
      pp == Greatest(c.pp, 1)
      tp_group_lat == IF measured # None THEN Frac(measured.num, measured.den * tp)
                      ELSE RooflineDecode(gpu, batch, avg_kv_len, m, tp, pp, c.ep)
  IN  Pipelined(tp_group_lat, batch, m, c)

-----------------------------------------------------------------------------
(* Speculation: SpecConfig, MtpConfig *)

\* Acceptance rates are fractions, of at least 0.
Clamped(rate) ==
  LET top == Frac(ClampDen - 1, ClampDen) IN IF AtMost(rate, top) THEN rate ELSE top

\* Mutant of TokensPerStep: leaves out the token that the main model adds itself.
TokensPerStep_DraftsOnly(k, acceptance_rate) ==
  LET g == Clamped(acceptance_rate)
  IN  Over(Minus(Whole(1), Power(g, k)), Minus(Whole(1), g))

\* The closed form of a geometric sum.
TokensPerStep(k, acceptance_rate) ==
  LET g == Clamped(acceptance_rate)
  IN  Over(Minus(Whole(1), Power(g, k + 1)), Minus(Whole(1), g))

\* spec and mtp: None, or [k, acceptance_rate], spec with its draft_model.
StepAdvance(spec, mtp) ==
  LET tokens_per_step ==
        IF spec # None THEN TokensPerStep(spec.k, spec.acceptance_rate)
        ELSE IF mtp # None THEN TokensPerStep(mtp.k, mtp.acceptance_rate)
        ELSE Whole(1)
  IN  Greatest(Round(tokens_per_step), 1)

\* A draft model runs once for each token it drafts, and never from the table;
\* heads cost as much as layers.
StepLatency(gpu, batch, avg_kv_len, m, measured, c, spec, mtp) ==
  LET base_lat == DecodeLatency(gpu, batch, avg_kv_len, m, measured, c)
      draft_lat == DecodeLatency(gpu, batch, avg_kv_len, spec.draft_model, None, c)
      overhead == Frac(mtp.k, Greatest(m.n_layers, 1))
  IN  IF spec # None THEN Plus(Times(Whole(spec.k), draft_lat), base_lat)
      ELSE IF mtp # None THEN Times(base_lat, Plus(Whole(1), overhead))
      ELSE base_lat
=============================================================================
