----------------------------- MODULE ModelConfig ----------------------------
(***************************************************************************)
(* The sizes of an LLM that its latencies, its memory and its messages     *)
(* follow from: model/llm_config.rs.  A model is a record with the fields  *)
(* of LlmConfig; conversions to u64 round down where the code converts.    *)
(***************************************************************************)
EXTENDS Fractions, Tally

\* The models: of weights in one of three widths, with experts in some layers.
LlmConfigs ==
  {m \in [n_layers : Nat \ {0}, d_model : Nat, n_kv_heads : Nat, head_dim : Nat,
          ffn_hidden : Nat, weight_bits : {4, 8, 16}, activation_bits : Nat,
          kv_bits : Nat, weight_sparsity : LowestTerms, weight_bytes : Nat,
          active_weight_bytes : Nat, n_experts : Nat, n_active_experts : Nat,
          n_shared_experts : Nat, n_moe_layers : Nat, expert_hidden : Nat,
          kv_lora_rank : Nat] :
     m.n_moe_layers <= m.n_layers}

EffectiveKvBits(m) == IF m.kv_bits > 0 THEN m.kv_bits ELSE m.weight_bits

EffectiveActivationBits(m) ==
  IF m.activation_bits > 0 THEN m.activation_bits ELSE m.weight_bits

WeightBytesPerParam(m) == Frac(m.weight_bits, 8)

\* A message has whole bytes, also with activations of 4 bits.
ActivationBytes(m) == Greatest(CeilDiv(EffectiveActivationBits(m), 8), 1)

\* Mutant of WithQuantization: forgets the size of the active weights.
WithQuantization_TotalOnly(m, weight_bits, activation_bits, kv_bits, weight_sparsity) ==
  [m EXCEPT
     !.weight_bits = weight_bits, !.activation_bits = activation_bits,
     !.kv_bits = kv_bits, !.weight_sparsity = weight_sparsity,
     !.weight_bytes = (@ * weight_bits) \div m.weight_bits]

\* A size of 0, which stands for one that is not known, stays 0.
WithQuantization(m, weight_bits, activation_bits, kv_bits, weight_sparsity) ==
  LET Scaled(bytes) == (bytes * weight_bits) \div m.weight_bits
  IN  [m EXCEPT
         !.weight_bits = weight_bits, !.activation_bits = activation_bits,
         !.kv_bits = kv_bits, !.weight_sparsity = weight_sparsity,
         !.weight_bytes = Scaled(@), !.active_weight_bytes = Scaled(@)]

IsMoe(m) == m.n_experts > 1

\* Two projections of d_model by hidden for each expert a token passes.
ExpertWeightBytesActive(m) ==
  LET hidden == IF m.expert_hidden > 0 THEN m.expert_hidden ELSE m.ffn_hidden
      experts == m.n_moe_layers * (m.n_active_experts + m.n_shared_experts)
  IN  IF ~IsMoe(m) \/ m.n_moe_layers = 0 THEN 0
      ELSE Floor(Times(Whole(experts * 2 * m.d_model * hidden), WeightBytesPerParam(m)))

\* Without exact sizes: a third attention, and the rest by the part of the layers
\* with experts and the part of the experts used.
ActiveParamFraction(m) ==
  LET expert_ratio == Frac(m.n_active_experts + m.n_shared_experts,
                           m.n_experts + m.n_shared_experts)
      moe_frac == Frac(m.n_moe_layers, m.n_layers)
      dense_frac == Minus(Whole(1), moe_frac)
  IN  IF ~IsMoe(m) THEN Whole(1)
      ELSE IF m.active_weight_bytes > 0 /\ m.weight_bytes > 0
           THEN Frac(m.active_weight_bytes, m.weight_bytes)
      ELSE Plus(Frac(1, 3),
                Times(Frac(2, 3), Plus(dense_frac, Times(moe_frac, expert_ratio))))

WeightBytesActive(m) ==
  IF m.active_weight_bytes > 0 THEN m.active_weight_bytes
  ELSE Floor(Times(Whole(m.weight_bytes), ActiveParamFraction(m)))

\* A compressed vector in each layer, or keys and values of each KV head.
KvEntries(m) ==
  IF m.kv_lora_rank > 0 THEN m.n_layers * m.kv_lora_rank
  ELSE 2 * m.n_layers * m.n_kv_heads * m.head_dim

KvBytes(m, seq_len) == (KvEntries(m) * seq_len * EffectiveKvBits(m)) \div 8
=============================================================================
