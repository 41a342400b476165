------------------------------- MODULE MCPriced -----------------------------
(***************************************************************************)
(* Set-ups of the check: two machines and four models, each placement of   *)
(* their groups on nodes of several sizes, with and without speculation.   *)
(***************************************************************************)
EXTENDS PricedProperties, MCTable

Wide ==
  [flops_bf16 |-> 10, flops_fp8 |-> 20, flops_fp4 |-> 0,
   supports_2to4_sparsity |-> FALSE,
   memory_bandwidth |-> 200, memory_capacity |-> 2000, on_chip_sram |-> 40,
   scale_up_bandwidth |-> 100, scale_up_latency |-> 1,
   mfu_prefill |-> Frac(1, 2), mfu_decode |-> Frac(1, 2)]

\* Without on-chip memory or latency, with sparsity and FP4.
Narrow ==
  [Wide EXCEPT !.flops_fp4 = 40, !.supports_2to4_sparsity = TRUE,
               !.on_chip_sram = 0, !.scale_up_latency = 0]

Dense ==
  [n_layers |-> 2, d_model |-> 8, n_kv_heads |-> 1, head_dim |-> 2, ffn_hidden |-> 8,
   weight_bits |-> 16, activation_bits |-> 0, kv_bits |-> 8, weight_sparsity |-> Whole(1),
   weight_bytes |-> 800, active_weight_bytes |-> 0,
   n_experts |-> 0, n_active_experts |-> 0, n_shared_experts |-> 0, n_moe_layers |-> 0,
   expert_hidden |-> 0, kv_lora_rank |-> 0]

\* Sizes known, as presets have them.
Mixture ==
  [Dense EXCEPT !.weight_bytes = 1400, !.active_weight_bytes = 900,
                !.n_experts = 4, !.n_active_experts = 2, !.n_shared_experts = 1,
                !.n_moe_layers = 1, !.expert_hidden = 4]

\* Sizes estimated, and 8 bits.
Estimated ==
  [Mixture EXCEPT !.active_weight_bytes = 0, !.n_shared_experts = 0, !.weight_bits = 8]

\* Compressed KV, and 4-bit weights pruned for sparsity with wider activations.
Compressed ==
  [Mixture EXCEPT !.weight_bits = 4, !.activation_bits = 16, !.kv_bits = 0,
                  !.weight_sparsity = Whole(2), !.kv_lora_rank = 6]

Plain ==
  [gpu |-> Wide, model |-> Dense, target |-> "none",
   tp |-> 1, pp |-> 1, ep |-> 1, gpus_per_node |-> 8,
   scale_out_fabric |-> "none", scale_out_bw |-> 0, scale_out_latency |-> 5,
   internode_bw |-> 20, disaggregate |-> FALSE, kv_blocks |-> 0, kv_block_size |-> 2,
   spec_tokens |-> 0, spec_acceptance_rate |-> Frac(7, 10), draft_model |-> None,
   mtp_heads |-> 0, mtp_acceptance_rate |-> Frac(9, 10)]

Degrees == {<<1, 1, 1>>, <<2, 1, 2>>, <<6, 1, 1>>, <<1, 4, 1>>, <<2, 3, 4>>, <<4, 5, 8>>}

\* Each placement.
PlacedLines ==
  {[Plain EXCEPT !.model = model, !.gpu = gpu, !.tp = degrees[1], !.pp = degrees[2],
                 !.ep = degrees[3], !.gpus_per_node = gpus_per_node,
                 !.scale_out_fabric = "spectrum-x400"] :
     model \in {Dense, Mixture}, gpu \in {Wide, Narrow}, degrees \in Degrees,
     gpus_per_node \in {1, 2, 4}}

\* A network as good as the fabric.
EvenLines ==
  {[Plain EXCEPT !.model = Mixture, !.tp = degrees[1], !.pp = degrees[2], !.ep = degrees[3],
                 !.gpus_per_node = gpus_per_node,
                 !.scale_out_bw = 100, !.scale_out_latency = 1] :
     degrees \in Degrees, gpus_per_node \in {1, 2, 4}}

\* Each model on each machine, with pools of their own for prefill and decode.
ModelLines ==
  {[Plain EXCEPT !.model = model, !.gpu = gpu, !.tp = tp, !.ep = 2, !.disaggregate = TRUE] :
     model \in {Dense, Mixture, Estimated, Compressed}, gpu \in {Wide, Narrow}, tp \in {1, 2}}

SpeculativeLines ==
  UNION {{[Plain EXCEPT !.spec_tokens = k, !.spec_acceptance_rate = rate,
                        !.draft_model = draft],
          [Plain EXCEPT !.mtp_heads = k, !.mtp_acceptance_rate = rate]} :
           k \in 1 .. 3, rate \in {Zero, Frac(7, 10), Whole(1)}, draft \in {None, Dense}}

\* With a table.
MeasuredLine == [Plain EXCEPT !.target = "a", !.tp = 2, !.mtp_heads = 1]

MCCommandLines ==
  PlacedLines \cup EvenLines \cup ModelLines \cup SpeculativeLines \cup {MeasuredLine}
=============================================================================
