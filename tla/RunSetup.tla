------------------------------- MODULE RunSetup -----------------------------
(***************************************************************************)
(* What run_once in main.rs makes of the arguments before it simulates:    *)
(* the cluster, the pool of KV blocks, the draft model.  Bandwidths are in *)
(* kilobytes per microsecond, which is what a GB/s is, and sizes in        *)
(* kilobytes.  The presets of GPU and model are fields of the arguments.   *)
(***************************************************************************)
EXTENDS LatencyModel

\* Bandwidth and latency of the named networks.
FabricPreset ==
  [fabric \in {"hdr-200", "ndr-400", "quantum-x800", "xdr-800", "spectrum-x400",
               "spectrum-x800"} |->
     CASE fabric = "hdr-200" -> [bw |-> 25, latency |-> 3]
       [] fabric = "ndr-400" -> [bw |-> 50, latency |-> 2]
       [] fabric \in {"quantum-x800", "xdr-800"} -> [bw |-> 100, latency |-> 2]
       [] fabric = "spectrum-x400" -> [bw |-> 50, latency |-> 5]
       [] fabric = "spectrum-x800" -> [bw |-> 100, latency |-> 5]]

DefaultLatency == 5

\* Given numbers go before those of the preset; but the default latency, given
\* explicitly, cannot be told from none.
ScaleOutConfig(args) ==
  LET preset == IF args.scale_out_fabric = "none"
                THEN [bw |-> 0, latency |-> args.scale_out_latency]
                ELSE FabricPreset[args.scale_out_fabric]
  IN  [bw |-> IF args.scale_out_bw > 0 THEN args.scale_out_bw ELSE preset.bw,
       latency |-> IF args.scale_out_latency # DefaultLatency
                   THEN args.scale_out_latency ELSE preset.latency]

ClusterOf(args) ==
  [tp |-> args.tp, pp |-> args.pp, ep |-> args.ep,
   scale_up_bw |-> args.gpu.scale_up_bandwidth,
   scale_up_latency |-> args.gpu.scale_up_latency,
   gpus_per_node |-> args.gpus_per_node,
   scale_out_bw |-> ScaleOutConfig(args).bw,
   scale_out_latency |-> ScaleOutConfig(args).latency,
   internode_bw |-> args.internode_bw,
   disaggregate |-> args.disaggregate]

\* Mutant of AutoKvBlocks: the weights are compared with the memory, not subtracted.
AutoKvBlocks_OneCopy(gpu, m, kv_block_size, tp, pp) ==
  LET n_gpus == Greatest(tp * pp, 1)
      available == IF m.weight_bytes \div n_gpus < gpu.memory_capacity
                   THEN Times(Whole(gpu.memory_capacity), Frac(4, 5))
                   ELSE Frac(gpu.memory_capacity, 5)
      bytes_per_block == Greatest(KvBytes(m, 1) * kv_block_size, 1)
  IN  Greatest(Floor(Over(Times(Whole(n_gpus), available), Whole(bytes_per_block))), 64)

\* Four fifths of what the weights leave of the memory; a fifth of it if they
\* leave nothing; and never fewer than 64 blocks.
AutoKvBlocks(gpu, m, kv_block_size, tp, pp) ==
  LET n_gpus == Greatest(tp * pp, 1)
      weight_per_gpu == m.weight_bytes \div n_gpus
      available_per_gpu == IF weight_per_gpu < gpu.memory_capacity
                           THEN Frac(4 * (gpu.memory_capacity - weight_per_gpu), 5)
                           ELSE Frac(gpu.memory_capacity, 5)
      bytes_per_block == Greatest(KvBytes(m, 1) * kv_block_size, 1)
  IN  Greatest(Floor(Over(Times(Whole(n_gpus), available_per_gpu), Whole(bytes_per_block))),
               64)

KvTotalBlocks(args) ==
  IF args.kv_blocks > 0 THEN args.kv_blocks
  ELSE AutoKvBlocks(args.gpu, args.model, args.kv_block_size, args.tp, args.pp)

\* A draft model that was not named: the model with a tenth of its weights, and
\* all of its experts.
SynthesisedDraft(m) ==
  [m EXCEPT !.weight_bytes = Greatest(@ \div 10, 1),
            !.active_weight_bytes = IF @ > 0 THEN Greatest(@ \div 10, 1) ELSE 0]

SpecOf(args) ==
  IF args.spec_tokens = 0 THEN None
  ELSE [k |-> args.spec_tokens, acceptance_rate |-> args.spec_acceptance_rate,
        draft_model |-> IF args.draft_model # None THEN args.draft_model
                        ELSE SynthesisedDraft(args.model)]

MtpOf(args) ==
  IF args.mtp_heads = 0 THEN None
  ELSE [k |-> args.mtp_heads, acceptance_rate |-> args.mtp_acceptance_rate]

\* The simulator as run_once sets it up, as far as latencies rest on it.
SetUp(args) ==
  [gpu |-> args.gpu, model |-> args.model, target |-> args.target,
   cluster |-> ClusterOf(args), kv_blocks |-> KvTotalBlocks(args),
   block_size |-> args.kv_block_size, spec |-> SpecOf(args), mtp |-> MtpOf(args)]
=============================================================================
