----------------------------- MODULE PricedDecode ---------------------------
(***************************************************************************)
(* A decode batch that requests join and leave, and what each of its steps *)
(* takes: the part of the simulator that asks for latencies (engine/sim.rs,*)
(* move_to_decoding and handle_batch_decode_step), with the table that the *)
(* run loads, the set-up that run_once makes and the latency model.  Which *)
(* requests join when is the business of module Simulator; here they come  *)
(* and go as they like, up to the bounds.                                  *)
(***************************************************************************)
EXTENDS KernelTable, RunSetup

CONSTANTS
  CommandLines,  \* arguments of the runs considered
  Prompts,       \* KV lengths with which a request joins
  PricedRows,    \* bound of a check: rows of a table that is priced with,
  MaxBatch,      \* ... requests in the batch,
  MaxKvLen       \* ... KV length of a request that takes another step

ASSUME PricingAssumption ==
  /\ Prompts \subseteq Nat \ {0}
  /\ {PricedRows, MaxBatch, MaxKvLen} \subseteq Nat

\* A command line names presets and has unsigned numbers.
ASSUME ArgumentsAssumption ==
  \A args \in CommandLines :
    /\ args.gpu \in GpuSpecs /\ args.model \in LlmConfigs
    /\ args.draft_model \in {None} \cup LlmConfigs
    /\ {args.tp, args.pp, args.ep, args.gpus_per_node, args.scale_out_bw,
        args.scale_out_latency, args.internode_bw, args.kv_blocks,
        args.kv_block_size, args.spec_tokens, args.mtp_heads} \subseteq Nat
    /\ args.disaggregate \in BOOLEAN
    /\ args.scale_out_fabric \in {"none"} \cup DOMAIN FabricPreset
    /\ {args.spec_acceptance_rate, args.mtp_acceptance_rate} \subseteq LowestTerms

VARIABLES
  setup,   \* the simulator as set up, None before
  kv_lens  \* prompt_tokens + step of each request in the batch

priced == <<setup, kv_lens>>

-----------------------------------------------------------------------------
(* The price of a step *)

BatchSize == Len(kv_lens)

TotalKvLen(lens) == Total(DOMAIN lens, lens)

AvgKvLen == TotalKvLen(kv_lens) \div Greatest(BatchSize, 1)

PriceOf(s, measured, batch, avg_kv_len) ==
  StepLatency(s.gpu, batch, avg_kv_len, s.model, measured, s.cluster, s.spec, s.mtp)

\* What a step of a batch with these KV lengths may take, whatever the table
\* answers.
StepPrices(lens) ==
  LET batch_size == Len(lens)
      avg_kv_len == TotalKvLen(lens) \div batch_size
  IN  {PriceOf(setup, measured, batch_size, avg_kv_len) :
         measured \in LookupNearestBatch(setup.target, "decode", batch_size, avg_kv_len)}

Advance == StepAdvance(setup.spec, setup.mtp)

-----------------------------------------------------------------------------
(* Steps *)

PricedInit == Init /\ setup = None /\ kv_lens = <<>>

LoadTable == Next /\ UNCHANGED priced

\* The two kinds of speculation exclude each other.  A target that is in no row is
\* of interest with the empty table only.
RunOnce ==
  /\ phase = "loaded" /\ setup = None /\ Len(read) <= PricedRows
  /\ \E args \in CommandLines :
       /\ args.spec_tokens = 0 \/ args.mtp_heads = 0
       /\ read = <<>> \/ args.target \in {r.target : r \in Rows \ {Malformed}}
       /\ setup' = SetUp(args)
  /\ UNCHANGED <<vars, kv_lens>>

Join ==
  /\ setup # None /\ BatchSize < MaxBatch
  /\ \E prompt \in Prompts : kv_lens' = Append(kv_lens, prompt)
  /\ UNCHANGED <<vars, setup>>

DecodeStep ==
  /\ setup # None /\ kv_lens # <<>>
  /\ \A i \in DOMAIN kv_lens : kv_lens[i] < MaxKvLen
  /\ kv_lens' = [i \in DOMAIN kv_lens |-> kv_lens[i] + Advance]
  /\ UNCHANGED <<vars, setup>>

\* A request is done, or preempted.
LeaveBatch ==
  /\ \E i \in DOMAIN kv_lens : kv_lens' = RemoveAt(kv_lens, i)
  /\ UNCHANGED <<vars, setup>>

PricedNext == LoadTable \/ RunOnce \/ Join \/ DecodeStep \/ LeaveBatch

PricedSpec == PricedInit /\ [][PricedNext]_<<vars, priced>>
=============================================================================
