----------------------------- MODULE Scheduling -----------------------------
(***************************************************************************)
(* What both schedulers share.  A workload w maps each request id to its   *)
(* prompt_tokens, max_output_tokens and arrival_time                       *)
(* (workload/request.rs, InferenceRequest); the block size they are handed *)
(* is the block manager's.                                                 *)
(***************************************************************************)
EXTENDS KvCacheManager, Sequences

CONSTANT MaxBatchTokens   \* max_batch_tokens

\* prompt_tokens + max_output_tokens: what schedulers and allocator charge.
Tokens(w, r) == w[r].prompt + w[r].output

\* Mutant of Victims: evicts the smallest.
Victims_Smallest(w, waiting, decoding, free_blocks) ==
  {v \in decoding : /\ free_blocks = 0 /\ waiting # <<>>
                    /\ \A u \in decoding : Tokens(w, v) <= Tokens(w, u)}

\* Both schedulers: with no block free and someone waiting, the largest
\* decoding requests; max_by_key over hash-map order may return any of them.
Victims(w, waiting, decoding, free_blocks) ==
  {v \in decoding : /\ free_blocks = 0 /\ waiting # <<>>
                    /\ \A u \in decoding : Tokens(w, u) <= Tokens(w, v)}
=============================================================================
