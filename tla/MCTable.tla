------------------------------- MODULE MCTable ------------------------------
(***************************************************************************)
(* The kernel files of the check: up to four rows of two batch sizes and   *)
(* two targets, measured twice or not, in every order, among rows to skip  *)
(* or to reject; and what is asked of the table.                           *)
(***************************************************************************)
EXTENDS TableProperties

Row(target, op, batch, seq_len, latency) ==
  [target |-> target, op |-> op, batch |-> batch, seq_len |-> seq_len,
   latency |-> latency]

MCRows ==
  {Row("a", "prefill", 2, s, 8) : s \in {2, 4, 7}}
    \cup {Row("a", "prefill", 2, 4, 3), Row("a", "prefill", 2, 7, 3),
          Row("a", "prefill", 6, 4, 10),
          Row("a", "decode", 1, 2, 2), Row("a", "decode", 1, 6, 5),
          Row("a", "decode", 3, 3, 4), Row("b", "prefill", 4, 4, 20),
          Row("a", "warmup", 2, 4, 50), Malformed}

MCTargets == {"a", "b"}
MCBatches == {2, 3, 4, 7}
MCSeqLens == {0, 3, 4, 5, 7, 10}
=============================================================================
