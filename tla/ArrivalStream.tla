---------------------------- MODULE ArrivalStream ---------------------------
(***************************************************************************)
(* What Simulator::new relies on when it drains a workload source          *)
(* (workload/traits.rs): arrivals numbered from 0, none before time 0 or   *)
(* before the one handed out last, each with a token to read and one to    *)
(* write.  The assumption of Simulator.tla on workloads is this promise,   *)
(* its requests numbered from 1.                                           *)
(***************************************************************************)
EXTENDS Naturals, Sequences

VARIABLES handed,  \* the arrivals handed out
          closed   \* next_arrival has returned None

\* What the newest arrival a owes to those handed out before.
Follows(before, a) ==
  /\ a.req_id = Len(before)
  /\ a.prompt_tokens >= 1 /\ a.max_output_tokens >= 1
  /\ a.arrival_time >= IF before = <<>> THEN 0
                       ELSE before[Len(before)].arrival_time

Init == handed = <<>> /\ closed = FALSE

HandOut ==
  /\ ~ closed
  /\ Len(handed') = Len(handed) + 1
  /\ SubSeq(handed', 1, Len(handed)) = handed
  /\ Follows(handed, handed'[Len(handed')])
  /\ UNCHANGED closed

Close == ~ closed /\ closed' = TRUE /\ UNCHANGED handed

Spec == Init /\ [][HandOut \/ Close]_<<handed, closed>>
=============================================================================
