------------------------ MODULE SimulatorProperties ------------------------
(***************************************************************************)
(* What a correct run of the simulator keeps.                              *)
(***************************************************************************)
EXTENDS Simulator, SequencesExt

\* The pending events of a kind, by their position in the queue.
Pending(kind) == {i \in DOMAIN queue : queue[i].kind = kind}
PendingFor(kinds, r) ==
  {i \in DOMAIN queue : queue[i].kind \in kinds /\ queue[i].req = r}

InLine == {waiting[i] : i \in DOMAIN waiting}

\* Every part of the state has its type, and the queue is in pop order.
TypeOK ==
  /\ config \in Configs /\ workload \in Workloads
  /\ queue \in Seq([time : Nat, req : RequestId \cup {NoRequest}, chunk : Nat,
                    kind : {"RequestArrival", "PrefillStart", "PrefillDone",
                            "KvTransfer", "BatchDecodeStep", "SchedulerTick"}])
  /\ Ordered(queue)
  /\ left \in Nat \cup {Forever} /\ ended \in BOOLEAN
  /\ busy \in [{"prefill", "decode"} -> Nat]
  /\ waiting \in Seq(RequestId)
  /\ prefilling \subseteq RequestId
  /\ DOMAIN prefill_progress \subseteq RequestId
  /\ \A r \in DOMAIN prefill_progress : prefill_progress[r] \in Nat
  /\ transferring \subseteq RequestId
  /\ DOMAIN decoding \subseteq RequestId
  /\ \A r \in DOMAIN decoding : decoding[r] \in Nat
  /\ decode_scheduled \in BOOLEAN
  /\ kv.free_blocks \in Nat /\ DOMAIN kv.allocated \subseteq RequestId
  /\ \A r \in DOMAIN kv.allocated : kv.allocated[r] \in Nat
  /\ done \subseteq RequestId

-----------------------------------------------------------------------------
(* Safety *)

\* Where a request can be.
Arriving == {queue[i].req : i \in Pending("RequestArrival")}
Places == <<Arriving, InLine, prefilling, transferring, DOMAIN decoding, done>>

\* No handler loses, duplicates or resurrects a request: each is in exactly one
\* place, once in the queue or in line.  Only the event dropped at the horizon
\* can be lost, and it may be an arrival.
OnePlace ==
  /\ \A i, j \in Pending("RequestArrival") : queue[i].req = queue[j].req => i = j
  /\ \A i, j \in DOMAIN waiting : waiting[i] = waiting[j] => i = j
  /\ \A i, j \in DOMAIN Places : i # j => Places[i] \cap Places[j] = {}
  /\ ~ ended => RequestId \subseteq UNION {Places[i] : i \in DOMAIN Places}
  /\ DOMAIN prefill_progress = prefilling

\* Memory follows the phases: the requests in flight, and no others, hold
\* blocks, each for its whole prompt and output, and what they hold and what is
\* free is the whole pool, through preemptions and refused admissions.
BlocksMatchPhases ==
  /\ DOMAIN kv.allocated = Running
  /\ \A r \in Running : kv.allocated[r] = BlocksFor(Tokens(workload, r))
  /\ kv.free_blocks + Total(Running, kv.allocated) = TotalBlocks

\* No handler runs on a stale event: a request in prefill has exactly one
\* prefill event pending, one in transfer exactly its transfer, and a request
\* that was preempted or finished has none left over.
OneEventPerRequest ==
  ~ ended =>
    \A r \in RequestId :
      /\ Cardinality(PendingFor({"PrefillStart", "PrefillDone"}, r))
           = IF r \in prefilling THEN 1 ELSE 0
      /\ Cardinality(PendingFor({"KvTransfer"}, r))
           = IF r \in transferring THEN 1 ELSE 0

\* The decode batch neither stops nor runs twice: decode_scheduled says whether
\* a step is pending, there is never more than one, and one is pending while
\* any request decodes, also when preemption emptied the batch in between.
OneDecodeStep ==
  ~ ended =>
    /\ Cardinality(Pending("BatchDecodeStep")) = IF decode_scheduled THEN 1 ELSE 0
    /\ DOMAIN decoding # {} => decode_scheduled

\* --max-batch-tokens: under the continuous scheduler the tokens of all requests
\* in flight stay within it, whenever each of them was admitted.
BatchWithinBudget ==
  config.scheduler = "continuous" =>
    Total(Running, [r \in Running |-> Tokens(workload, r)]) <= MaxBatchTokens

\* The KV lengths of a decode batch, which the step that prices it adds up in 32
\* bits, never come to more than the pool has room for, whoever joined, finished
\* or was preempted when: for no pool of fewer than 2^32 tokens does the sum wrap
\* (handle_batch_decode_step, sim.rs:443-451).
KvLengthsFit ==
  Total(DOMAIN decoding,
        [r \in DOMAIN decoding |-> workload[r].prompt + decoding[r]])
    <= TotalBlocks * BlockSize

\* Whether a scheduler can admit r to an idle machine.
Feasible(r) ==
  /\ BlocksFor(Tokens(workload, r)) <= TotalBlocks
  /\ IF config.scheduler = "continuous" THEN Tokens(workload, r) <= MaxBatchTokens
                                 ELSE MaxBatchTokens > 0

\* The simulation runs dry only when all that could be served has been: no
\* completion, preemption or refusal forgets the tick that admits those left.
\* The chunked scheduler promises it only to workloads it can serve whole.
NobodyStranded ==
  (/\ queue = <<>> /\ ~ ended
   /\ config.scheduler = "chunked" => \A r \in RequestId : Feasible(r))
    => \A r \in RequestId : Feasible(r) => r \in done

\* The same promise made to every request a scheduler could admit, also when
\* others in line can never be served.
FeasibleNotStranded ==
  (queue = <<>> /\ ~ ended) => \A r \in RequestId : Feasible(r) => r \in done

-----------------------------------------------------------------------------
(* Steps *)

\* A continuous tick that preempts nobody leaves nobody in line for whom there
\* is room in both budgets, in whatever order the line is.
TickLeavesNoRoom ==
  [][TickAdmits /\ config.scheduler = "continuous" =>
       LET used == Total(Running', [r \in Running' |-> Tokens(workload, r)])
       IN  \A i \in DOMAIN waiting' :
             \/ used + Tokens(workload, waiting'[i]) > MaxBatchTokens
             \/ BlocksFor(Tokens(workload, waiting'[i])) > kv'.free_blocks]_vars

-----------------------------------------------------------------------------
(* Liveness *)

\* The clock never stands still: the events of one instant run out, whatever
\* ticks, chunks and preemptions they push at that instant.
ClockAdvances == []<>(ended \/ queue = <<>> \/ Event0.time > 0)

\* A run with a finite horizon returns, whatever keeps pushing events.
RunReturns == left # Forever => <>(ended \/ queue = <<>>)

\* Every request that a scheduler can admit is served in the end, as long as
\* the run goes on.
EverybodyServed ==
  left = Forever => \A r \in RequestId : Feasible(r) => <>(r \in done)

\* Whether the pool can never be exhausted: with every request in flight, a
\* block is still free.
NoPressure ==
  Total(RequestId, [r \in RequestId |-> BlocksFor(Tokens(workload, r))])
    < TotalBlocks

\* ... at least when nothing is preempted.
ServedWithoutPressure ==
  (left = Forever /\ NoPressure) =>
    \A r \in RequestId : Feasible(r) => <>(r \in done)

-----------------------------------------------------------------------------
(* Refinement *)

\* Where a request is, as one phase.
PhaseOf(r) == CASE r \in InLine          -> "waiting"
                [] r \in prefilling      -> "prefilling"
                [] r \in transferring    -> "transferring"
                [] r \in DOMAIN decoding -> "decoding"
                [] r \in done            -> "done"
                [] OTHER                 -> "unarrived"

Lifecycle == INSTANCE RequestLifecycle
  WITH phase <- [r \in RequestId |-> PhaseOf(r)],
       need  <- [r \in RequestId |-> BlocksFor(Tokens(workload, r))],
       disaggregate <- config.disaggregate

\* Every turn of the loop is one step of the requests' life cycle or none: it
\* moves requests along together, overcommits no memory and evicts only when
\* memory is exhausted and another request waits.
ImplementsLifecycle == Lifecycle!Spec
=============================================================================
