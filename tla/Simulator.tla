------------------------------ MODULE Simulator -----------------------------
(***************************************************************************)
(* engine/sim.rs: the dispatch loop of the simulator and its handlers,     *)
(* with the event queue, a scheduler and the block manager they drive.     *)
(* One action is one turn of the loop: an event is popped, the clock moves *)
(* to its time, the handler runs to its end and its new events are pushed. *)
(*                                                                         *)
(* Times are counted from the clock, so that a simulation that repeats     *)
(* itself forever is a cycle of states: popping an event moves every time  *)
(* towards the clock by the popped event's time.  How long work takes is   *)
(* chosen from a set, which stands for every accelerator, model and        *)
(* kernel table.                                                           *)
(***************************************************************************)
EXTENDS Integers, Sequences, EventQueue, ContinuousBatch, ChunkedPrefill

CONSTANTS
  Workloads,         \* the workloads a check starts from
  Configs,           \* ... and the configurations: scheduler, disaggregate
  Horizons,          \* ... and the horizons of run, numbers or Forever
  Forever,           \* `--duration inf`
  Advance,           \* decode tokens per step, tokens_per_step rounded
  PrefillLatencies,  \* the durations of a prefill chunk,
  DecodeLatencies,   \* ... of a decode step
  TransferLatencies  \* ... and of moving a KV cache between GPUs

NumRequests == Cardinality(RequestId)

Config == [scheduler : {"continuous", "chunked"}, disaggregate : BOOLEAN]
Workload == [RequestId ->
  [prompt : Nat \ {0}, output : Nat \ {0}, arrival : Nat]]

\* Both workload sources number requests in arrival order, start no earlier
\* than 0 and give every request at least one token of each kind.
ASSUME SimulatorAssumption ==
  /\ RequestId = 1 .. NumRequests
  /\ Workloads \subseteq Workload
  /\ \A w \in Workloads, r, s \in RequestId :
       r <= s => w[r].arrival <= w[s].arrival
  /\ Configs \subseteq Config
  /\ MaxBatchTokens \in Nat /\ ChunkSize \in Nat /\ Advance \in Nat \ {0}
  /\ PrefillLatencies \cup DecodeLatencies \cup TransferLatencies \subseteq Nat
  /\ Forever \notin Nat /\ Horizons \subseteq Nat \cup {Forever}

VARIABLES
  config,           \* the scheduler, and whether decode has a GPU of its own
  workload,         \* what the requests ask for
  queue,            \* the pending events
  left,             \* the horizon minus the clock, or Forever
  ended,            \* the loop broke at the horizon
  busy,             \* busy_until - clock of each GPU, 0 when it is in the past
  waiting,          \* waiting: Vec<InferenceRequest>
  prefilling,       \* prefilling, its keys
  prefill_progress, \* prefill_progress
  transferring,     \* transferring, its keys
  decoding,         \* decoding: the step of each request in decode
  decode_scheduled, \* decode_scheduled
  kv,               \* the block manager
  done              \* the requests whose phase became Done

requests == <<waiting, prefilling, prefill_progress, transferring, decoding, done>>
vars == <<config, workload, queue, left, ended, busy, requests, decode_scheduled, kv>>

-----------------------------------------------------------------------------
(* Events *)

NoRequest == 0
Event(t, kind, r, chunk) == [time |-> t, kind |-> kind, req |-> r, chunk |-> chunk]

Arrival(t, r)             == Event(t, "RequestArrival", r, 0)
StartPrefill(t, r, chunk) == Event(t, "PrefillStart", r, chunk)
EndPrefill(t, r)          == Event(t, "PrefillDone", r, 0)
TransferKv(t, r)          == Event(t, "KvTransfer", r, 0)
StepDecode(t)             == Event(t, "BatchDecodeStep", NoRequest, 0)
Tick(t)                   == Event(t, "SchedulerTick", NoRequest, 0)

Event0 == Head(queue)

\* The popped event is later than the horizon.
PastHorizon == left # Forever /\ Event0.time > left

\* The loop pops an event of this kind that is not past the horizon.
Pops(kind) ==
  /\ ~ ended /\ queue # <<>>
  /\ Event0.kind = kind
  /\ ~ PastHorizon
  /\ left' = IF left = Forever THEN left ELSE left - Event0.time
  /\ UNCHANGED <<config, workload, ended>>

\* The queue and the GPUs as seen from the popped event's time.
Rest == AfterPop(queue)
BusyNow == [g \in DOMAIN busy |-> SatSub(busy[g], Event0.time)]

\* decode_gpu_id: the prefill GPU decodes too unless the run is disaggregated.
DecodeGpu == IF config.disaggregate THEN "decode" ELSE "prefill"

-----------------------------------------------------------------------------
(* Simulator::new: the arrivals are pushed in order, then one tick at 0. *)

Init ==
  /\ config \in Configs
  /\ workload \in Workloads
  /\ left \in Horizons
  /\ queue = Push([r \in RequestId |-> Arrival(workload[r].arrival, r)], Tick(0))
  /\ ended = FALSE
  /\ busy = [g \in {"prefill", "decode"} |-> 0]
  /\ waiting = <<>>
  /\ prefilling = {} /\ prefill_progress = Empty
  /\ transferring = {} /\ decoding = Empty
  /\ decode_scheduled = FALSE
  /\ kv = NewKvCache
  /\ done = {}

-----------------------------------------------------------------------------
(* handle_arrival *)

HandleArrival ==
  /\ Pops("RequestArrival")
  /\ waiting' = Append(waiting, Event0.req)
  /\ queue' = Push(Rest, Tick(0))
  /\ busy' = BusyNow
  /\ UNCHANGED <<prefilling, prefill_progress, transferring, decoding, done,
                 decode_scheduled, kv>>

-----------------------------------------------------------------------------
(* handle_scheduler_tick *)

Running == prefilling \cup transferring \cup DOMAIN decoding

\* The scheduler's decision: the admitted positions of waiting with the chunk
\* that admit_request will use, the whole prompt when none is given.
Admitted ==
  IF config.scheduler = "continuous"
  THEN [i \in ContinuousAdmit(workload, waiting, Running, kv.free_blocks)
          |-> workload[waiting[i]].prompt]
  ELSE ChunkedAdmit(workload, waiting, Running, kv.free_blocks)

\* waiting with r taken out.
Leave(line, r) ==
  LET k == CHOOSE i \in DOMAIN line : line[i] = r
  IN  [i \in 1 .. Len(line) - 1 |-> IF i < k THEN line[i] ELSE line[i + 1]]

\* Mutant of Accept: reserves blocks for the prompt only.
Accept_PromptBlocks(s, r, chunk) ==
  [s EXCEPT !.waiting    = Leave(@, r),
            !.kv         = Allocate(@, r, workload[r].prompt),
            !.prefilling = @ \cup {r},
            !.progress   = With(@, r, 0),
            !.queue      = Push(@, StartPrefill(0, r, chunk))]

\* admit_request, on the part s of the state that it changes, when the blocks
\* are there ...
Accept(s, r, chunk) ==
  [s EXCEPT !.waiting    = Leave(@, r),
            !.kv         = Allocate(@, r, Tokens(workload, r)),
            !.prefilling = @ \cup {r},
            !.progress   = With(@, r, 0),
            !.queue      = Push(@, StartPrefill(0, r, chunk))]

\* Mutants of Refuse: the request also keeps its old place; it is retried at once.
Refuse_KeepsPlace(s, r) == [s EXCEPT !.waiting = <<r>> \o @]
Refuse_Retries(s, r) ==
  [s EXCEPT !.waiting = <<r>> \o Leave(@, r), !.queue = Push(@, Tick(0))]

\* ... and when they are not: the request goes to the front of the line.
Refuse(s, r) == [s EXCEPT !.waiting = <<r>> \o Leave(@, r)]

\* All admissions are decided before the first is made, so that a request may
\* be refused the blocks it was admitted for.
AdmitRequest(s, r, chunk) ==
  IF CanFit(s.kv, Tokens(workload, r)) THEN Accept(s, r, chunk) ELSE Refuse(s, r)

\* The loop over the decision's admissions.
AdmitAll(admit) ==
  LET s[i \in 0 .. Len(waiting)] ==
        IF i = 0
        THEN [waiting |-> waiting, kv |-> kv, prefilling |-> prefilling,
              progress |-> prefill_progress, queue |-> Rest]
        ELSE IF i \in DOMAIN admit
             THEN AdmitRequest(s[i - 1], waiting[i], admit[i])
             ELSE s[i - 1]
  IN  s[Len(waiting)]

\* Mutant of CandidateVictims: any running request may be evicted.
CandidateVictims_Running ==
  Victims(workload, waiting, Running, kv.free_blocks)

CandidateVictims ==
  Victims(workload, waiting, DOMAIN decoding, kv.free_blocks)

\* A tick that preempts admits nothing and ticks again at once.
TickPreempts ==
  /\ Pops("SchedulerTick")
  /\ \E r \in CandidateVictims :
       /\ decoding' = Without(decoding, r)
       /\ kv' = Free(kv, {r})
       /\ waiting' = <<r>> \o waiting
  /\ queue' = Push(Rest, Tick(0))
  /\ busy' = BusyNow
  /\ UNCHANGED <<prefilling, prefill_progress, transferring, done, decode_scheduled>>

TickAdmits ==
  /\ Pops("SchedulerTick")
  /\ CandidateVictims = {}
  /\ \E admit \in {Admitted} : \E s \in {AdmitAll(admit)} :
       /\ waiting' = s.waiting
       /\ kv' = s.kv
       /\ prefilling' = s.prefilling
       /\ prefill_progress' = s.progress
       /\ queue' = s.queue
  /\ busy' = BusyNow
  /\ UNCHANGED <<transferring, decoding, done, decode_scheduled>>

-----------------------------------------------------------------------------
(* handle_prefill_start and handle_prefill_done *)

\* A missing entry of prefill_progress counts as 0.
Progress(r) ==
  IF r \in DOMAIN prefill_progress THEN prefill_progress[r] ELSE 0

\* When a prefill chunk that takes latency ends.
PrefillEnd(latency) == BusyNow["prefill"] + latency

HandlePrefillStart ==
  /\ Pops("PrefillStart")
  /\ prefill_progress' = With(prefill_progress, Event0.req,
                              Progress(Event0.req) + Event0.chunk)
  /\ \E latency \in PrefillLatencies :
       LET done_time == PrefillEnd(latency)
       IN  /\ busy' = [BusyNow EXCEPT !["prefill"] = done_time]
           /\ queue' = Push(Rest, EndPrefill(done_time, Event0.req))
  /\ UNCHANGED <<waiting, prefilling, transferring, decoding, done,
                 decode_scheduled, kv>>

\* Mutant of Remaining: prefills the output too.
Remaining_WithOutput(r) ==
  SatSub(IF r \in prefilling THEN Tokens(workload, r) ELSE 0, Progress(r))

\* The prompt tokens prefill_progress has not covered yet.
Remaining(r) ==
  SatSub(IF r \in prefilling THEN workload[r].prompt ELSE 0, Progress(r))

\* More to do: the next chunk is counted here, and counted again when it starts.
PrefillContinues ==
  LET r == Event0.req
      chunk == IF config.scheduler = "chunked" THEN Least(Remaining(r), ChunkSize)
                                        ELSE Remaining(r)
  IN  /\ Pops("PrefillDone")
      /\ Remaining(r) > 0
      /\ prefill_progress' = With(prefill_progress, r, Progress(r) + chunk)
      /\ queue' = Push(Rest, StartPrefill(0, r, chunk))
      /\ busy' = BusyNow
      /\ UNCHANGED <<waiting, prefilling, transferring, decoding, done,
                     decode_scheduled, kv>>

\* Pushes the decode batch's next step, unless one is pending already.
ScheduleDecode(q, t) ==
  /\ decode_scheduled' = TRUE
  /\ queue' = IF decode_scheduled THEN q ELSE Push(q, StepDecode(t))

\* Coupled: move_to_decoding.
PrefillEndsCoupled ==
  LET r == Event0.req
  IN  /\ Pops("PrefillDone")
      /\ Remaining(r) = 0
      /\ ~ config.disaggregate
      /\ prefill_progress' = Without(prefill_progress, r)
      /\ prefilling' = prefilling \ {r}
      /\ decoding' = IF r \in prefilling THEN With(decoding, r, 0) ELSE decoding
      /\ ScheduleDecode(Rest, 0)
      /\ busy' = BusyNow
      /\ UNCHANGED <<waiting, transferring, done, kv>>

\* Disaggregated: the KV cache moves to the decode GPU.
PrefillEndsDisaggregated ==
  LET r == Event0.req
  IN  /\ Pops("PrefillDone")
      /\ Remaining(r) = 0
      /\ config.disaggregate
      /\ prefill_progress' = Without(prefill_progress, r)
      /\ IF r \in prefilling
         THEN /\ prefilling' = prefilling \ {r}
              /\ transferring' = transferring \cup {r}
              /\ queue' = Push(Rest, TransferKv(0, r))
         ELSE queue' = Rest /\ UNCHANGED <<prefilling, transferring>>
      /\ busy' = BusyNow
      /\ UNCHANGED <<waiting, decoding, done, decode_scheduled, kv>>

-----------------------------------------------------------------------------
(* handle_kv_transfer: the request is in decode from the start of its      *)
(* transfer; only a decode step scheduled here waits for the transfer.     *)

HandleKvTransfer(latency) ==
  LET r == Event0.req
  IN  /\ Pops("KvTransfer")
      /\ transferring' = transferring \ {r}
      /\ decoding' = IF r \in transferring THEN With(decoding, r, 0) ELSE decoding
      /\ ScheduleDecode(Rest, latency)
      /\ busy' = BusyNow
      /\ UNCHANGED <<waiting, prefilling, prefill_progress, done, kv>>

-----------------------------------------------------------------------------
(* handle_batch_decode_step, the flag cleared by the loop before it *)

\* Mutant of DecodeNothing: the flag stays set.
DecodeNothing_KeepsFlag ==
  /\ Pops("BatchDecodeStep")
  /\ DOMAIN decoding = {}
  /\ queue' = Rest
  /\ busy' = BusyNow
  /\ UNCHANGED <<requests, decode_scheduled, kv>>

\* Preemption may have emptied the batch since the step was scheduled.
DecodeNothing ==
  /\ Pops("BatchDecodeStep")
  /\ DOMAIN decoding = {}
  /\ decode_scheduled' = FALSE
  /\ queue' = Rest
  /\ busy' = BusyNow
  /\ UNCHANGED <<requests, kv>>

\* The step of r after a decode step, and the requests this one completes.
NextStep(r) == Least(decoding[r] + Advance, workload[r].output)
Completed == {r \in DOMAIN decoding : NextStep(r) >= workload[r].output}

\* Mutant of AfterStep: no tick once the batch is empty.
AfterStep_NoLastTick(done_time) ==
  IF DOMAIN decoding = Completed THEN Rest
  ELSE Push(Push(Rest, StepDecode(done_time)), Tick(done_time))

\* The next step, if anyone is left to decode, and then a tick.
AfterStep(done_time) ==
  Push(IF DOMAIN decoding = Completed THEN Rest
       ELSE Push(Rest, StepDecode(done_time)),
       Tick(done_time))

\* Mutant of StepEnd: does not wait for the GPU.
StepEnd_Now(latency) == latency

\* When a decode step that takes latency ends.
StepEnd(latency) == BusyNow[DecodeGpu] + latency

\* The step's effects are applied when it starts: completed requests leave and
\* give their blocks back, while the GPU is busy until done_time.
DecodeStep ==
  /\ Pops("BatchDecodeStep")
  /\ DOMAIN decoding # {}
  /\ decoding' = [r \in DOMAIN decoding \ Completed |-> NextStep(r)]
  /\ done' = done \cup Completed
  /\ kv' = Free(kv, Completed)
  /\ decode_scheduled' = (DOMAIN decoding # Completed)
  /\ \E latency \in DecodeLatencies :
       LET done_time == StepEnd(latency)
       IN  /\ busy' = [BusyNow EXCEPT ![DecodeGpu] = done_time]
           /\ queue' = AfterStep(done_time)
  /\ UNCHANGED <<waiting, prefilling, prefill_progress, transferring>>

-----------------------------------------------------------------------------
(* run *)

\* The first event past the horizon is popped and dropped, and the loop ends.
PassesHorizon ==
  /\ ~ ended /\ queue # <<>>
  /\ PastHorizon
  /\ ended' = TRUE
  /\ queue' = Tail(queue)
  /\ UNCHANGED <<config, workload, left, busy, requests, decode_scheduled, kv>>

\* run has returned.
Returned == (ended \/ queue = <<>>) /\ UNCHANGED vars

Dispatch ==
  \/ HandleArrival
  \/ TickPreempts \/ TickAdmits
  \/ HandlePrefillStart
  \/ PrefillContinues \/ PrefillEndsCoupled \/ PrefillEndsDisaggregated
  \/ \E latency \in TransferLatencies : HandleKvTransfer(latency)
  \/ DecodeNothing \/ DecodeStep

Next == Dispatch \/ PassesHorizon \/ Returned

\* The loop is sequential code that nothing blocks.
Spec == Init /\ [][Next]_vars /\ WF_vars(Next)
=============================================================================
