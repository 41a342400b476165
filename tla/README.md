# A verification project for tokenmill

tokenmill is a discrete-event simulator of LLM inference serving: requests arrive,
wait for GPU memory, are prefilled, perhaps move to a second GPU, are decoded in a
batch and leave. This directory holds TLA+ models of its core, the TLC runs that
check them and proofs that TLAPS checks.

Paths below are relative to the repository's `src/`.

## 1. The system

| Component | State it keeps | Operations | Talks to |
|---|---|---|---|
| Event queue (`engine/event.rs`, `queue.rs`) | binary heap, `next_seq` | `push`, `pop` | the engine only |
| Engine (`engine/sim.rs`) | clock, GPUs' `busy_until`, `waiting`, `prefilling`, `prefill_progress`, `transferring`, `decoding`, `decode_scheduled` | `new`, `run` and one handler per event kind | owns all the others |
| KV block manager (`model/kv_cache.rs`) | `free_blocks`, `allocated` | `allocate`, `grow`, `free`, `can_fit`, `blocks_for` | the engine calls `allocate` and `free`; `grow` and `can_fit` are public and unused by it; schedulers read `free_blocks` |
| Schedulers (`scheduler/*.rs`) | none | `schedule`: a pure decision from a snapshot | called on every tick |
| Workload sources (`workload/*.rs`) | records and a cursor, or an RNG and a clock | `from_csv`, `next_arrival` | drained by `Simulator::new` |
| Kernel table (`hardware/kernel_table.rs`) | `exact`, `by_seq` | `from_csv`, `lookup`, `lookup_nearest_batch` | asked by the latency model |
| Latency model (`hardware/gpu.rs`, `cluster.rs`, the other accelerators) | constants | rooflines, collectives, transfers | called by prefill, decode, transfer |
| Model configuration (`model/llm_config.rs`) | constants | sizes of weights, KV and messages, `with_quantization` | read by the latency model and by `run_once` |
| Metrics (`metrics/*.rs`) | counters, histograms | `record_*`, `to_summary` | called by the handlers |
| Power and cost (`hardware/power.rs`, `cost.rs`) | none | `compute_report` | called by `to_summary` |
| Command line (`main.rs`) | points, summaries | the set-up of a run,  one run, a sweep of rates, a study of combinations, its report files | builds and runs a `Simulator` per point, on a pool of threads |

A simulation is single-threaded; a sweep or a study runs several, which share nothing,
on a pool of threads. What is concurrent within one is what it simulates: the loop of
`run` interleaves the pending events of many requests by time and push order, and every
handler leaves behind events that act on whatever the state has become. The hard
behaviours are therefore those of an event-driven system:

- **stale events and flags**: a decode step scheduled before preemption emptied the
  batch; prefill events of a request that is no longer prefilling;
- **decisions from a snapshot**: a tick decides all admissions at once and makes them
  one by one, while blocks run out in between;
- **memory at its limit**: preemption, refusal, re-insertion at the front of the line;
- **progress**: only ticks admit; some ticks push ticks at the same instant; a forgotten
  tick strands requests, an unconditional one stops the clock;
- **many simulations, one report**: they end in any order, and one that fails takes the
  others with it;
- **accounting in two places**: `free_blocks` and `allocated`, the pending decode step
  and `decode_scheduled`, the chunk counted when scheduled and when started;
- **prices with thresholds**: a KV cache that outgrows the on-chip memory, a group that
  outgrows its node, a length beyond the measured ones: on either side of each a
  different formula applies.

`PROJECT.json` lists each of these hazards at its line, with the properties that would
catch it going wrong.

What makes each component correct: the queue is stable and time-ordered; the block
manager neither loses nor invents blocks; a scheduler's decision fits both budgets and
leaves no room that it could have used; the engine keeps each request in exactly one
place with exactly the events and blocks of that place, never stands still, and serves
whoever it can; and prices rise with the work, the width of the formats and the distance
between GPUs, however many thresholds lie in between.

## 2. The modules

| Module | Models | Kind |
|---|---|---|
| `Tally` | sums over finite sets without recursion, integer helpers, hash-map updates | operators |
| `SimQueue` | the heap, its comparison and its push numbers | state machine |
| `StableQueue` | what the queue promises | abstract specification |
| `EventQueue` | that promise as operators on a sequence | operators |
| `KvCacheManager` | the methods of the manager on a record | operators |
| `KvCacheCalls` | the manager under any sequence of calls | state machine |
| `Scheduling`, `ContinuousBatch`, `ChunkedPrefill` | the two `schedule` functions | operators |
| `Simulator` | `new`, `run` and every handler | state machine |
| `SimulatorProperties` | what is claimed of it | properties |
| `RequestLifecycle` | what it promises each request | abstract specification |
| `ObservedSimulator` | `Simulator` with three history variables: the tokens charged, the arrival of KV caches, the work given to each GPU | state machine |
| `ArrivalSources` | trace replay, synthetic arrivals, the loop that drains them | state machine |
| `ArrivalStream` | what they promise `Simulator::new` | abstract specification |
| `KernelTable` | filling the table, and what it answers | state machine, operators |
| `TableProperties` | what it owes to the file it was filled from | properties |
| `Fractions` | exact arithmetic in place of `f64` | operators |
| `ModelConfig` | the sizes that `LlmConfig` computes, `with_quantization` | operators |
| `Cluster` | `ClusterConfig`: collectives, hand-overs, KV transfers | operators |
| `LatencyModel` | rooflines, prefill and decode latencies, speculation | operators |
| `RunSetup` | what `run_once` makes of the arguments: cluster, network, KV pool, draft model | operators |
| `PricedDecode` | a decode batch whose steps are priced with all of these | state machine |
| `PricedProperties` | what prices owe to the machine and the model | properties |
| `MeteredSimulator` | `Simulator` with its metrics collector and the times it reads | state machine |
| `RunReport` | `MeteredSimulator` with the end of `run`, `to_summary`, power and cost | state machine |
| `Study` | `main`: presets, points, the pool, the report files | state machine |
| `MCSimulator`, `MCObserved`, `MCMetered`, `MCPriced`, `MCTable`, `MCSources`, `MCStudy` | the inputs of the checks | TLC |
| `OperatorProofs` | induction over the naturals, totals, sets in order, what each method of the block manager keeps, what pushing and popping do to a queue, the laws of fractions | proofs |
| `ContainerProofs` | the invariants of `KvCacheCalls`, that the heap implements `StableQueue` | proofs |
| `SimulatorProofs` | the books kept of the queue, admissions, the invariants of `Simulator`, its budgets (decode lengths, tokens), that nobody is forgotten, that it implements `RequestLifecycle` | proofs |
| `MeteredProofs` | what is charged, given to the GPUs, counted, measured and reported of a run | proofs |
| `SourcesProofs` | the calendar, replayed traces, the stream of arrivals | proofs |
| `TableProofs` | that the kernel table answers what its file says | proofs |
| `PricedProofs` | what prices owe to the cluster, the GPU, the model and the batch | proofs |
| `StudyProofs` | that what the command line writes is complete, and what each combination alone would give | proofs |

`Simulator` composes `EventQueue`, the two schedulers and `KvCacheManager`. It uses the
queue in its specified form: `SimQueue` is checked and proved to implement `StableQueue`,
whose operators are those of `EventQueue`.

`PricedDecode` composes the kernel table, the set-up of a run and the latency model, where
`Simulator` takes any duration from a set: what is claimed of prices holds of batches
that come about in any way, and what is claimed of the engine holds for any prices.
`RunReport` extends `MeteredSimulator`, which extends `Simulator`.

`ArrivalStream` is the assumption that `Simulator` makes on workloads
(`SimulatorAssumption`), with requests numbered from 0 as in the code; `Simulator`
numbers them from 1, as sequences do.

### How `Simulator` corresponds to the code

One action is one turn of the loop in `run`: pop, move the clock, run the handler to its
end, push its events. There is one action per handler, split where a handler returns
early: `handle_scheduler_tick` into `TickPreempts` and `TickAdmits`,
`handle_prefill_done` into `PrefillContinues`, `PrefillEndsCoupled` and
`PrefillEndsDisaggregated`, `handle_batch_decode_step` into `DecodeNothing` and
`DecodeStep`. `PassesHorizon` is the pop that breaks the loop, `Returned` the state
after `run`.

| Variable | Code |
|---|---|
| `queue`, `left`, `ended` | `queue`, `until - clock`, the `break` |
| `busy` | `busy_until` of `prefill_gpu` and `decode_gpu` |
| `waiting`, `prefilling`, `transferring`, `decoding`, `prefill_progress`, `decode_scheduled` | the fields of that name, maps from states reduced to what control depends on |
| `kv` | `free_blocks` and `allocated` |
| `done` | the phase of states that the code drops |

Abstractions, each with its reason:

- **Times are relative to the clock.** Handlers compare and add times, never read the
  clock's absolute value. So a simulation that repeats itself is a cycle of states, and
  livelock is visible to TLC. A `busy_until` in the past is 0.
- **Latencies are chosen from a set.** Control depends on them through event order
  only; `LatencyModel` has the formulas. The choice is made at every chunk, step and
  transfer, which allows more than any one formula would.
- **Hash-map order is a choice.** The victim is any of the largest decoding requests.
- **Tokens per step** (`tokens_per_step().round().max(1.0)`) is the constant `Advance`;
  `AdvanceIsExpected` says of which size it is.
- **Metrics calls** change no control; `MeteredSimulator` adds them. **GPU ids** are left
  out.
- **`handle_preemption`'s branch for prefilling requests** is unreachable: both
  schedulers filter for the phase `Decoding`. It is left out; the mutant of
  `CandidateVictims` shows what evicting such a request would do.

### How the other machines correspond to the code

`ArrivalSources`: `LoadTrace` is the whole of `from_csv`, which nothing can interrupt;
`TraceArrival` and `SyntheticArrival` are one turn of the drain loop of
`Simulator::new` with the `next_arrival` it calls. Native times are milliseconds that
are whole seconds, Azure times whole hours. What a distribution samples is any member of
a set that has 0 in it, since a sample truncates to 0.

`MeteredSimulator`: one action per handler that records something, which is the
simulator's action together with the calls of `record_*` and `add_*` that the handler
makes, and `MeterNothing` for those that record nothing. `prefill_done_time` and
`first_token_time` are the fields of the states in flight; `clock` is absolute here.
Left out: `kv_util_sum`, a sum of fractions of which only the number of samples is kept.

`ObservedSimulator`: each handler of `Simulator` with what a history variable records of
it. `work` lists for each GPU the prefill chunks and decode steps given to it that are
not over yet, in the order in which they were given out: who for, from when, until when.
It takes the end from the handler (`PrefillEnd`, `StepEnd`) and the begin from that and
the latency.

`RunReport`: `Summarise` is what `run` does after its loop and `to_summary` with it: the
duration is the horizon, also where the loop ended before it (`until`,
`src/engine/sim.rs:178`), the chips are those of the larger group times the pipeline,
twice if disaggregated, and energy and cost are computed from the counters. Only a run
with a finite horizon is summarised. Left out: percentiles, mean utilization and
formatting.

`KernelTable`: `ReadRow` is one turn of the loop of `from_csv` with the `insert` it
calls, `Finish` sorts the entries. `lookup` and `lookup_nearest_batch` change nothing
and are operators. Answers are fractions; `lookup_nearest_batch` answers with a set,
because the order of keys in a hash map decides between two batch sizes at one distance.

`ModelConfig`, `Cluster`, `LatencyModel`: one operator per function, with its name. A
configuration is a record with the fields of the code's struct; a quotient is a fraction
in lowest terms; conversions to an integer round where the code rounds. Times are in
microseconds and sizes in kilobytes, so that a bandwidth in GB/s is a number of
kilobytes per microsecond.

`RunSetup`: `SetUp` is `run_once` up to the simulation. `PricedDecode`: `RunOnce` sets up a
command line once a table is loaded, `Join` and `LeaveBatch` are requests that enter and
leave `decoding`, `DecodeStep` is what `handle_batch_decode_step` does to the lengths of
the batch. A price is a function of the state, not a variable.

`Study`: `points` are the arguments that `run_study` (or the sweep, or the single run)
hands to `run_once`; `BeginPoint`, `ReturnPoint`, `PanicPoint` and `ExitPoint` are what
a thread of the pool does with one. A simulation is what `Outcome` says of its end and
`Summary` of its result: the labels of the row and the arguments its figures depend on.
`Collect`, `WriteFile`, `FailFile` and `PrintReport` are `main` and
`write_study_outputs` after it. After a panic the pool may or may not begin what is
waiting; a write that fails leaves the file as it was or cut.

## 3. The runs

| Run | Question | Verdict |
|---|---|---|
| `sim_queue` | does the heap implement a stable time-ordered queue? | holds |
| `kv_calls` | do blocks add up under any calls, and is there room for what was granted? | holds |
| `safety` | do requests, events and memory stay consistent, is every turn a life-cycle step, does each GPU do one thing at a time, and is exactly the prompt charged before decode (continuous scheduler)? | holds |
| `liveness` | does the clock advance, does `run` return, is everyone served without pressure? | holds |
| `metrics` | do counters, busy time and latencies add up with what was simulated, and does the energy of the report? | holds |
| `sources` | is a trace replayed as it happened, and is what any source hands over what the simulator relies on? | holds |
| `kernel_table` | does the table answer what the rows of its file say, in whatever order they come; and are decode steps priced, with it or without, as machine, model and pool allow? | holds |
| `study` | does a report list for every combination what a run of its own gives, in order, or nothing? | holds |
| `livelock` | is everyone served under memory pressure? | no |
| `charged_twice` | is exactly the prompt charged before decode (chunked scheduler)? | no |
| `stranded` | is a request that fits served whoever else is in line? | no |
| `decode_before_kv` | does decode wait for the KV cache? | no |

What the four violations show is quoted against the repository's text in `PROJECT.json`:

- **`livelock`**: two equal requests, a pool that holds one. Request 1 is admitted,
  prefilled and decodes; a tick finds no block free and request 2 in line, and evicts
  request 1 to make room. But the victim goes to the front of the line, the next tick
  admits it again ahead of request 2, and the cycle repeats. Simulated time passes,
  request 1 is recomputed over and over, request 2 is never admitted, nothing completes.
- **`charged_twice`**: `prefill_progress` is advanced when a further chunk is scheduled
  and again when it starts. A prompt of three chunks is decoded after two.
- **`stranded`**: the chunked scheduler budgets the prompt's blocks, the allocator wants
  those of the output too. A request whose total never fits is "admitted" and refused at
  every tick, at the front of the line, at the expense of those behind it.
- **`decode_before_kv`**: a transferring request joins `decoding` at the start of its
  transfer; only a decode step that the transfer itself schedules waits for its end.

### Bounds

| Run | Bound | Why it is enough |
|---|---|---|
| `sim_queue` | 4 pushes, 3 times, 2 payloads | ties of two and three events, pushes between pops, and two distinguishable events in any order |
| `kv_calls` | 3 requests, 5 blocks of 2 tokens, 0, 1, 2 or 5 tokens a call | full and part-filled blocks, a full pool, refusals of either call; finite without a bound |
| `safety` | 3 requests, each of 1 or 4 prompt tokens and 1 or 3 output tokens, arriving at 0 or 2; 3 blocks of 2 tokens; budget 5; chunks of 2; chunks take 1 or 2, decode steps 1 or 3, transfers 1 or 3 | a prompt of two chunks; a request that fills the pool, one that never fits, two that fit together; preemption of one of several; re-prefill after preemption; refusals after admission; both schedulers, coupled and disaggregated; a horizon that cuts a run; chunks and steps of different lengths that queue for one GPU |
| `liveness` | 3 requests, each of 1 or 3 prompt tokens and 1 or 3 output tokens, one latency for each kind of work, 6 blocks | the token budget of 5 makes requests wait for one another, so that serving everyone takes several ticks; the requests need fewer than 6 blocks in a third of the workloads (`NoPressure`); in the others some are preempted, and the clock must advance all the same; outputs of 1 complete in the step that starts them |
| `metrics` | as `safety`, output tokens advance by 2 a step, a horizon of 3 or 12; power and price of small whole numbers | a last step is cut short by `min`; the horizon makes the absolute clock finite; within it requests are preempted before and after their first token, and runs end with work in progress; at 3 the work in progress outlasts the run, so that more is charged than fits its duration |
| `sources` | files of up to 3 rows; 4 sampled arrivals | native rows with ties, times out of order and before 0, rows without tokens, malformed rows; dates on both sides of month ends, leap days, and of years that only look like leap years |
| `kernel_table` | files of up to 4 rows, two targets, two batch sizes of one operation, lengths below, at, between and beyond the measured ones | a length measured twice at either end or in the middle, two batch sizes at one distance, rows of unknown operations, malformed rows |
| `kernel_table`, prices | two machines, four models, some 130 set-ups; batches of up to 3 with lengths of 1 or 4 that grow beyond 7; tables of up to 2 rows | each kind of group within a node, on whole nodes and on nodes part-filled; both machines with their on-chip memory outgrown or absent; dense and mixture models, sizes known and estimated, compressed KV, four widths; three acceptance rates with and without a draft model. A table of two rows already has a first, a last and an interpolated length; longer ones are looked up in the part of the run above |
| `study` | 665 command lines, studies of up to 4 points and one of 8, 2 threads | every two lists of a study vary together; single runs, sweeps and studies with unknown names, exclusive options, missing traces, lists that are empty or do not parse |

All variables of `Simulator` are bounded by the code itself once times are relative;
`MeteredSimulator` is bounded by its horizon; there is no state constraint. The bounds in
guards are `MaxPushes`, `MaxArrivals`, `MaxRows`, and `PricedRows`, `MaxBatch` and `MaxKvLen`
of `PricedDecode`. The queue stops at its bound, sources stop when drained and batches when
full of long contexts, hence `CHECK_DEADLOCK FALSE` in these runs. Every other run checks for deadlock: the loop
always has a step (`Returned` once it is over; `Exited` for the program).

### Fairness

`WF_vars(Next)`: the loop is sequential code that waits for nothing, so as long as
`run` has not returned it takes another turn. Nothing stronger is assumed: which latency
or which of several equal victims is chosen is never assumed fair.

## 4. The properties

`SimulatorProperties` states them with their reasons. In short:

- `OnePlace`: every request is in one place, once.
- `BlocksMatchPhases`: exactly the requests in flight hold blocks, each for its prompt
  and output, and with the free ones they make up the pool.
- `OneEventPerRequest`, `OneDecodeStep`: no event is stale, missing or doubled.
- `WorkTakesTurns`: no two pieces of work given to a GPU overlap, prefill chunks or decode
  steps, of whatever durations, also where both share the GPU; and every pending
  `PrefillDone` is due when a piece of work of that request ends. (A `BatchDecodeStep` is
  the start of a step, so nothing is said of when it is due.)
- `BatchWithinBudget`, `TickLeavesNoRoom`: the continuous scheduler neither exceeds its
  budget nor leaves room unused.
- `NobodyStranded`: when the queue runs dry and no event was beyond the horizon, every
  request that the scheduler could admit to an idle machine is done; under the chunked
  scheduler this is claimed only of workloads in which it could admit every request, and
  `stranded` shows why.
- `ClockAdvances`, `RunReturns`, `ServedWithoutPressure`: progress.
- `ImplementsLifecycle`: each turn is one step of `RequestLifecycle`, which overcommits
  no memory and evicts only when no block is free and another request waits.
- `WholePromptCharged`, `ChunksCoverPrompt`, `DecodeWaitsForKv`: the simulation charges
  what it simulates.
- `KvLengthsFit`: the lengths that a decode step adds up in 32 bits fit the pool, so that
  the sum cannot wrap in a pool of fewer than 2^32 tokens.

Of the metrics, `CountersMatchLives` (a balance over admissions, preemptions and
completions), `BusyFitsTime`, `SamplesPossible`, and of the report
`EnergyWithinEnvelope`: no less than the cluster standing idle, no more than all of it at
full power for as long as the run and the work it began. The summary's throughput and cost
are modelled, but no property is about them: each is one quotient or product of a counter
or of the duration.

Of the workload sources, `ReplaysTheFile` (every row arrives once, in the order in which
it happened, at the right distance from every other, by a calendar that counts days) and
`ImplementsArrivalStream`. Of the kernel table, `LookupMatchesRows` (a reference
definition over the rows), `LongerTakesLonger` and `NearestBatchAnswers`. Of the command line,
`ReportIsTheSingleRuns` (a reference definition that counts through the combinations,
also of studies on the node that a `--system` gave them) and `ReportsAreComplete`.

Of the prices, none of which restates a formula: each compares two prices that the code
computes on different paths, or with a reference that places GPUs one by one.

- `LongerNeverCheaper`: the steps of a batch never get cheaper as its contexts grow, across
  the on-chip threshold and through a table's extrapolation and interpolation, if the
  table itself is monotone for each target, operation and batch size.
- `BatchingPays`: a step of a batch takes no longer than its requests one by one, where
  the weights of every model that runs in it, the draft model's too, outweigh the on-chip
  memory: otherwise a batch may outgrow a memory that its requests fit. And where a token
  goes to one expert of a GPU at most, or to as many on each (`EvenDispatch`):
  `ep_all_to_all_latency` counts whole messages, so that those left over by one token are
  dropped and those left over by a batch are not.
- `LinksMatchPlacement`: the integer divisions that split a group over nodes give what
  the links between its members cost, where GPUs and nodes are linked at all.
- `CrossNodeNeverHelps`: a network no better than the fabric never makes anything cheaper.
- `ExpertsShardLikeWeights`: expert parallelism of the degree of tensor parallelism prices
  what none does, to a byte of rounding. Degrees of 0 act as 1, as in the code.
- `FewerBitsNeverSlower`: quantization speeds up whatever depends on it, and the pool grows.
  Two cases are excluded, where the code says otherwise: an active size so small that it
  rounds to 0, which stands for "unknown" and is then estimated (`StaysKnown`); and, for
  the pool, weights that do not fit at all, for which `auto_kv_blocks` takes a fifth of the
  memory to be free, more than fewer bits may leave (`WeightsFit`).
- `AdvanceIsExpected`: the tokens of a speculative step are the expected length of the
  accepted run, and `Advance` is between one and all of them; all of them at a rate of 1,
  if they are few enough for the rate at which it is cut off, `k (k + 1) <= ClampDen`.
- `PoolFitsMemory`: weights and pool fit together in the memory of their GPUs, if the pool
  is the one that `auto_kv_blocks` makes and not its least, a token takes whole bytes, and
  the weights leave 5 units of memory per GPU, of which the fifth that is kept makes up
  for what was rounded off.

The conditions were found by proving: small sizes and degrees that TLC's set-ups do not
contain break each property without its condition.

The code cuts acceptance rates off at 1 - 10^-9 (`src/engine/sim.rs:39`). `ClampDen` stands
for the 10^9; it is 50 in the check, which keeps the powers within TLC's integers.

Every property of a passing run has a mutant of the code that breaks it
(`PROJECT.json`, "mutants"): the definitions whose names have a suffix, such as
`Free_OneBlock`, next to the ones they mutate.

## 5. The proofs

### The block manager

`ContainerProofs` proves for every set of request ids that is finite, every pool, every
positive block size and every set of token counts:

- `KvTypeCorrect`: the counter and every share lie between 0 and the pool, so that the
  unsigned subtractions never wrap;
- `KvBlocksConserved`: `free_blocks` and `allocated` add up to the pool;
- `KvRoomForGrantedTokens`: blocks held are enough for the tokens granted.

The argument. `Balanced(k)` says of a manager that its holders are known requests with
natural shares that add up, with the free blocks, to the pool. Each method keeps it
(`TakeBalanced`, `FreeBalanced`, `AllocateBalanced`, `GrowBalanced`), whatever the
caller does, so that these lemmas serve `Simulator` as well. `KvInv` adds the history
of granted tokens; it is inductive (`KvInvInit`, one lemma per call), and the theorems
follow. `BlocksConserved` alone is not inductive: it does not say that a share is a
number, nor that holders are finitely many. The upper bound of `KvTypeOK` is not part of
the invariant; it follows from the balance (`WithinPool`).

### The simulator

`SimulatorProofs` proves for every workload and configuration, pool, budget, chunk size,
horizon and set of latencies, of any number of requests:

- `SimTypeCorrect`: `TypeOK`, with the queue in pop order;
- `SimOnePlace`: `OnePlace`;
- `SimBlocksMatchPhases`: `BlocksMatchPhases`;
- `SimOneEventPerRequest` and `SimOneDecodeStep`.

None of these is inductive alone. Blocks follow the phases only if a handler that frees
or allocates acts on a request in the phase it expects; it does only if no event is
stale; and an event is never stale only because each request in prefill or transfer has
exactly one, which a second admission would break, which is excluded because a request
in line is in no other place. So the inductive invariant `SimInv` (theorem
`SimulatorInvariant`) has all of it at once: `Placed` (the phases are disjoint, nobody
is in line twice, exactly those in flight hold blocks, each its share) and `Books`. The
books are a `Ledger` of the queue: one arrival pending for each request that is nowhere
yet, one prefill event for each in prefill, one transfer for each in transfer, one
decode step if `decode_scheduled` and none otherwise. Once the loop has dropped an event
at the horizon the books may have a gap, so from then on the invariant only bounds the
arrivals.

- `OperatorProofs`, on the queue: where `Push` puts an event, that the queue stays ordered, and how the
  number of pending events of a kind changes with a push, a pop and a dropped head.
  Positions are counted with cardinalities and moved with bijections.
- `SimulatorProofs`, first part: the same in terms of the books. A push enters an event in one account,
  a pop strikes it out; that the popped event was in its account is what makes it fresh.
- second part: the line as a sequence without repetition under `Append`, putting in
  front and `Leave`; `AdmitOne` for one admission, granted or refused; `AdmitAllKeeps` for
  the loop. It also shows that the chunked scheduler's budgets stay natural numbers, so
  that chunks are numbers.
- third part: `Popped` (what the loop hands to a handler), one lemma per action,
  and the theorems.

The later parts add what the simulator never exceeds and whom it never forgets, each from
`SimInv` and one more fact:

- `SimKvLengthsFit`: `KvLengthsFit`. A request in decode has produced no more than it was
  asked for (`DecodeLengths`, inductive); its blocks cover prompt and output; and the
  blocks of all who decode are blocks of the pool.
- `SimBatchWithinBudget`: `BatchWithinBudget`. The decision of a tick is a loop over the
  line, its execution another one with refusals; `AdmitWithinBudget` runs both side by
  side: what is charged for those in flight and what is left of the budget never exceed
  it.
- `SimTickLeavesNoRoom`: `TickLeavesNoRoom`. The same two loops, from below: what is
  admitted takes from the pool exactly what the decision took from its budget of blocks,
  so no admission of the continuous scheduler is refused (`RoomTaken`), and who is still
  in line did not fit when its turn came, nor after.
- `SimNobodyStranded`: `NobodyStranded`. As long as somebody who can be served is in line,
  somebody is in flight or a tick is pending (`Awake`, inductive): who leaves the machine
  idle pushes a tick, and a tick that finds it idle admits somebody: under the continuous
  scheduler by `RoomTaken`, under the chunked one the first in line (`FirstAdmitted`).
  When the queue is empty, the books say that nobody is in flight (`DryRun`).

The last part proves `SimImplementsLifecycle`: `Spec => ImplementsLifecycle`. The refinement
mapping takes a request's phase from where it is (`PhaseIs`, `PhaseSets`: a request is in
one place, by `Placed`) and its memory from the blocks it needs
(`NeedHeld`: by the balance of the pool, what is in flight needs no more than there is).
Then one lemma per handler says which step of `RequestLifecycle` it takes, for whom
(`MoveBy`), and that a preemption has the victim, the pressure and the request in line
that the abstract step demands.

Loops are recursive functions. That such a function exists, and what holds of all its
values, are proved by induction over the naturals for a property given as a set
(`SetInduction` in `OperatorProofs`).

A total is defined as the number of elements of a set, which makes it provable from the
cardinality theorems of the library (`OperatorProofs`).

### The event queue

`ContainerProofs` also proves for all times, payloads and numbers of pushes `QueueTypeCorrect`
and `QueueImplementsStable`: `Spec => ImplementsStableQueue`. The refinement mapping lists
the heap in pop order. That there is one such list needs more than types: push numbers
must be told apart and be smaller than `next_seq` (`HeapInv`, inductive). Then the
reversed comparison with push numbers is a strict total order on the heap
(`PopOrderStrict`), a finite set has exactly one list in a strict total order (third part
of `OperatorProofs`), and it is enough to see that the list of the heap after a push is
the old one with the new event where the stable queue inserts it, behind all that are due
no later, and that a pop takes the head.

### The metrics

`MeteredProofs` proves for every workload, configuration and set of durations, and every
deployment, each from `SimInv` and an invariant of its own:

- `SimWholePromptCharged`: `WholePromptCharged`. By `ChargesAddUp`: a pending
  `PrefillStart` of a continuous run is for the whole prompt, of which nothing is charged
  yet, a pending `PrefillDone` for one with all of it charged. It is needed because what
  decode finds was charged two events earlier, with preemptions in between.
- `SimWorkTakesTurns`: `WorkTakesTurns`. By `WorkInv`: what a GPU was given is over by its
  `busy_until`, and every chunk that the queue reports done is among it. A new piece begins
  at `busy_until`, or now if that is past (`GivenInTurn`); when time passes, what is over is
  what was given out first, because the pieces are in turn (`UnfinishedInTurn`), and what
  is still to be reported is not forgotten (`BackedPop`); a push reports only such ends
  (`BackedPush`, and `BackedAdmit` for all the pushes of a tick).
- `SimBusyFitsTime`: `BusyFitsTime`. By `ChargesFit`: what has been charged to a GPU fits
  before the time at which it is next free.
- `SimCountersMatchLives`: `CountersMatchLives`. By `LivesCounted`, which has the upper and
  the lower bounds as equations where they are equations, and that histograms are finite.
- `SimSamplesPossible`: `SamplesPossible`. By `Timely`: no event is due before the request
  has arrived, or before the shortest chunk has passed since; `prefill_done_time` is there
  for whoever decodes and one chunk behind the arrival; and between a first token and the
  time at which the GPU is free there is room for all the steps that the tokens since took.
- `SimEnergyWithinEnvelope`: `EnergyWithinEnvelope`, from `ChargesFit` at the end of the run
  and arithmetic on products (`EnergyBounds`); the report is of the state in which the
  loop ended (`ReportInv`).

### The workload sources

`SourcesProofs` proves for files of any length, in any order of times, with or without
malformed rows:

- `SourcesImplementStream`: `Spec => ImplementsArrivalStream`, both for traces and for
  synthetic workloads;
- `SourcesReplayFile`: `ReplaysTheFile`.

`SourcesInv` says that what has been handed out is the records up to the cursor; that the
records are the rows, each once, in time order, from 0 on and at the right distances is
`RecordsReplay`. That needs two facts about functions. The stable sort lists every row
once (`SortListsKeys`, from the lists in a strict order, both in `OperatorProofs`). And
`gregorian_to_jdn` counts days (`JdnCountsDays`): its March-based formula differs from the
days before a date, which `ReplaysTheFile` counts year by year and month by month with the
leap-year rule, by one number for all dates from year 1 on (`LeapYears` by induction over
years, `MonthByMonth`, `DaysBeforeMonth`).

### The kernel table

`TableProofs` proves for every set of rows, files of any length in any order, and every
question asked:

- `TableMatchesRows`: `LookupMatchesRows`;
- `TableLongerTakesLonger`: `LongerTakesLonger`;
- `TableNearestBatch`: `NearestBatchAnswers`.

These speak of the rows of the file, the code of two hash maps. `TableInv`, which is
inductive, relates them: `exact` binds each key to the last row that has it
(`BindsLast`), and `by_seq` lists under each partial key all the rows that have it, in
file order while the file is read (`Groups`) and by length, in file order within one
length, once it is loaded (`SortedGroups`; `SortKeeps`, by the same `SortListsKeys` as for
traces). On such a list the partition point tells the nearest row below and the nearest
above (`BetweenAnswers`). With it `LookupAnswers` says in terms of the rows what every
answer is; the rest is arithmetic on an interpolated time (`InterpolateOnLine`,
`InterpolateBetween`, `InterpolateGrows`). For `LongerTakesLonger`, either a row lies between
the two lengths, and what it took separates the answers (`AnswerBetween`), or both have
the same neighbours (`SameNeighbours`).

### The prices

`PricedProofs` proves for every set of command lines, with any GPU, cluster and model, every
kernel table and batches of any size and length:

- `AdvanceExpected`: `AdvanceIsExpected`;
- `PoolAndWeightsFit`: `PoolFitsMemory`;
- `NodesNeverHelp`: `CrossNodeNeverHelps`;
- `ExpertsLikeWeights`: `ExpertsShardLikeWeights`;
- `NeverCheaper`: `LongerNeverCheaper`, the one about a step rather than a state;
- `LinksPlaced`: `LinksMatchPlacement`;
- `BatchPays`: `BatchingPays`;
- `FewerBitsFaster`: `FewerBitsNeverSlower`.

The inductive invariant `PricedInv` (`PricedInvAlways`) is plain: the set-up is one that
`run_once` makes of a command line, so that every field has its type and a block size or a
degree is what the code makes of it; the table is what its file says (`TableInv`); contexts
are numbers. A step changes contexts only, by an `Advance` that must be known to be a
natural number. All else is about the formulas, and rests on two bodies of lemmas.

- *Fractions* (`OperatorProofs`, last parts). Prices are records in lowest terms, and two
  prices are equal if the records are. That a quotient has one such record is Euclid's
  algorithm (`GcdHolds`, with `GcdScaled` and `GcdUnique`). From it follow the laws that a
  reader expects of numbers: `PlusLaws`, `TimesLaws`, `OrderLaws`, `OverLaws`, and what sums
  of sequences do (`SumGrows`, `SumPlus`, `SumTimes`). After that no proof looks into a
  fraction where it can do without.
- *At most so many times as high* (`PricedProofs`, from the second part on). Each link of a price, from
  a hop to a speculative step, is at most `n` times as high as one whose arguments are
  (`BoundPlus` to `PipelinedBound` and `StepBound`). With `n = 1` it is monotone; with the
  size of a batch it is what `BatchPays` needs of collectives.

The arguments of their own:

- `AdvanceExpected`: `(1 - a^(k+1)) / (1 - a)` is the sum of the powers of `a`
  (`GeometricSum`, by induction), which lies between 1 and `k + 1`; near 1 the powers are
  bounded by what they lose each, at most 1 in `ClampDen`.
- `PoolAndWeightsFit`: three quotients rounded down one after the other, against a weight per
  GPU that is rounded down too. What that loses is less than the fifth that is kept.
- `NodesNeverHelp`: each collective on one large node against the same on several
  (`HandOverSpread`, `ExchangeSpread`, `ReduceSpread`); a mean over boundaries of which some
  are slower is no less (`MeanAtLeast`).
- `ExpertsLikeWeights`: dividing two parts by the same is dividing their sum, but for one
  unit that rounding down twice loses (`OverPlus`, `DivParts`).
- `NeverCheaper`: a larger total has a mean no smaller (`LongerMean`); a longer context counts
  no fewer bytes, on either side of the on-chip threshold; and the answers of the table are
  in order by `TableLongerTakesLonger`.
- `LinksPlaced`: stages and experts are added one at a time. Each either opens a node or not,
  which is when a division grows by one or not (`NextNode`; `PipelinePlaced`,
  `ExpertsPlaced`, `GroupPlaced`).
- `BatchPays`: below the threshold KV counts a tenth, and what it misses is less than the
  weights that the requests would read again (`KvReach`); compute, KV and messages are at
  most the sums of their parts.
- `FewerBitsFaster`: `Narrower` says what halving or quartering the bits does to every size,
  with the rounding of each and with the estimate of active parameters; `SparseRatio` and
  `PartsLeft` carry it through the sizes that are differences of others.

### The command line

`StudyProofs` proves for every set of command lines, lists of any length, any number of
threads and any order in which simulations end, panic or exit:

- `StudyReportsComplete`: `ReportsAreComplete`. It is not inductive: that a file holds the
  whole report follows from what was true when the pool was left. `StudyInv` says for each
  phase of `main` which results are there, and what has been written.
- `StudyReportsSingleRuns`: `ReportIsTheSingleRuns`, from `StudyInv` and `ReportedInv`: each
  result is the summary of its point, and in a study the points are those of the study.
  The rest is about data. Flattening lists of one length puts item `j` of list `i` at
  `(i - 1) k + j` (`FlattenSeqJoins`, by induction), so the nested loops of `run_study` number
  the combinations as the reference definition counts them (`StudyPointsNumbered`, with
  quotients in two steps, `DivTwice`). And the arguments that `run_study` derives from those
  with the preset of the command line simulate the same as a command line of their own
  (`PointAlone`): in particular a preset over a preset leaves nothing of the first.

### Assumptions, and what is only checked

Each module that declares constants assumes of them what the code gives:

- `KvAssumption`: finitely many request ids, a pool, a positive block size;
  `KvCallsAssumption`: token counts are naturals. As the lemmas of `OperatorProofs` stand
  under the former, so do the proofs about the event queue, the kernel table, the workload sources,
  the prices and the command line, which have no block manager and do not use it.
- `SimulatorAssumption`: requests are numbered in arrival order, with at least one token of
  each kind; latencies and budgets are naturals. It is what `ArrivalStream` promises.
- `DurationsAssumption`: there are latencies to choose from; `DeploymentsAssumption`: numbers
  of chips, watts and prices are naturals. Degrees of 0 are within it, where the report is
  of no chips at all, and `EnergyWithinEnvelope` speaks of reports with chips.
- `SimQueueAssumption`: times are naturals.
- `SourcesAssumption`: what is sampled is a natural number; `FilesAssumption`: a row that is
  not malformed has token counts, and a time: whole seconds in a native file, a date from
  year 1 on, with a month and a day, in one of Azure's.
- `TableAssumption`: a row that parses has natural numbers, and no answer is taken for a
  time; `QuestionsAssumption`: batch sizes and lengths asked for are naturals.
- `ArgumentsAssumption`: a command line of `PricedDecode` names a GPU of `GpuSpecs` and models of
  `LlmConfigs`, its numbers are unsigned and its rates fractions. A GPU computes in 16 bits,
  has a memory bandwidth, and utilizations above 0; a model has a layer and weights of 4, 8
  or 16 bits, as all presets do, and no more layers with experts than layers.
  `PricingAssumption`, `ClampAssumption`: prompts have tokens, and `ClampDen` is positive.
- `ThreadsAssumption`: the pool has a thread; `CommandLinesAssumption`: a command line has
  the options that a simulation depends on, and its list options are lists.

Token arithmetic is unbounded, while the code's is 32 bits wide; for the sum of a decode
batch, `SimKvLengthsFit` says when that makes no difference.

Only model-checked: liveness under fairness (`ClockAdvances`, `RunReturns`,
`ServedWithoutPressure`), which is out of the prover's reach. Every other property of a
passing run is a theorem.

## 6. Where the code and its texts disagree

Beyond the four violations of section 3, noticed while modelling and settled by no run.
The models have in each case what the code does.

Metrics and reports:

- a preempted request records its time to first token twice (`src/engine/sim.rs:505`),
  which is why `CountersMatchLives` allows one more sample for each preemption;
- `kv_transfer_time`, "only non-zero in disaggregated mode", is non-zero in coupled mode
  too (`src/workload/request.rs:56`);
- busy seconds are those of one chip, where `src/metrics/collector.rs:20` and
  `src/hardware/power.rs:43` speak of a sum over all chips;
- work in progress at the horizon is charged in full, so that busy time can exceed the
  duration of the run; idle time is cut off at 0, and `EnergyWithinEnvelope` allows for
  the overrun;
- the KV pool and the model card count `tp * pp` GPUs, the reports `max(tp, ep) * pp`
  (`src/main.rs`, `auto_kv_blocks`; `src/metrics/collector.rs`, `to_summary`).

Prices:

- the hierarchical all-reduce says "reduce within each node, all-reduce across nodes, then
  broadcast" (`src/hardware/cluster.rs:99`) and charges two full all-reduces within the
  node; yet, having fewer hops than one ring over all GPUs, it makes small messages
  cheaper across nodes than within one when `tp` exceeds two nodes, while
  `tests/roofline.rs:515` asserts the contrary for a large message. `SlowerOutside`
  excludes this case from `CrossNodeNeverHelps`;
- a lone request under pipeline parallelism is priced at the pth part of its layers
  (`src/hardware/gpu.rs:135`), though "stages execute sequentially for one request"
  (`src/hardware/cluster.rs:10`);
- whether a pipeline spans nodes is decided from `pp` alone, so that 8-way tensor
  parallelism in two stages on nodes of 8 is priced as one node
  (`src/hardware/cluster.rs:36`);
- an all-to-all of experts pays the latency of the fabric even with one GPU per node;
- a draft model made up from the main one keeps the size of its experts
  (`src/main.rs:1005`);
- the mean KV length of a batch is rounded down, by less than a token;
- `--scale-out-latency-us 5.0` cannot be told from the default (`src/main.rs:517`).

## 7. What is not modelled

- The presets of accelerators and models: data. The checks use small machines and models
  of every kind that the formulas tell apart.
- Percentiles, the mean utilization, histograms' buckets, labels and the layout of
  reports; the model card and what `--validate-kernels` prints.
- Rounding of floating point, and numbers that are not numbers: a time that is NaN would
  break the order of the heap (`src/engine/event.rs:45`), a timestamp that is NaN makes
  `sort_by` panic. Prices are exact fractions, times integers.
- Which numbers a synthetic workload samples, and parts of a second or an hour in trace
  times.
- Arguments outside their range: a block size of 0 (`src/model/kv_cache.rs:39`) or a chunk
  size of 0 (`src/scheduler/chunked_prefill.rs:64`), token counts near 2^32. The
  command line rejects none of them.
- A second call of `run` on the same simulator, which no caller makes.
- Lists in `--model` and `--gpu`: when a study is given no list of its own, `split_csv`
  splits these too (`src/main.rs:553`); the models take them for one name each. And
  `--html` and `--json-out` with the same path, where the second file overwrites the
  first: `html` and `json_out` say only that the options are given, and the files differ.
- Crashes, restarts, lost or repeated messages: the program is one process that persists
  nothing and sends nothing.

## 8. Plan

Done: every component at the level that section 2 describes, their runs, and the proofs
about the block manager, the event queue, the engine (its consistency, its budgets, its life
cycle, that it forgets nobody), its metrics, the workload sources, the kernel table, the prices,
and what the command line writes.

Left, in this order:

1. The first chunks of a tick of the chunked scheduler against its token budget, stated and
   proved as `BatchWithinBudget` is.
2. The disagreements about metrics and prices of section 6 that a run could show.
