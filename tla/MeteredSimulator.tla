-------------------------- MODULE MeteredSimulator --------------------------
(***************************************************************************)
(* The simulator with what it measures: the MetricsCollector that its      *)
(* handlers feed (metrics/collector.rs) and the times that a RequestState  *)
(* keeps for it (workload/request.rs).  The unit of time is a microsecond. *)
(* A histogram is the bag of its samples; one of time per output token     *)
(* keeps a sample as the pair of time and tokens that the code divides.    *)
(***************************************************************************)
EXTENDS SimulatorProperties

\* Every piece of work is given a duration.
ASSUME DurationsAssumption == PrefillLatencies # {} /\ DecodeLatencies # {}

VARIABLES
  clock,             \* clock
  prefill_done_time, \* of each request in flight that has one,
  first_token_time,  \* ... likewise
  metrics            \* the collector

meters == <<clock, prefill_done_time, first_token_time, metrics>>

\* The clock once the popped event's time has come.
Now == clock + Event0.time

-----------------------------------------------------------------------------
(* MetricsCollector *)

NewMetrics ==
  [ttft |-> EmptyBag, prefill_lat |-> EmptyBag, kv_transfer |-> EmptyBag,
   tpot |-> EmptyBag, completions |-> 0, tokens_generated |-> 0,
   preemptions |-> 0, kv_util_samples |-> 0,
   prefill_busy_secs |-> 0, decode_busy_secs |-> 0]

\* The shortest time a histogram tells from none.
AtLeast1us(t) == IF t >= 1 THEN t ELSE 1

\* The samples value[r] of the requests in S.
Samples(S, value) ==
  [v \in {value[r] : r \in S} |-> Cardinality({r \in S : value[r] = v})]

RecordPreemption(m) ==
  [m EXCEPT !.preemptions = @ + 1, !.kv_util_samples = @ + 1]

RecordAdmissions(m, S) ==
  [m EXCEPT !.kv_util_samples = @ + Cardinality(S)]

RecordPrefillLatency(m, secs) ==
  [m EXCEPT !.prefill_lat = @ (+) SetToBag({AtLeast1us(secs)})]

\* record_ttft and record_kv_transfer for the requests in S, which take their
\* first token at done_time.
RecordFirstTokens(m, S, done_time) ==
  LET ttft == [r \in S |-> AtLeast1us(done_time - workload[r].arrival)]
      kv_transfer == [r \in S |-> done_time - prefill_done_time[r]]
  IN  [m EXCEPT !.ttft = @ (+) Samples(S, ttft),
                !.kv_transfer = @ (+) Samples({r \in S : kv_transfer[r] > 0}, kv_transfer)]

\* record_tpot, where there is a second token, and record_completion for the
\* requests in S, which are done at done_time.
RecordCompletions(m, S, first, done_time) ==
  LET tpot == [r \in S |-> <<done_time - first[r], workload[r].output - 1>>]
  IN  [m EXCEPT !.tpot = @ (+) Samples({r \in S : workload[r].output > 1}, tpot),
                !.completions = @ + Cardinality(S),
                !.tokens_generated = @ + Total(S, [r \in S |-> workload[r].output]),
                !.kv_util_samples = @ + Cardinality(S)]

-----------------------------------------------------------------------------
(* The handlers, with what they record *)

MeteredInit ==
  /\ Init
  /\ clock = 0
  /\ prefill_done_time = Empty /\ first_token_time = Empty
  /\ metrics = NewMetrics

\* handle_preemption.  The state goes, and its times with it.
MeterPreemption ==
  /\ TickPreempts
  /\ metrics' = RecordPreemption(metrics)
  /\ \E r \in DOMAIN decoding \ DOMAIN decoding' :
       /\ prefill_done_time' = Without(prefill_done_time, r)
       /\ first_token_time' = Without(first_token_time, r)

\* admit_request, for each request that gets its blocks.
MeterAdmissions ==
  /\ TickAdmits
  /\ metrics' = RecordAdmissions(metrics, prefilling' \ prefilling)
  /\ UNCHANGED <<prefill_done_time, first_token_time>>

\* Mutant of PrefillBusy: from the clock, with the time spent waiting for the GPU.
PrefillBusy_FromClock == busy'["prefill"]

\* The time a handler adds to busy_until.
PrefillBusy == busy'["prefill"] - BusyNow["prefill"]
DecodeBusy == busy'[DecodeGpu] - BusyNow[DecodeGpu]

MeterPrefillStart ==
  /\ HandlePrefillStart
  /\ metrics' = [metrics EXCEPT !.prefill_busy_secs = @ + PrefillBusy]
  /\ UNCHANGED <<prefill_done_time, first_token_time>>

MeterPrefillEnd ==
  /\ PrefillEndsCoupled \/ PrefillEndsDisaggregated
  /\ IF Event0.req \in prefilling
     THEN /\ prefill_done_time' = With(prefill_done_time, Event0.req, Now)
          /\ metrics' = RecordPrefillLatency(metrics, Now - workload[Event0.req].arrival)
     ELSE UNCHANGED <<prefill_done_time, metrics>>
  /\ UNCHANGED first_token_time

\* Mutant of StepDone: counts the tokens when their step starts.
StepDone_AtStart == Now + BusyNow[DecodeGpu]

\* When the tokens of a decode step are there.
StepDone == Now + busy'[DecodeGpu]

\* Mutant of GetFirstToken: asks after the step has been counted.
GetFirstToken_AfterStep == {r \in DOMAIN decoding : NextStep(r) <= 2 * Advance}

\* The requests whose first token a decode step yields.
GetFirstToken == {r \in DOMAIN decoding : decoding[r] = 0}

MeterDecodeStep ==
  /\ DecodeStep
  /\ LET first == [r \in DOMAIN decoding |->
                     IF r \in GetFirstToken THEN StepDone ELSE first_token_time[r]]
         stepped == [metrics EXCEPT !.decode_busy_secs = @ + DecodeBusy]
         started == RecordFirstTokens(stepped, GetFirstToken, StepDone)
     IN  /\ metrics' = RecordCompletions(started, Completed, first, StepDone)
         /\ first_token_time' = [r \in DOMAIN decoding' |-> first[r]]
         /\ prefill_done_time' =
              [r \in DOMAIN prefill_done_time \ Completed |-> prefill_done_time[r]]

\* Handlers that record nothing.
MeterNothing ==
  /\ \/ HandleArrival \/ PrefillContinues \/ DecodeNothing
     \/ \E latency \in TransferLatencies : HandleKvTransfer(latency)
  /\ UNCHANGED <<prefill_done_time, first_token_time, metrics>>

MeteredNext ==
  \/ /\ \/ MeterPreemption \/ MeterAdmissions \/ MeterPrefillStart
        \/ MeterPrefillEnd \/ MeterDecodeStep \/ MeterNothing
     /\ clock' = Now
  \/ (PassesHorizon \/ Returned) /\ UNCHANGED meters

MeteredSpec == MeteredInit /\ [][MeteredNext]_<<vars, meters>>

-----------------------------------------------------------------------------
(* What the measures owe to the simulation *)

\* Histogram::len.
Size(h) == Total(DOMAIN h, h)

\* The requests that have left prefill since they were last admitted, and those
\* of them that have a first token.
LeftPrefill == transferring \cup DOMAIN decoding \cup done
Decoded == {r \in DOMAIN decoding : decoding[r] > 0} \cup done

\* The counters and the sizes of the histograms add up over the lives of all
\* requests: a request is counted as complete once, with all its output tokens
\* and no recomputed ones; it has left prefill once for where it is now and once
\* for every time it was preempted; it has a first token if it was decoded, and
\* one more for each preemption at most; and the pool is sampled whenever a
\* request takes or gives back blocks.
CountersMatchLives ==
  /\ metrics.completions = Cardinality(done)
  /\ metrics.tokens_generated = Total(done, [r \in done |-> workload[r].output])
  /\ Size(metrics.prefill_lat) = Cardinality(LeftPrefill) + metrics.preemptions
  /\ Size(metrics.ttft) \in
       Cardinality(Decoded) .. Cardinality(Decoded) + metrics.preemptions
  /\ metrics.kv_util_samples
       = Cardinality(Running) + 2 * (Cardinality(done) + metrics.preemptions)

\* No GPU is charged with more work than there was time for: what has been
\* charged to it fits between the start and the end of its last piece of work.
BusyFitsTime ==
  LET Until(g) == clock + busy[g]
  IN  IF config.disaggregate
      THEN /\ metrics.prefill_busy_secs <= Until("prefill")
           /\ metrics.decode_busy_secs <= Until("decode")
      ELSE metrics.prefill_busy_secs + metrics.decode_busy_secs <= Until("prefill")

\* A duration that all of these are at least.
Shortest(latencies) == CHOOSE l \in latencies : \A m \in latencies : l <= m

\* No sample is better than the hardware: a first token comes after a prefill
\* chunk and a decode step, and each step after the first takes its time too,
\* also for requests that share steps, were preempted, or join late.
SamplesPossible ==
  LET chunk == Shortest(PrefillLatencies)
      step == Shortest(DecodeLatencies)
  IN  /\ \A t \in DOMAIN metrics.prefill_lat : t >= chunk
      /\ \A t \in DOMAIN metrics.ttft : t >= chunk + step
      /\ \A t \in DOMAIN metrics.kv_transfer : t >= step
      /\ \A s \in DOMAIN metrics.tpot :
           s[1] >= (CeilDiv(s[2] + 1, Advance) - 1) * step
=============================================================================
