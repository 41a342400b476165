-------------------------- MODULE ObservedSimulator -------------------------
(***************************************************************************)
(* The simulator with history variables for what it claims to simulate:    *)
(* the prompt tokens charged to the prefill GPU, the arrival of KV caches  *)
(* at the decode GPU, and the work that was given to each GPU.             *)
(***************************************************************************)
EXTENDS SimulatorProperties

VARIABLES
  charged,    \* prompt tokens charged to the prefill GPU since r's admission
  kv_arrival, \* time from the clock until r's KV cache has been moved, 0 if past
  work        \* of each GPU: its unfinished pieces of work, first given out first

history == <<charged, kv_arrival, work>>

ObservedInit ==
  /\ Init
  /\ charged    = [r \in RequestId |-> 0]
  /\ kv_arrival = [r \in RequestId |-> 0]
  /\ work       = [g \in {"prefill", "decode"} |-> <<>>]

\* Every admission starts the prompt over.
ObserveCharges ==
  charged' = [r \in RequestId |->
    IF r \in prefilling' \ prefilling THEN 0
    ELSE IF Event0.kind = "PrefillStart" /\ Event0.req = r
         THEN charged[r] + Event0.chunk
         ELSE charged[r]]

KvArrivalNow == [r \in RequestId |-> SatSub(kv_arrival[r], Event0.time)]

\* A prefill chunk of a request, or a decode step, from begin to end as counted
\* from the clock.  A begin in the past is 0.
Piece(r, begin, end) == [req |-> r, begin |-> begin, end |-> end]

\* The pieces that are not over before t, with times counted from t.
Unfinished(pieces, t) ==
  LET over == Cardinality({i \in DOMAIN pieces : pieces[i].end < t})
  IN  [i \in 1 .. Len(pieces) - over |->
         LET p == pieces[over + i] IN Piece(p.req, SatSub(p.begin, t), p.end - t)]

WorkNow == [g \in DOMAIN work |-> Unfinished(work[g], Event0.time)]

\* GPU g is given work of this latency for r, which is to end at done_time.
GiveWork(g, r, latency, done_time) ==
  /\ busy'[g] = done_time
  /\ work' = [WorkNow EXCEPT ![g] = Append(@, Piece(r, done_time - latency, done_time))]

ObservePrefillStart ==
  /\ HandlePrefillStart
  /\ \E latency \in PrefillLatencies :
       GiveWork("prefill", Event0.req, latency, PrefillEnd(latency))

ObserveDecodeStep ==
  /\ DecodeStep
  /\ \E latency \in DecodeLatencies :
       GiveWork(DecodeGpu, NoRequest, latency, StepEnd(latency))

\* Handlers that give a GPU no work.
ObserveNoWork ==
  /\ \/ HandleArrival \/ TickPreempts \/ TickAdmits
     \/ PrefillContinues \/ PrefillEndsCoupled \/ PrefillEndsDisaggregated
     \/ DecodeNothing
  /\ work' = WorkNow

ObserveOther ==
  /\ ObservePrefillStart \/ ObserveDecodeStep \/ ObserveNoWork
  /\ ObserveCharges
  /\ kv_arrival' = KvArrivalNow

ObserveTransfer(latency) ==
  /\ HandleKvTransfer(latency)
  /\ kv_arrival' = [KvArrivalNow EXCEPT ![Event0.req] = latency]
  /\ work' = WorkNow
  /\ UNCHANGED charged

ObservedNext ==
  \/ ObserveOther
  \/ \E latency \in TransferLatencies : ObserveTransfer(latency)
  \/ (PassesHorizon \/ Returned) /\ UNCHANGED history

ObservedSpec ==
  ObservedInit /\ [][ObservedNext]_<<vars, history>>

-----------------------------------------------------------------------------
ChargedInFull ==
  \A r \in transferring \cup DOMAIN decoding : charged[r] = workload[r].prompt

\* Under the continuous scheduler a request leaves prefill with its whole prompt
\* charged to the prefill GPU, every time it is admitted: preemption recomputes
\* from scratch (handle_prefill_start, handle_prefill_done).
WholePromptCharged == config.scheduler = "continuous" => ChargedInFull

\* Under the chunked scheduler the chunks of a prompt leave no token out.
ChunksCoverPrompt == config.scheduler = "chunked" => ChargedInFull

\* A GPU does one thing at a time: of the prefill chunks and decode steps given to
\* it, of whatever durations and by whichever handler, none begins before those
\* given out earlier have ended; and no chunk is reported done at a time other
\* than the end of that request's own piece of work (handle_prefill_start,
\* handle_batch_decode_step and the GPU that they share in coupled mode).
WorkTakesTurns ==
  /\ \A g \in DOMAIN work : \A i, j \in DOMAIN work[g] :
       i < j => work[g][i].end <= work[g][j].begin
  /\ \A i \in Pending("PrefillDone") : \E j \in DOMAIN work["prefill"] :
       /\ work["prefill"][j].req = queue[i].req
       /\ work["prefill"][j].end = queue[i].time

\* A decode step only works on requests whose KV cache has arrived.
DecodeWaitsForKv ==
  [][DecodeStep =>
       \A r \in DOMAIN decoding : kv_arrival[r] <= Event0.time]_<<vars, history>>
=============================================================================
