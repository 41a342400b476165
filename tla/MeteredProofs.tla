--------------------------- MODULE MeteredProofs ----------------------------
(***************************************************************************)
(* What a run says it did, and what it measured: proofs about              *)
(* ObservedSimulator.tla, MeteredSimulator.tla and RunReport.tla from the  *)
(* invariant of SimulatorProofs.tla.                                       *)
(*                                                                         *)
(* The first part shows that under the continuous scheduler the GPU is     *)
(* charged with whole prompts, the second that a GPU does one thing at a   *)
(* time, the third that no GPU is charged with more time than there was,   *)
(* the fourth that the counters add up over the lives of requests, the     *)
(* fifth that energy is within its envelope, the last that no sample is    *)
(* better than the hardware allows.                                        *)
(***************************************************************************)
EXTENDS RunReport, ObservedSimulator, SimulatorProofs

-----------------------------------------------------------------------------
(* What is pending, and for whom *)

\* The prefill events of q are for requests of S.
PrefillsOf(q, S) ==
  \A e \in Carries(q) : e[1] \in {"PrefillStart", "PrefillDone"} => e[2] \in S

\* A prefill event is pending for requests in prefill only.
LEMMA LedgerCarries ==
  ASSUME NEW q, NEW arr, NEW pre, NEW xfer, NEW n, Ledger(q, arr, pre, xfer, n)
  PROVE  PrefillsOf(q, pre)
<1> SUFFICES ASSUME NEW e \in Carries(q), e[1] \in {"PrefillStart", "PrefillDone"}
             PROVE  e[2] \in pre
  BY DEF PrefillsOf
<1> DEFINE r == e[2]
<1>1. PICK i \in DOMAIN q : q[i].kind = e[1] /\ q[i].req = r
  BY DEF Carries, Carried
<1>2. q \in Seq(SimEvents)
  BY DEF Ledger
<1>3. q[i] \in SimEvents
  BY <1>1, <1>2, LenProperties, ElementOfSeq
<1>4. r \in Anyone
  BY <1>1, <1>3, Accounts
<1>5. i \in Matching(q, Pre(r))
  BY <1>1 DEF Matching, Pre
<1> HIDE DEF r
<1>6. Count(q, Pre(r)) # 0
  BY <1>2, <1>5, CountPositive
<1> QED
  BY <1>4, <1>6 DEF Ledger, One, r

\* Admissions push the first chunks of requests that they bring into prefill,
\* and start those requests' progress over.
LEMMA AdmitCarries ==
  ASSUME waiting \in Seq(RequestId), InLine \cap prefilling = {},
         DOMAIN prefill_progress = prefilling,
         Rest \in Seq(SimEvents),
         NEW admit, \A i \in DOMAIN admit : admit[i] \in Nat
  PROVE  LET s == AdmitAll(admit)
         IN  /\ s.prefilling \subseteq prefilling \cup InLine
             /\ prefilling \subseteq s.prefilling
             /\ \A r \in prefilling : s.progress[r] = prefill_progress[r]
             /\ \A r \in s.prefilling \ prefilling : s.progress[r] = 0
             /\ \A e \in Carries(s.queue) \ Carries(Rest) :
                  \E i \in DOMAIN admit \cap DOMAIN waiting :
                    e = <<"PrefillStart", waiting[i], admit[i]>>
<1> DEFINE n == Len(waiting)
           New(i) == <<"PrefillStart", waiting[i], admit[i]>>
           Keeps(t) ==
             /\ DOMAIN t = LoopParts /\ t.queue \in Seq(SimEvents)
             /\ t.prefilling \subseteq prefilling \cup InLine
             /\ prefilling \subseteq t.prefilling
             /\ DOMAIN t.progress = t.prefilling
             /\ \A r \in prefilling : t.progress[r] = prefill_progress[r]
             /\ \A r \in t.prefilling \ prefilling : t.progress[r] = 0
             /\ \A e \in Carries(t.queue) \ Carries(Rest) :
                  \E i \in DOMAIN admit \cap DOMAIN waiting : e = New(i)
<1>1. n \in Nat /\ DOMAIN waiting = 1 .. n /\ \A i \in 1 .. n : waiting[i] \in RequestId
  BY LenProperties, ElementOfSeq
<1>2. PICK s : /\ s[0] = LoopStart
               /\ \A i \in 1 .. n :
                    s[i] = IF i \in DOMAIN admit
                           THEN AdmitRequest(s[i - 1], waiting[i], admit[i])
                           ELSE s[i - 1]
               /\ AdmitAll(admit) = s[n]
  BY <1>1, LoopTurns
<1> HIDE DEF n
<1> DEFINE P == {i \in Nat : i <= n => Keeps(s[i])}
<1>3. 0 \in P
  BY <1>2 DEF LoopStart, LoopParts
<1>4. ASSUME NEW m \in Nat, m \in P PROVE m + 1 \in P
  <2> SUFFICES ASSUME m + 1 <= n PROVE Keeps(s[m + 1])
    OBVIOUS
  <2>1. m + 1 \in 1 .. n /\ (m + 1) - 1 = m /\ Keeps(s[m])
    BY <1>1, <1>4
  <2>2. CASE m + 1 \notin DOMAIN admit
    BY <1>2, <2>1, <2>2
  <2>3. CASE m + 1 \in DOMAIN admit
    <3> DEFINE r == waiting[m + 1]
               c == admit[m + 1]
               e == StartPrefill(0, r, c)
               q == s[m].queue
               p == Push(q, e)
    <3>1. r \in RequestId /\ r \in InLine /\ c \in Nat /\ Carried(e) = New(m + 1)
          /\ m + 1 \in DOMAIN admit \cap DOMAIN waiting
      BY <1>1, <2>1, <2>3 DEF InLine, Carried, StartPrefill, Event
    <3>2. e \in SimEvents
      BY <3>1 DEF StartPrefill, Event, SimEvents, Events, Anyone, Kinds
    <3>3. s[m + 1] = AdmitRequest(s[m], r, c)
      BY <1>2, <2>1, <2>3
    <3> HIDE DEF e
    <3>4. q \in Seq(SimEvents)
      BY <2>1
    <3> HIDE DEF q
    <3>5. p \in Seq(SimEvents) /\ Carries(p) = Carries(q) \cup {Carried(e)}
      BY <3>2, <3>4, PushShape, PushCarries
    <3> HIDE DEF r, c, New, p
    <3>6. CASE s[m + 1] = Refuse(s[m], r)
      <4>1. /\ DOMAIN s[m + 1] = LoopParts /\ s[m + 1].queue = s[m].queue
            /\ s[m + 1].prefilling = s[m].prefilling
            /\ s[m + 1].progress = s[m].progress
        BY <2>1, <3>6 DEF Refuse, LoopParts
      <4> QED
        BY <2>1, <4>1
    <3>7. CASE s[m + 1] = Accept(s[m], r, c)
      <4>1. /\ DOMAIN s[m + 1] = LoopParts /\ s[m + 1].queue = p
            /\ s[m + 1].prefilling = s[m].prefilling \cup {r}
            /\ s[m + 1].progress = With(s[m].progress, r, 0)
        BY <2>1, <3>7 DEF Accept, LoopParts, e, p, q
      <4>2. r \notin prefilling
        BY <3>1
      <4>3. /\ DOMAIN s[m + 1].progress = DOMAIN s[m].progress \cup {r}
            /\ s[m + 1].progress[r] = 0
            /\ \A x \in DOMAIN s[m].progress \ {r} : s[m + 1].progress[x] = s[m].progress[x]
        BY <4>1 DEF With
      <4> QED
        BY <2>1, <3>1, <3>5, <4>1, <4>2, <4>3 DEF q
    <3> QED
      BY <3>3, <3>6, <3>7 DEF AdmitRequest
  <2> QED
    BY <2>2, <2>3
<1>5. n \in P
  <2> HIDE DEF P
  <2> QED
    BY <1>1, <1>3, <1>4, SetInduction
<1> QED
  BY <1>1, <1>2, <1>5

-----------------------------------------------------------------------------
(* The continuous scheduler charges whole prompts *)

\* What a pending prefill event of a continuous run says: it starts the whole
\* prompt, of which nothing is charged or counted yet, or ends it, with all of
\* it charged and counted.
WholeChunks(q, w, charges, progress) ==
  \A e \in Carries(q) :
    LET r == e[2]
    IN  /\ e[1] = "PrefillStart" => /\ e[3] = w[r].prompt
                                    /\ charges[r] = 0 /\ progress[r] = 0
        /\ e[1] = "PrefillDone" => /\ charges[r] = w[r].prompt
                                   /\ progress[r] = w[r].prompt

\* The invariant: WholePromptCharged holds because of what prefill events say.
ChargesAddUp ==
  config.scheduler = "continuous" =>
    WholeChunks(queue, workload, charged, prefill_progress) /\ ChargedInFull

\* Arrivals and the first tick are no prefill events.
LEMMA ChargesInit == ObservedInit => ChargesAddUp
<1> SUFFICES ASSUME ObservedInit
             PROVE  WholeChunks(queue, workload, charged, prefill_progress) /\ ChargedInFull
  BY DEF ChargesAddUp
<1> DEFINE q == [r \in RequestId |-> Arrival(workload[r].arrival, r)]
<1>1. queue = Push(q, Tick(0)) /\ workload \in Workloads
      /\ transferring = {} /\ DOMAIN decoding = {}
  BY DEF ObservedInit, Init, Empty
<1>2. q \in Seq(SimEvents)
  BY <1>1, ArrivalsBooked DEF Ledger
<1>3. Tick(0) \in SimEvents
  BY DEF Tick, Event, SimEvents, Events, Anyone, Kinds
<1>4. \A e \in Carries(q) : e[1] = "RequestArrival"
  BY DEF Carries, Carried, Arrival, Event
<1> HIDE DEF q
<1>5. Carries(queue) = Carries(q) \cup {Carried(Tick(0))}
  BY <1>1, <1>2, <1>3, PushCarries
<1>6. Carried(Tick(0))[1] = "SchedulerTick"
  BY DEF Carried, Tick, Event
<1> QED
  BY <1>1, <1>4, <1>5, <1>6 DEF WholeChunks, ChargedInFull

\* What a handler finds: the popped event says as much as the pending ones.
LEMMA ChargesFound ==
  ASSUME SimInv, ChargesAddUp, config.scheduler = "continuous",
         NEW kind, Pops(kind)
  PROVE  /\ ChargedInFull /\ workload' = workload /\ config' = config
         /\ Rest \in Seq(SimEvents) /\ Event0 \in SimEvents /\ Event0.kind = kind
         /\ WholeChunks(Rest, workload, charged, prefill_progress)
         /\ kind = "PrefillStart" =>
              /\ Event0.chunk = workload[Event0.req].prompt
              /\ charged[Event0.req] = 0 /\ prefill_progress[Event0.req] = 0
         /\ kind = "PrefillDone" =>
              /\ charged[Event0.req] = workload[Event0.req].prompt
              /\ prefill_progress[Event0.req] = workload[Event0.req].prompt
<1>1. queue \in Seq(SimEvents) /\ Ordered(queue) /\ queue # <<>>
  BY DEF SimInv, Pops
<1>2. /\ Event0 \in SimEvents /\ Event0.kind = kind
      /\ workload' = workload /\ config' = config
  BY Popped
<1>3. Rest \in Seq(SimEvents)
  BY <1>1, PopEffect DEF Rest, SimEvents
<1>4. Carried(Event0) \in Carries(queue) /\ Carries(Rest) \subseteq Carries(queue)
  BY <1>1, PopCarries DEF Rest, Event0, SimEvents
<1>5. WholeChunks(queue, workload, charged, prefill_progress) /\ ChargedInFull
  BY DEF ChargesAddUp
<1>6. /\ Carried(Event0)[1] = kind /\ Carried(Event0)[2] = Event0.req
      /\ Carried(Event0)[3] = Event0.chunk
  BY <1>2 DEF Carried
<1> QED
  BY <1>2, <1>3, <1>4, <1>5, <1>6 DEF WholeChunks

\* The queue of a handler that pushes at most one event, which is no prefill
\* event, speaks of the same prefills.
LEMMA WholePush ==
  ASSUME NEW q \in Seq(SimEvents), NEW w, NEW charges, NEW progress,
         WholeChunks(q, w, charges, progress), NEW e \in SimEvents,
         e.kind \notin {"PrefillStart", "PrefillDone"}
  PROVE  WholeChunks(Push(q, e), w, charges, progress) /\ Push(q, e) \in Seq(SimEvents)
<1>1. Carries(Push(q, e)) = Carries(q) \cup {Carried(e)} /\ Push(q, e) \in Seq(SimEvents)
  BY PushCarries, PushShape
<1>2. Carried(e)[1] = e.kind
  BY DEF Carried
<1> QED
  BY <1>1, <1>2 DEF WholeChunks

\* What is said of requests in prefill stays true as long as their charges and
\* their progress stay.
LEMMA WholeSame ==
  ASSUME NEW q, NEW S, NEW w, NEW charges, NEW progress, NEW charges1, NEW progress1,
         WholeChunks(q, w, charges, progress),
         PrefillsOf(q, S),
         \A r \in S : charges1[r] = charges[r] /\ progress1[r] = progress[r]
  PROVE  WholeChunks(q, w, charges1, progress1)
BY DEF WholeChunks, PrefillsOf

\* A turn of the loop that neither starts nor ends a chunk keeps the charges,
\* when it pushes no prefill event and brings nobody new into transfer or decode.
LEMMA OthersCharge ==
  ASSUME SimInv, SimInv', ChargesAddUp, ~ ended',
         NEW kind \in {"RequestArrival", "KvTransfer", "BatchDecodeStep", "SchedulerTick"},
         Pops(kind), prefilling' = prefilling, prefill_progress' = prefill_progress,
         \A r \in RequestId : charged'[r] = charged[r],
         transferring' \cup DOMAIN decoding' \subseteq transferring \cup DOMAIN decoding,
         config.scheduler = "continuous" /\ Rest \in Seq(SimEvents)
           /\ WholeChunks(Rest, workload, charged, prefill_progress)
             => WholeChunks(queue', workload, charged, prefill_progress)
  PROVE  ChargesAddUp'
<1>1. config' = config
  BY Popped
<1> SUFFICES ASSUME config.scheduler = "continuous"
             PROVE  WholeChunks(queue', workload', charged', prefill_progress') /\ ChargedInFull'
  BY <1>1 DEF ChargesAddUp
<1>2. /\ Rest \in Seq(SimEvents) /\ WholeChunks(Rest, workload, charged, prefill_progress)
      /\ ChargedInFull /\ workload' = workload
  BY ChargesFound
<1>3. WholeChunks(queue', workload, charged, prefill_progress)
  BY <1>2
<1>4. /\ prefilling' \subseteq RequestId
      /\ transferring' \cup DOMAIN decoding' \subseteq RequestId
  BY DEF SimInv, Placed
<1>5. PrefillsOf(queue', prefilling')
  <2>1. Ledger(queue, RequestId \ Gone, prefilling, transferring, One(decode_scheduled))'
    BY DEF SimInv, Books
  <2> QED
    BY <2>1, LedgerCarries
<1>6. \A r \in prefilling' :
        charged'[r] = charged[r] /\ prefill_progress'[r] = prefill_progress[r]
  BY <1>4
<1>7. WholeChunks(queue', workload', charged', prefill_progress')
  <2> DEFINE q == queue'
             S == prefilling'
             charges == charged'
             progress == prefill_progress'
  <2>1. workload' = workload
    BY <1>2
  <2>2. /\ WholeChunks(q, workload, charged, prefill_progress)
        /\ PrefillsOf(q, S)
        /\ \A r \in S : charges[r] = charged[r] /\ progress[r] = prefill_progress[r]
    BY <1>3, <1>5, <1>6
  <2> HIDE DEF q, S, charges, progress
  <2>3. WholeChunks(q, workload, charges, progress)
    BY <2>2, WholeSame
  <2> QED
    BY <2>1, <2>3 DEF q, charges, progress
<1>8. ChargedInFull'
  BY <1>2, <1>4 DEF ChargedInFull
<1> QED
  BY <1>7, <1>8

\* The continuous scheduler admits a request with its whole prompt as the chunk.
LEMMA WholeAdmission ==
  ASSUME SimInv, SimInv', ChargesAddUp, TickAdmits, ObserveCharges
  PROVE  ChargesAddUp'
<1>1. PICK s : /\ s = AdmitAll(Admitted)
               /\ prefilling' = s.prefilling /\ prefill_progress' = s.progress
               /\ queue' = s.queue
  BY DEF TickAdmits
<1>2. /\ Pops("SchedulerTick") /\ transferring' = transferring /\ decoding' = decoding
  BY DEF TickAdmits
<1>3. /\ config' = config /\ ~ ended'
      /\ Event0.kind = "SchedulerTick"
  BY <1>2, Popped
<1> SUFFICES ASSUME config.scheduler = "continuous"
             PROVE  WholeChunks(queue', workload', charged', prefill_progress') /\ ChargedInFull'
  BY <1>3 DEF ChargesAddUp
<1>4. /\ Rest \in Seq(SimEvents) /\ WholeChunks(Rest, workload, charged, prefill_progress)
      /\ ChargedInFull /\ workload' = workload
  BY <1>2, ChargesFound
<1>5. Placed /\ Placed' /\ workload \in Workload
  BY WorkloadsTyped DEF SimInv
<1>6. \A i \in DOMAIN Admitted : Admitted[i] \in Nat
  BY <1>5, AdmittedType DEF Placed, Shares, Balanced
<1>7. /\ waiting \in Seq(RequestId) /\ InLine \cap prefilling = {}
      /\ DOMAIN prefill_progress = prefilling
  BY <1>5 DEF Placed, Line, Running
<1>8. /\ s.prefilling \subseteq prefilling \cup InLine
      /\ prefilling \subseteq s.prefilling
      /\ \A r \in prefilling : s.progress[r] = prefill_progress[r]
      /\ \A r \in s.prefilling \ prefilling : s.progress[r] = 0
      /\ \A e \in Carries(s.queue) \ Carries(Rest) :
           \E i \in DOMAIN Admitted \cap DOMAIN waiting :
             e = <<"PrefillStart", waiting[i], Admitted[i]>>
  <2> DEFINE admit == Admitted
  <2>1. \A i \in DOMAIN admit : admit[i] \in Nat
    BY <1>6
  <2>2. s = AdmitAll(admit)
    BY <1>1
  <2> HIDE DEF admit
  <2>3. /\ s.prefilling \subseteq prefilling \cup InLine
        /\ prefilling \subseteq s.prefilling
        /\ \A r \in prefilling : s.progress[r] = prefill_progress[r]
        /\ \A r \in s.prefilling \ prefilling : s.progress[r] = 0
        /\ \A e \in Carries(s.queue) \ Carries(Rest) :
             \E i \in DOMAIN admit \cap DOMAIN waiting :
               e = <<"PrefillStart", waiting[i], admit[i]>>
    BY <1>4, <1>7, <2>1, <2>2, AdmitCarries
  <2> QED
    BY <2>3 DEF admit
<1>9. \A i \in DOMAIN Admitted : Admitted[i] = workload[waiting[i]].prompt
  BY DEF Admitted
<1>10. \A r \in RequestId :
         /\ r \in prefilling' \ prefilling => charged'[r] = 0
         /\ r \notin prefilling' \ prefilling => charged'[r] = charged[r]
  BY <1>3 DEF ObserveCharges
<1>11. PrefillsOf(queue', prefilling') /\ PrefillsOf(Rest, prefilling)
  <2>1. Ledger(queue, RequestId \ Gone, prefilling, transferring, One(decode_scheduled))'
    BY <1>3 DEF SimInv, Books
  <2>2. Ledger(Rest, RequestId \ Gone, prefilling, transferring, One(decode_scheduled))
    BY <1>2, Popped
  <2> QED
    BY <2>1, <2>2, LedgerCarries
<1>12. WholeChunks(queue', workload', charged', prefill_progress')
  <2> SUFFICES ASSUME NEW e \in Carries(queue'),
                      e[1] \in {"PrefillStart", "PrefillDone"}
               PROVE  /\ e[1] = "PrefillStart" =>
                           /\ e[3] = workload[e[2]].prompt
                           /\ charged'[e[2]] = 0 /\ prefill_progress'[e[2]] = 0
                      /\ e[1] = "PrefillDone" =>
                           /\ charged'[e[2]] = workload[e[2]].prompt
                           /\ prefill_progress'[e[2]] = workload[e[2]].prompt
    BY <1>4 DEF WholeChunks
  <2>1. CASE e \in Carries(Rest)
    <3>1. e[2] \in prefilling /\ e[2] \in RequestId
      BY <1>5, <1>11, <2>1 DEF PrefillsOf, Placed
    <3>2. charged'[e[2]] = charged[e[2]]
          /\ prefill_progress'[e[2]] = prefill_progress[e[2]]
      BY <1>1, <1>8, <1>10, <3>1
    <3> QED
      BY <1>4, <2>1, <3>2 DEF WholeChunks
  <2>2. CASE e \notin Carries(Rest)
    <3>1. PICK i \in DOMAIN Admitted \cap DOMAIN waiting :
                 e = <<"PrefillStart", waiting[i], Admitted[i]>>
      BY <1>1, <1>8, <2>2
    <3>2. e[2] = waiting[i] /\ e[1] = "PrefillStart" /\ e[3] = workload[e[2]].prompt
      BY <1>9, <3>1
    <3>3. e[2] \in prefilling' \ prefilling /\ e[2] \in RequestId
      BY <1>5, <1>7, <1>11, <3>1, <3>2 DEF PrefillsOf, Placed, InLine
    <3>4. charged'[e[2]] = 0 /\ prefill_progress'[e[2]] = 0
      BY <1>1, <1>8, <1>10, <3>3
    <3> QED
      BY <3>2, <3>4
  <2> QED
    BY <2>1, <2>2
<1>13. ChargedInFull'
  <2>1. (transferring \cup DOMAIN decoding) \cap prefilling' = {}
        /\ transferring \cup DOMAIN decoding \subseteq RequestId
    BY <1>2, <1>5 DEF Placed
  <2> QED
    BY <1>2, <1>4, <1>10, <2>1 DEF ChargedInFull
<1> QED
  BY <1>12, <1>13

\* A chunk that starts charges the whole prompt, and its end event says so.
LEMMA WholeStart ==
  ASSUME SimInv, ChargesAddUp, HandlePrefillStart, ObserveCharges
  PROVE  ChargesAddUp'
<1> DEFINE r == Event0.req
<1>1. PICK latency \in PrefillLatencies :
        queue' = Push(Rest, EndPrefill(PrefillEnd(latency), r))
  BY DEF HandlePrefillStart
<1>2. /\ Pops("PrefillStart") /\ prefilling' = prefilling
      /\ prefill_progress' = With(prefill_progress, r, Progress(r) + Event0.chunk)
      /\ transferring' = transferring /\ decoding' = decoding
  BY DEF HandlePrefillStart
<1>3. /\ config' = config /\ Event0.kind = "PrefillStart" /\ r \in prefilling
      /\ Ledger(Rest, RequestId \ Gone, prefilling \ {r}, transferring,
                One(decode_scheduled))
      /\ BusyNow \in [Gpus -> Nat]
  BY <1>2, Popped
<1> SUFFICES ASSUME config.scheduler = "continuous"
             PROVE  WholeChunks(queue', workload', charged', prefill_progress') /\ ChargedInFull'
  BY <1>3 DEF ChargesAddUp
<1>4. /\ Rest \in Seq(SimEvents) /\ WholeChunks(Rest, workload, charged, prefill_progress)
      /\ ChargedInFull /\ workload' = workload
      /\ Event0.chunk = workload[r].prompt
      /\ charged[r] = 0 /\ prefill_progress[r] = 0
  BY <1>2, ChargesFound
<1>5. /\ Placed /\ r \in RequestId /\ workload[r].prompt \in Nat
      /\ r \notin transferring \cup DOMAIN decoding
      /\ transferring \cup DOMAIN decoding \subseteq RequestId
  BY <1>3, WorkloadsTyped DEF SimInv, Placed
<1>6. EndPrefill(PrefillEnd(latency), r) \in SimEvents
  <2>1. PrefillEnd(latency) \in Nat
    BY <1>3, SimulatorAssumption DEF PrefillEnd, Gpus
  <2> QED
    BY <1>5, <2>1 DEF EndPrefill, Event, SimEvents, Events, Anyone, Kinds
<1>7. /\ \A x \in RequestId \ {r} : charged'[x] = charged[x]
      /\ charged'[r] = workload[r].prompt
  BY <1>2, <1>3, <1>4, <1>5 DEF ObserveCharges
<1>8. /\ \A x \in prefilling \ {r} : prefill_progress'[x] = prefill_progress[x]
      /\ prefill_progress'[r] = workload[r].prompt
  BY <1>2, <1>3, <1>4, <1>5 DEF With, Progress, Placed
<1> DEFINE e == EndPrefill(PrefillEnd(latency), r)
           charges == charged'
           progress == prefill_progress'
<1>9. Carries(queue') = Carries(Rest) \cup {<<"PrefillDone", r, 0>>}
  <2>1. Carried(e) = <<"PrefillDone", r, 0>>
    BY DEF Carried, EndPrefill, Event
  <2> HIDE DEF e
  <2> QED
    BY <1>1, <1>4, <1>6, <2>1, PushCarries DEF e
<1>10. WholeChunks(Rest, workload, charges, progress)
  <2>1. PrefillsOf(Rest, prefilling \ {r})
    BY <1>3, LedgerCarries
  <2>2. \A x \in prefilling \ {r} :
          charges[x] = charged[x] /\ progress[x] = prefill_progress[x]
    BY <1>5, <1>7, <1>8 DEF Placed
  <2> HIDE DEF charges, progress, r
  <2> QED
    BY <1>4, <2>1, <2>2, WholeSame
<1>11. WholeChunks(queue', workload, charges, progress)
  BY <1>7, <1>8, <1>9, <1>10 DEF WholeChunks
<1>12. ChargedInFull'
  BY <1>2, <1>4, <1>5, <1>7 DEF ChargedInFull
<1> QED
  BY <1>4, <1>11, <1>12

\* A chunk that ends leaves nothing to do: it was the whole prompt.
LEMMA WholeEnd ==
  ASSUME SimInv, ChargesAddUp, config.scheduler = "continuous", Pops("PrefillDone")
  PROVE  /\ Event0.req \in prefilling
         /\ Remaining(Event0.req) = 0
         /\ charged[Event0.req] = workload[Event0.req].prompt
<1> DEFINE r == Event0.req
<1>1. r \in prefilling
  BY Popped
<1>2. charged[r] = workload[r].prompt /\ prefill_progress[r] = workload[r].prompt
  BY ChargesFound
<1>3. workload[r].prompt \in Nat /\ DOMAIN prefill_progress = prefilling
  BY <1>1, WorkloadsTyped DEF SimInv, Placed
<1>4. Remaining(r) = 0
  BY <1>1, <1>2, <1>3 DEF Remaining, Progress, SatSub
<1> QED
  BY <1>1, <1>2, <1>4

\* So a request leaves prefill, for the decode batch or for its transfer, with
\* its prompt charged in full.
LEMMA WholeLeaves ==
  ASSUME SimInv, SimInv', ChargesAddUp, ObserveCharges,
         PrefillEndsCoupled \/ PrefillEndsDisaggregated
  PROVE  ChargesAddUp'
<1> DEFINE r == Event0.req
<1>1. /\ Pops("PrefillDone") /\ prefill_progress' = Without(prefill_progress, r)
      /\ \/ queue' = Rest \/ \E t \in Nat : queue' = Push(Rest, StepDecode(t))
         \/ r \in prefilling /\ queue' = Push(Rest, TransferKv(0, r))
      /\ r \in prefilling => prefilling' = prefilling \ {r}
      /\ transferring' \cup DOMAIN decoding'
           \subseteq transferring \cup DOMAIN decoding \cup {r}
  BY DEF PrefillEndsCoupled, PrefillEndsDisaggregated, ScheduleDecode, With
<1>2. /\ config' = config /\ Event0.kind = "PrefillDone" /\ r \in prefilling
      /\ Ledger(Rest, RequestId \ Gone, prefilling \ {r}, transferring,
                One(decode_scheduled))
  BY <1>1, Popped
<1> SUFFICES ASSUME config.scheduler = "continuous"
             PROVE  WholeChunks(queue', workload', charged', prefill_progress') /\ ChargedInFull'
  BY <1>2 DEF ChargesAddUp
<1>3. /\ Rest \in Seq(SimEvents) /\ WholeChunks(Rest, workload, charged, prefill_progress)
      /\ ChargedInFull /\ workload' = workload
  BY <1>1, ChargesFound
<1>4. charged[r] = workload[r].prompt
  BY <1>1, WholeEnd
<1>5. /\ r \in RequestId /\ prefilling \subseteq RequestId
      /\ DOMAIN prefill_progress = prefilling
      /\ transferring' \cup DOMAIN decoding' \subseteq RequestId
  BY <1>2 DEF SimInv, Placed
<1>6. \A x \in RequestId : charged'[x] = charged[x]
  BY <1>1, <1>2 DEF ObserveCharges
<1>7. \A x \in prefilling \ {r} : prefill_progress'[x] = prefill_progress[x]
  BY <1>1, <1>5 DEF Without
<1>8. WholeChunks(queue', workload, charged, prefill_progress)
  <2>1. ASSUME NEW t \in Nat PROVE StepDecode(t) \in SimEvents
    BY DEF StepDecode, Event, SimEvents, Events, Anyone, Kinds
  <2>2. TransferKv(0, r) \in SimEvents
    BY <1>5 DEF TransferKv, Event, SimEvents, Events, Anyone, Kinds
  <2>3. \A t \in Nat : StepDecode(t).kind = "BatchDecodeStep"
    BY DEF StepDecode, Event
  <2>4. TransferKv(0, r).kind = "KvTransfer"
    BY DEF TransferKv, Event
  <2>5. CASE queue' = Rest
    BY <1>3, <2>5
  <2>6. ASSUME NEW t \in Nat, queue' = Push(Rest, StepDecode(t))
        PROVE  WholeChunks(queue', workload, charged, prefill_progress)
    <3> DEFINE e == StepDecode(t)
    <3>1. e \in SimEvents /\ e.kind \notin {"PrefillStart", "PrefillDone"}
      BY <2>1, <2>3
    <3> HIDE DEF e
    <3>2. WholeChunks(Push(Rest, e), workload, charged, prefill_progress)
      BY <1>3, <3>1, WholePush
    <3> QED
      BY <2>6, <3>2 DEF e
  <2>7. CASE queue' = Push(Rest, TransferKv(0, r))
    <3> DEFINE e == TransferKv(0, r)
    <3>1. e \in SimEvents /\ e.kind \notin {"PrefillStart", "PrefillDone"}
      BY <2>2, <2>4
    <3> HIDE DEF e
    <3>2. WholeChunks(Push(Rest, e), workload, charged, prefill_progress)
      BY <1>3, <3>1, WholePush
    <3> QED
      BY <2>7, <3>2 DEF e
  <2> QED
    BY <1>1, <2>5, <2>6, <2>7
<1>9. WholeChunks(queue', workload, charged', prefill_progress')
  <2> DEFINE q == queue'
             charges == charged'
             progress == prefill_progress'
             S == prefilling \ {r}
  <2>1. PrefillsOf(q, S)
    <3>1. Ledger(queue, RequestId \ Gone, prefilling, transferring, One(decode_scheduled))'
      BY <1>1, Popped DEF SimInv, Books
    <3> QED
      BY <1>1, <1>2, <3>1, LedgerCarries
  <2>2. \A x \in S : charges[x] = charged[x] /\ progress[x] = prefill_progress[x]
    BY <1>5, <1>6, <1>7
  <2> HIDE DEF q, charges, progress, S
  <2>3. WholeChunks(q, workload, charges, progress)
    BY <1>8, <2>1, <2>2, WholeSame DEF q
  <2> QED
    BY <2>3 DEF q, charges, progress
<1>10. ChargedInFull'
  BY <1>1, <1>3, <1>4, <1>5, <1>6 DEF ChargedInFull
<1> QED
  BY <1>3, <1>9, <1>10

\* Pushes of the other handlers.
LEMMA OtherPushes ==
  ASSUME NEW q \in Seq(SimEvents), NEW w, NEW charges, NEW progress,
         WholeChunks(q, w, charges, progress), NEW t \in Nat
  PROVE  /\ WholeChunks(Push(q, Tick(t)), w, charges, progress)
         /\ WholeChunks(Push(q, StepDecode(t)), w, charges, progress)
         /\ WholeChunks(Push(Push(q, StepDecode(t)), Tick(t)), w, charges, progress)
<1> DEFINE e == Tick(t)
           d == StepDecode(t)
<1>1. /\ e \in SimEvents /\ e.kind \notin {"PrefillStart", "PrefillDone"}
      /\ d \in SimEvents /\ d.kind \notin {"PrefillStart", "PrefillDone"}
  BY DEF Tick, StepDecode, Event, SimEvents, Events, Anyone, Kinds
<1> HIDE DEF e, d
<1>2. WholeChunks(Push(q, e), w, charges, progress)
  BY <1>1, WholePush
<1>3. WholeChunks(Push(q, d), w, charges, progress) /\ Push(q, d) \in Seq(SimEvents)
  BY <1>1, WholePush
<1>4. WholeChunks(Push(Push(q, d), e), w, charges, progress)
  BY <1>1, <1>3, WholePush
<1> QED
  BY <1>2, <1>3, <1>4 DEF e, d

\* The handlers that charge nothing and admit nobody.
LEMMA OthersKeep ==
  ASSUME SimInv, SimInv', ChargesAddUp,
         \/ /\ HandleArrival \/ TickPreempts \/ DecodeNothing \/ DecodeStep
            /\ ObserveCharges
         \/ /\ \E latency \in TransferLatencies : HandleKvTransfer(latency)
            /\ UNCHANGED charged
  PROVE  ChargesAddUp'
<1>1. CASE HandleArrival /\ ObserveCharges
  <2>1. /\ Pops("RequestArrival") /\ queue' = Push(Rest, Tick(0))
        /\ prefilling' = prefilling /\ prefill_progress' = prefill_progress
        /\ transferring' = transferring /\ decoding' = decoding
    BY <1>1 DEF HandleArrival
  <2>2. ~ ended' /\ Event0.kind = "RequestArrival"
    BY <2>1, Popped
  <2>3. \A r \in RequestId : charged'[r] = charged[r]
    BY <1>1, <2>1, <2>2 DEF ObserveCharges
  <2>4. Rest \in Seq(SimEvents) /\ WholeChunks(Rest, workload, charged, prefill_progress)
          => WholeChunks(queue', workload, charged, prefill_progress)
    BY <2>1, OtherPushes
  <2> QED
    BY <2>1, <2>2, <2>3, <2>4, OthersCharge
<1>2. CASE TickPreempts /\ ObserveCharges
  <2>1. /\ Pops("SchedulerTick") /\ queue' = Push(Rest, Tick(0))
        /\ prefilling' = prefilling /\ prefill_progress' = prefill_progress
        /\ transferring' = transferring /\ DOMAIN decoding' \subseteq DOMAIN decoding
    BY <1>2 DEF TickPreempts, Without
  <2>2. ~ ended' /\ Event0.kind = "SchedulerTick"
    BY <2>1, Popped
  <2>3. \A r \in RequestId : charged'[r] = charged[r]
    BY <1>2, <2>1, <2>2 DEF ObserveCharges
  <2>4. Rest \in Seq(SimEvents) /\ WholeChunks(Rest, workload, charged, prefill_progress)
          => WholeChunks(queue', workload, charged, prefill_progress)
    BY <2>1, OtherPushes
  <2> QED
    BY <2>1, <2>2, <2>3, <2>4, OthersCharge
<1>3. CASE DecodeNothing /\ ObserveCharges
  <2>1. /\ Pops("BatchDecodeStep") /\ queue' = Rest
        /\ prefilling' = prefilling /\ prefill_progress' = prefill_progress
        /\ transferring' = transferring /\ decoding' = decoding
    BY <1>3 DEF DecodeNothing, requests
  <2>2. ~ ended' /\ Event0.kind = "BatchDecodeStep"
    BY <2>1, Popped
  <2>3. \A r \in RequestId : charged'[r] = charged[r]
    BY <1>3, <2>1, <2>2 DEF ObserveCharges
  <2> QED
    BY <2>1, <2>2, <2>3, OthersCharge
<1>4. CASE DecodeStep /\ ObserveCharges
  <2>1. PICK latency \in DecodeLatencies :
          queue' = AfterStep(BusyNow[DecodeGpu] + latency)
    BY <1>4 DEF DecodeStep, StepEnd
  <2> DEFINE t == BusyNow[DecodeGpu] + latency
  <2>2. /\ Pops("BatchDecodeStep")
        /\ prefilling' = prefilling /\ prefill_progress' = prefill_progress
        /\ transferring' = transferring /\ DOMAIN decoding' \subseteq DOMAIN decoding
    BY <1>4 DEF DecodeStep
  <2>3. ~ ended' /\ Event0.kind = "BatchDecodeStep" /\ BusyNow \in [Gpus -> Nat]
    BY <2>2, Popped
  <2>4. \A r \in RequestId : charged'[r] = charged[r]
    BY <1>4, <2>2, <2>3 DEF ObserveCharges
  <2>5. t \in Nat
    BY <2>3, SimulatorAssumption DEF DecodeGpu, Gpus
  <2>6. queue' = Push(Rest, Tick(t)) \/ queue' = Push(Push(Rest, StepDecode(t)), Tick(t))
    BY <2>1 DEF AfterStep
  <2> HIDE DEF t
  <2>7. Rest \in Seq(SimEvents) /\ WholeChunks(Rest, workload, charged, prefill_progress)
          => WholeChunks(queue', workload, charged, prefill_progress)
    BY <2>5, <2>6, OtherPushes
  <2> QED
    BY <2>2, <2>3, <2>4, <2>7, OthersCharge
<1>5. ASSUME NEW latency \in TransferLatencies, HandleKvTransfer(latency),
             charged' = charged
      PROVE  ChargesAddUp'
  <2> DEFINE r == Event0.req
  <2>1. /\ Pops("KvTransfer") /\ ScheduleDecode(Rest, latency)
        /\ prefilling' = prefilling /\ prefill_progress' = prefill_progress
        /\ transferring' = transferring \ {r}
        /\ decoding' = IF r \in transferring THEN With(decoding, r, 0) ELSE decoding
    BY <1>5 DEF HandleKvTransfer
  <2>2. ~ ended' /\ r \in transferring
    BY <2>1, Popped
  <2>3. transferring' \cup DOMAIN decoding' \subseteq transferring \cup DOMAIN decoding
    BY <2>1, <2>2 DEF With
  <2>4. latency \in Nat /\ (queue' = Rest \/ queue' = Push(Rest, StepDecode(latency)))
    BY <2>1, SimulatorAssumption DEF ScheduleDecode
  <2>5. Rest \in Seq(SimEvents) /\ WholeChunks(Rest, workload, charged, prefill_progress)
          => WholeChunks(queue', workload, charged, prefill_progress)
    BY <2>4, OtherPushes
  <2> QED
    BY <1>5, <2>1, <2>2, <2>3, <2>5, OthersCharge
<1> QED
  BY <1>1, <1>2, <1>3, <1>4, <1>5

\* Every step of the observed simulator is a step of the simulator.
LEMMA ObservedStep == [ObservedNext]_<<vars, history>> => [Next]_vars
BY DEF ObservedNext, ObserveOther, ObservePrefillStart, ObserveDecodeStep,
       ObserveNoWork, ObserveTransfer, Next, Dispatch

\* Every step keeps the charges in order.
LEMMA ChargesNext ==
  SimInv /\ ChargesAddUp /\ [ObservedNext]_<<vars, history>> => ChargesAddUp'
<1> SUFFICES ASSUME SimInv, ChargesAddUp, [ObservedNext]_<<vars, history>>
             PROVE  ChargesAddUp'
  OBVIOUS
<1>1. SimInv'
  BY ObservedStep, SimInvNext
<1>2. CASE /\ HandleArrival \/ TickPreempts \/ DecodeNothing \/ DecodeStep
           /\ ObserveCharges
  BY <1>1, <1>2, OthersKeep
<1>3. CASE TickAdmits /\ ObserveCharges
  BY <1>1, <1>3, WholeAdmission
<1>4. CASE HandlePrefillStart /\ ObserveCharges
  BY <1>4, WholeStart
<1>5. CASE PrefillContinues /\ ObserveCharges
  <2>1. Pops("PrefillDone") /\ Remaining(Event0.req) > 0
    BY <1>5 DEF PrefillContinues
  <2>2. config.scheduler # "continuous"
    BY <2>1, WholeEnd
  <2> QED
    BY <2>1, <2>2, Popped DEF ChargesAddUp
<1>6. CASE (PrefillEndsCoupled \/ PrefillEndsDisaggregated) /\ ObserveCharges
  BY <1>1, <1>6, WholeLeaves
<1>7. ASSUME NEW latency \in TransferLatencies, ObserveTransfer(latency)
      PROVE  ChargesAddUp'
  <2>1. HandleKvTransfer(latency) /\ UNCHANGED charged
    BY <1>7 DEF ObserveTransfer
  <2> QED
    BY <1>1, <2>1, OthersKeep
<1>8. CASE PassesHorizon /\ UNCHANGED history
  <2>1. /\ queue # <<>> /\ queue' = Tail(queue) /\ config' = config
        /\ workload' = workload /\ prefill_progress' = prefill_progress
        /\ transferring' = transferring /\ decoding' = decoding /\ charged' = charged
    BY <1>8 DEF PassesHorizon, requests, history
  <2>2. Carries(queue') \subseteq Carries(queue)
    BY <2>1, PopCarries DEF SimInv, SimEvents
  <2> QED
    BY <2>1, <2>2 DEF ChargesAddUp, WholeChunks, ChargedInFull
<1>9. CASE UNCHANGED <<vars, history>> \/ (Returned /\ UNCHANGED history)
  <2>1. /\ queue' = queue /\ config' = config
        /\ workload' = workload /\ prefill_progress' = prefill_progress
        /\ transferring' = transferring /\ decoding' = decoding /\ charged' = charged
    BY <1>9 DEF Returned, vars, requests, history
  <2> QED
    BY <2>1 DEF ChargesAddUp, WholeChunks, ChargedInFull
<1> QED
  BY <1>2, <1>3, <1>4, <1>5, <1>6, <1>7, <1>8, <1>9
     DEF ObservedNext, ObserveOther, ObservePrefillStart, ObserveDecodeStep, ObserveNoWork

\* Under the continuous scheduler every request leaves prefill with its whole
\* prompt charged to the prefill GPU, after however many preemptions.
THEOREM SimWholePromptCharged == ObservedSpec => []WholePromptCharged
<1>1. ObservedInit => SimInv /\ ChargesAddUp
  BY SimInvInit, ChargesInit DEF ObservedInit
<1>2. SimInv /\ ChargesAddUp /\ [ObservedNext]_<<vars, history>>
        => SimInv' /\ ChargesAddUp'
  BY ObservedStep, SimInvNext, ChargesNext
<1>3. ChargesAddUp => WholePromptCharged
  BY DEF ChargesAddUp, WholePromptCharged
<1> QED
  BY <1>1, <1>2, <1>3, PTL DEF ObservedSpec

-----------------------------------------------------------------------------
(* The GPUs do one thing at a time *)

Pieces == [req : Anyone, begin : Nat, end : Nat]

\* The pieces of w are done one after the other, and all of them by b.
InTurn(w, b) ==
  /\ w \in Seq(Pieces)
  /\ \A i \in DOMAIN w : w[i].begin <= w[i].end /\ w[i].end <= b
  /\ \A i, j \in DOMAIN w : i < j => w[i].end <= w[j].begin

\* Each chunk that q reports done is a piece of w, which ends then.
IsPiece(w, r, t) == \E j \in DOMAIN w : w[j].req = r /\ w[j].end = t
Backed(q, w) ==
  \A i \in DOMAIN q : q[i].kind = "PrefillDone" => IsPiece(w, q[i].req, q[i].time)

\* The invariant: nothing is given to a GPU that is not over by its busy_until.
WorkInv ==
  /\ DOMAIN work = Gpus
  /\ \A g \in Gpus : InTurn(work[g], busy[g])
  /\ Backed(queue, work["prefill"])

\* When time passes, what is over was given out before what is not, and the rest
\* are still done one after the other.
LEMMA UnfinishedInTurn ==
  ASSUME NEW w, NEW b \in Nat, InTurn(w, b), NEW t \in Nat
  PROVE  /\ InTurn(Unfinished(w, t), SatSub(b, t))
         /\ \A r, e : e >= t /\ IsPiece(w, r, e) => IsPiece(Unfinished(w, t), r, e - t)
<1> DEFINE n == Len(w)
           O == {i \in DOMAIN w : w[i].end < t}
           over == Cardinality(O)
           u == Unfinished(w, t)
           From(p) == Piece(p.req, SatSub(p.begin, t), p.end - t)
<1>1. n \in Nat /\ DOMAIN w = 1 .. n /\ \A i \in 1 .. n : w[i] \in Pieces
  BY LenProperties, ElementOfSeq DEF InTurn
<1> HIDE DEF n
<1>2. \A i \in 1 .. n : w[i].begin \in Nat /\ w[i].end \in Nat /\ w[i].req \in Anyone
  BY <1>1 DEF Pieces
<1>3. \A i \in 1 .. n : w[i].begin <= w[i].end /\ w[i].end <= b
  BY <1>1 DEF InTurn
<1>4. \A i, j \in 1 .. n : i < j => w[i].end <= w[j].begin
  BY <1>1 DEF InTurn
<1>5. \A i, j \in 1 .. n : i <= j => w[i].end <= w[j].end
  BY <1>2, <1>3, <1>4
<1>6. DOMAIN u = 1 .. n - over /\ \A i \in 1 .. n - over : u[i] = From(w[over + i])
  BY DEF Unfinished, n
<1>7. over \in Nat /\ over <= n
  <2>1. O \in SUBSET (1 .. n)
    BY <1>1
  <2>2. IsFiniteSet(1 .. n) /\ Cardinality(1 .. n) = n
    BY <1>1, FS_Interval
  <2> HIDE DEF O
  <2>3. IsFiniteSet(O) /\ over <= n
    BY <2>1, <2>2, FS_Subset
  <2> QED
    BY <2>3, FS_CardinalityType
<1>8. ASSUME NEW i \in 1 .. n PROVE w[i].end < t <=> i <= over
  <2>1. ASSUME w[i].end < t PROVE i <= over
    <3>1. 1 .. i \in SUBSET O
      BY <1>1, <1>2, <1>5, <2>1
    <3>2. IsFiniteSet(O)
      <4>1. IsFiniteSet(1 .. n) /\ O \in SUBSET (1 .. n)
        BY <1>1, FS_Interval
      <4> QED
        BY <4>1, FS_Subset
    <3>3. Cardinality(1 .. i) = i
      BY FS_Interval
    <3> HIDE DEF O
    <3> QED
      BY <3>1, <3>2, <3>3, FS_Subset
  <2>2. ASSUME w[i].end >= t PROVE i > over
    <3>1. O \in SUBSET (1 .. i - 1)
      BY <1>1, <1>2, <1>5, <2>2
    <3>2. IsFiniteSet(1 .. i - 1) /\ Cardinality(1 .. i - 1) = i - 1
      BY FS_Interval
    <3> HIDE DEF O
    <3>3. over <= i - 1
      BY <3>1, <3>2, FS_Subset
    <3> QED
      BY <1>7, <3>3
  <2> QED
    BY <1>2, <1>7, <2>1, <2>2
<1> HIDE DEF over, O, u
<1>9. ASSUME NEW i \in 1 .. n - over
      PROVE  /\ over + i \in 1 .. n /\ w[over + i].end >= t
             /\ u[i] \in Pieces
             /\ u[i].req = w[over + i].req
             /\ u[i].begin = SatSub(w[over + i].begin, t)
             /\ u[i].end = w[over + i].end - t
  <2>1. over + i \in 1 .. n /\ ~ (over + i <= over)
    BY <1>1, <1>7
  <2>2. w[over + i].end >= t
    BY <1>2, <1>8, <2>1
  <2>3. SatSub(w[over + i].begin, t) \in Nat /\ w[over + i].end - t \in Nat
    BY <1>2, <2>1, <2>2 DEF SatSub
  <2> QED
    BY <1>2, <1>6, <2>1, <2>2, <2>3 DEF Piece, Pieces
<1>10. InTurn(u, SatSub(b, t))
  <2>1. u \in Seq(Pieces)
    <3>1. n - over \in Nat /\ \A i \in 1 .. n - over : u[i] \in Pieces
      BY <1>1, <1>7, <1>9
    <3>2. u \in [1 .. n - over -> Pieces]
      <4>1. u = [i \in 1 .. n - over |-> From(w[over + i])]
        BY DEF u, Unfinished, n, over, O
      <4> QED
        BY <1>6, <3>1, <4>1
    <3> QED
      BY <3>1, <3>2, SequenceShape
  <2>2. ASSUME NEW i \in DOMAIN u
        PROVE  u[i].begin <= u[i].end /\ u[i].end <= SatSub(b, t)
    <3>1. /\ w[over + i].begin <= w[over + i].end /\ w[over + i].end <= b
          /\ w[over + i].begin \in Nat /\ w[over + i].end \in Nat
      BY <1>2, <1>3, <1>6, <1>9
    <3> QED
      BY <1>6, <1>9, <3>1 DEF SatSub
  <2>3. ASSUME NEW i \in DOMAIN u, NEW j \in DOMAIN u, i < j
        PROVE  u[i].end <= u[j].begin
    <3>1. over + i < over + j
      BY <1>6, <1>7, <2>3
    <3>2. /\ w[over + i].end <= w[over + j].begin
          /\ w[over + i].end \in Nat /\ w[over + j].begin \in Nat
      BY <1>2, <1>4, <1>6, <1>9, <3>1
    <3> QED
      BY <1>6, <1>9, <3>2 DEF SatSub
  <2> QED
    BY <2>1, <2>2, <2>3 DEF InTurn
<1>11. ASSUME NEW r, NEW e, e >= t, IsPiece(w, r, e) PROVE IsPiece(u, r, e - t)
  <2>1. PICK j \in 1 .. n : w[j].req = r /\ w[j].end = e
    BY <1>1, <1>11 DEF IsPiece
  <2>2. j > over
    BY <1>2, <1>7, <1>8, <1>11, <2>1
  <2>3. j - over \in 1 .. n - over /\ over + (j - over) = j
    BY <1>1, <1>7, <2>2
  <2>4. u[j - over].req = r /\ u[j - over].end = e - t
    BY <1>9, <2>1, <2>3
  <2> QED
    BY <1>6, <2>3, <2>4 DEF IsPiece
<1> QED
  BY <1>10, <1>11 DEF u

\* A piece that begins when all others are over follows them.
LEMMA GivenInTurn ==
  ASSUME NEW w, NEW b \in Nat, InTurn(w, b), NEW r \in Anyone, NEW latency \in Nat
  PROVE  LET end == b + latency
             longer == Append(w, Piece(r, end - latency, end))
         IN  /\ InTurn(longer, end)
             /\ IsPiece(longer, r, end)
             /\ \A s, e : IsPiece(w, s, e) => IsPiece(longer, s, e)
<1> DEFINE n == Len(w)
           end == b + latency
           p == Piece(r, end - latency, end)
           longer == Append(w, p)
<1>1. /\ p \in Pieces /\ p.req = r /\ p.begin = b /\ p.end = end
      /\ end \in Nat /\ b <= end
  BY DEF Piece, Pieces
<1>2. n \in Nat /\ DOMAIN w = 1 .. n /\ \A i \in 1 .. n : w[i] \in Pieces
  BY LenProperties, ElementOfSeq DEF InTurn
<1> HIDE DEF p, end
<1>3. /\ longer \in Seq(Pieces) /\ DOMAIN longer = 1 .. n + 1
      /\ \A i \in 1 .. n : longer[i] = w[i]
      /\ longer[n + 1] = p
  <2>1. w \in Seq(Pieces)
    BY DEF InTurn
  <2> QED
    BY <1>1, <1>2, <2>1, AppendProperties, LenProperties
<1> HIDE DEF n, longer
<1>4. ASSUME NEW i \in 1 .. n + 1
      PROVE  \/ i \in 1 .. n /\ longer[i] = w[i]
             \/ i = n + 1 /\ longer[i] = p
  BY <1>2, <1>3
<1>5. \A i \in 1 .. n : /\ w[i].begin \in Nat /\ w[i].end \in Nat
                        /\ w[i].begin <= w[i].end /\ w[i].end <= b
  BY <1>2 DEF InTurn, Pieces
<1>6. InTurn(longer, end)
  <2>1. ASSUME NEW i \in 1 .. n + 1
        PROVE  longer[i].begin <= longer[i].end /\ longer[i].end <= end
    BY <1>1, <1>4, <1>5
  <2>2. ASSUME NEW i \in 1 .. n + 1, NEW j \in 1 .. n + 1, i < j
        PROVE  longer[i].end <= longer[j].begin
    <3>1. i \in 1 .. n /\ longer[i] = w[i]
      BY <1>2, <1>4, <2>2
    <3>2. CASE j = n + 1 /\ longer[j] = p
      BY <1>1, <1>5, <3>1, <3>2
    <3>3. CASE j \in 1 .. n /\ longer[j] = w[j]
      BY <1>2, <2>2, <3>1, <3>3 DEF InTurn
    <3> QED
      BY <1>4, <3>2, <3>3
  <2> QED
    BY <1>3, <2>1, <2>2 DEF InTurn
<1>7. IsPiece(longer, r, end)
  <2>1. n + 1 \in DOMAIN longer
    BY <1>2, <1>3
  <2> QED
    BY <1>1, <1>3, <2>1 DEF IsPiece
<1>8. ASSUME NEW s, NEW e, IsPiece(w, s, e) PROVE IsPiece(longer, s, e)
  <2>1. PICK j \in 1 .. n : w[j].req = s /\ w[j].end = e
    BY <1>2, <1>8 DEF IsPiece
  <2>2. j \in DOMAIN longer /\ longer[j] = w[j]
    BY <1>2, <1>3
  <2> QED
    BY <2>1, <2>2 DEF IsPiece
<1> QED
  BY <1>6, <1>7, <1>8 DEF longer, p, end

\* A push reports no chunk done, or one that is a piece of work.
LEMMA BackedPush ==
  ASSUME NEW q \in Seq(SimEvents), NEW w, Backed(q, w), NEW e \in SimEvents,
         e.kind = "PrefillDone" => IsPiece(w, e.req, e.time)
  PROVE  Backed(Push(q, e), w) /\ Push(q, e) \in Seq(SimEvents)
<1> DEFINE k == DueBy(q, e.time)
           n == Len(q)
           p == Push(q, e)
<1>1. /\ p \in Seq(SimEvents) /\ DOMAIN p = 1 .. n + 1 /\ k \in 0 .. n
      /\ \A i \in 1 .. n + 1 : p[i] = IF i <= k THEN q[i]
                                      ELSE IF i = k + 1 THEN e ELSE q[i - 1]
  BY PushShape
<1>2. n \in Nat /\ DOMAIN q = 1 .. n
  BY LenProperties
<1> HIDE DEF k, n, p
<1>3. \A i \in 1 .. n + 1 : p[i] = e \/ \E j \in DOMAIN q : p[i] = q[j]
  BY <1>1, <1>2
<1> QED
  BY <1>1, <1>3 DEF Backed, p

\* Time passes for the reports and for the work alike.
LEMMA BackedPop ==
  ASSUME NEW q \in Seq(SimEvents), Ordered(q), q # <<>>,
         NEW w, NEW b \in Nat, InTurn(w, b), Backed(q, w)
  PROVE  /\ Backed(AfterPop(q), Unfinished(w, Head(q).time))
         /\ Backed(Tail(q), w)
<1> DEFINE n == Len(q)
           h == Head(q).time
           p == AfterPop(q)
           tail == Tail(q)
<1>1. /\ DOMAIN q = 1 .. n /\ n \in Nat \ {0} /\ Head(q) = q[1]
      /\ \A i \in 1 .. n : q[i] \in SimEvents /\ q[i].time \in Nat
  <2>1. DOMAIN q = 1 .. n /\ n \in Nat
        /\ \A i \in 1 .. n : q[i] \in SimEvents /\ q[i].time \in Nat
    BY EventTimes DEF SimEvents
  <2>2. n # 0 /\ Head(q) = q[1]
    BY EmptySeq, HeadTailProperties
  <2> QED
    BY <2>1, <2>2
<1>2. h \in Nat /\ \A i \in 1 .. n : h <= q[i].time
  BY <1>1 DEF Ordered
<1>3. /\ DOMAIN p = 1 .. n - 1
      /\ \A i \in 1 .. n - 1 : p[i] = [q[i + 1] EXCEPT !.time = @ - h]
  BY DEF AfterPop
<1>4. DOMAIN tail = 1 .. n - 1 /\ \A i \in 1 .. n - 1 : tail[i] = q[i + 1]
  <2>1. Len(tail) = n - 1 /\ DOMAIN tail = 1 .. Len(tail)
        /\ \A i \in 1 .. Len(tail) : tail[i] = q[i + 1]
    BY HeadTailProperties, LenProperties
  <2> QED
    BY <2>1
<1> HIDE DEF n, h, p, tail
<1>5. ASSUME NEW i \in 1 .. n - 1
      PROVE  /\ i + 1 \in DOMAIN q /\ h <= q[i + 1].time
             /\ p[i].kind = q[i + 1].kind /\ p[i].req = q[i + 1].req
             /\ p[i].time = q[i + 1].time - h
  <2>1. i + 1 \in 1 .. n
    BY <1>1
  <2>2. q[i + 1] \in SimEvents /\ h <= q[i + 1].time
    BY <1>1, <1>2, <2>1
  <2> QED
    BY <1>1, <1>3, <2>1, <2>2 DEF SimEvents, Events
<1>6. Backed(p, Unfinished(w, h))
  <2> SUFFICES ASSUME NEW i \in 1 .. n - 1, p[i].kind = "PrefillDone"
               PROVE  IsPiece(Unfinished(w, h), p[i].req, p[i].time)
    BY <1>3 DEF Backed
  <2>1. IsPiece(w, q[i + 1].req, q[i + 1].time)
    BY <1>5 DEF Backed
  <2>2. q[i + 1].time >= h
    BY <1>1, <1>2, <1>5
  <2>3. IsPiece(Unfinished(w, h), q[i + 1].req, q[i + 1].time - h)
    BY <1>2, <2>1, <2>2, UnfinishedInTurn
  <2> QED
    BY <1>5, <2>3
<1>7. Backed(tail, w)
  BY <1>4, <1>5 DEF Backed
<1> QED
  BY <1>6, <1>7 DEF p, tail, h

\* Admissions start chunks and report none done.
LEMMA BackedAdmit ==
  ASSUME waiting \in Seq(RequestId), Rest \in Seq(SimEvents),
         NEW w, Backed(Rest, w),
         NEW admit, \A i \in DOMAIN admit : admit[i] \in Nat
  PROVE  Backed(AdmitAll(admit).queue, w)
<1> DEFINE n == Len(waiting)
<1>1. n \in Nat /\ DOMAIN waiting = 1 .. n /\ \A i \in 1 .. n : waiting[i] \in RequestId
  BY LenProperties, ElementOfSeq
<1>2. PICK s : /\ s[0] = LoopStart
               /\ \A i \in 1 .. n :
                    s[i] = IF i \in DOMAIN admit
                           THEN AdmitRequest(s[i - 1], waiting[i], admit[i])
                           ELSE s[i - 1]
               /\ AdmitAll(admit) = s[n]
  BY <1>1, LoopTurns
<1> HIDE DEF n
<1> DEFINE Keeps(t) == /\ DOMAIN t = LoopParts /\ t.queue \in Seq(SimEvents)
                       /\ Backed(t.queue, w)
           P == {i \in Nat : i <= n => Keeps(s[i])}
<1>3. 0 \in P
  BY <1>2 DEF LoopStart, LoopParts
<1>4. ASSUME NEW m \in Nat, m \in P PROVE m + 1 \in P
  <2> SUFFICES ASSUME m + 1 <= n PROVE Keeps(s[m + 1])
    OBVIOUS
  <2>1. m + 1 \in 1 .. n /\ (m + 1) - 1 = m /\ Keeps(s[m])
    BY <1>1, <1>4
  <2>2. CASE m + 1 \notin DOMAIN admit
    BY <1>2, <2>1, <2>2
  <2>3. CASE m + 1 \in DOMAIN admit
    <3> DEFINE r == waiting[m + 1]
               c == admit[m + 1]
               e == StartPrefill(0, r, c)
    <3>1. e \in SimEvents /\ e.kind # "PrefillDone"
      <4>1. r \in RequestId /\ c \in Nat
        BY <1>1, <2>1, <2>3
      <4> QED
        BY <4>1 DEF StartPrefill, Event, SimEvents, Events, Anyone, Kinds
    <3>2. s[m + 1] = AdmitRequest(s[m], r, c)
      BY <1>2, <2>1, <2>3
    <3> HIDE DEF e
    <3>3. /\ Push(s[m].queue, e) \in Seq(SimEvents)
          /\ Backed(Push(s[m].queue, e), w)
      BY <2>1, <3>1, BackedPush
    <3> HIDE DEF r, c
    <3>4. /\ DOMAIN s[m + 1] = LoopParts
          /\ \/ s[m + 1].queue = s[m].queue
             \/ s[m + 1].queue = Push(s[m].queue, e)
      BY <2>1, <3>2, AdmitEffect DEF e
    <3> QED
      BY <2>1, <3>3, <3>4
  <2> QED
    BY <2>2, <2>3
<1>5. n \in P
  <2> HIDE DEF P
  <2> QED
    BY <1>1, <1>3, <1>4, SetInduction
<1> QED
  BY <1>1, <1>2, <1>5

\* No work has been given out when the simulator has been built.
LEMMA WorkInit == ObservedInit => WorkInv
<1> SUFFICES ASSUME ObservedInit PROVE WorkInv
  OBVIOUS
<1> DEFINE q == [r \in RequestId |-> Arrival(workload[r].arrival, r)]
<1>1. /\ workload \in Workloads /\ queue = Push(q, Tick(0))
      /\ work = [g \in Gpus |-> <<>>]
  BY DEF ObservedInit, Init, Gpus
<1>2. q \in Seq(SimEvents)
  BY <1>1, ArrivalsBooked DEF Ledger
<1>3. Backed(q, <<>>)
  BY DEF Backed, Arrival, Event
<1>4. Tick(0) \in SimEvents /\ Tick(0).kind # "PrefillDone"
  BY DEF Tick, Event, SimEvents, Events, Anyone, Kinds
<1> HIDE DEF q
<1>5. Backed(queue, <<>>)
  BY <1>1, <1>2, <1>3, <1>4, BackedPush
<1>6. \A b : InTurn(<<>>, b)
  <2>1. <<>> \in Seq(Pieces) /\ DOMAIN <<>> = {}
    BY EmptySeq
  <2> QED
    BY <2>1 DEF InTurn
<1> QED
  BY <1>1, <1>5, <1>6 DEF WorkInv, Gpus

\* What a handler finds.
LEMMA WorkFound ==
  ASSUME SimInv, WorkInv, NEW kind, Pops(kind)
  PROVE  /\ BusyNow \in [Gpus -> Nat] /\ DOMAIN WorkNow = Gpus
         /\ \A g \in Gpus : InTurn(WorkNow[g], BusyNow[g])
         /\ Rest \in Seq(SimEvents) /\ Backed(Rest, WorkNow["prefill"])
         /\ Event0 \in SimEvents /\ Event0.req \in Anyone
<1>1. queue # <<>> /\ queue \in Seq(SimEvents) /\ Ordered(queue)
      /\ busy \in [Gpus -> Nat]
  BY DEF Pops, SimInv, Typed
<1>2. Rest \in Seq(SimEvents) /\ Event0 \in SimEvents
  BY <1>1, PopEffect DEF SimEvents, Rest, Event0
<1>3. BusyNow \in [Gpus -> Nat]
  BY Popped
<1>4. Event0.time \in Nat /\ Event0.req \in Anyone
  BY <1>2, Accounts
<1>5. DOMAIN WorkNow = Gpus
      /\ \A g \in Gpus : WorkNow[g] = Unfinished(work[g], Event0.time)
  BY DEF WorkNow, WorkInv
<1>6. ASSUME NEW g \in Gpus PROVE InTurn(WorkNow[g], BusyNow[g])
  <2>1. busy[g] \in Nat /\ InTurn(work[g], busy[g])
    BY <1>1 DEF WorkInv
  <2>2. InTurn(Unfinished(work[g], Event0.time), SatSub(busy[g], Event0.time))
    BY <1>4, <2>1, UnfinishedInTurn
  <2>3. BusyNow[g] = SatSub(busy[g], Event0.time)
    BY <1>1 DEF BusyNow
  <2> QED
    BY <1>5, <2>2, <2>3
<1>7. Backed(Rest, WorkNow["prefill"])
  <2>1. /\ "prefill" \in Gpus /\ busy["prefill"] \in Nat
        /\ InTurn(work["prefill"], busy["prefill"]) /\ Backed(queue, work["prefill"])
    BY <1>1 DEF WorkInv, Gpus
  <2>2. Backed(Rest, Unfinished(work["prefill"], Event0.time))
    BY <1>1, <2>1, BackedPop DEF Rest, Event0
  <2> QED
    BY <1>5, <2>1, <2>2
<1> QED
  BY <1>2, <1>3, <1>4, <1>5, <1>6, <1>7

\* A handler that gives no work reports none done.
LEMMA NoWorkKeeps ==
  ASSUME SimInv, WorkInv, NEW kind, Pops(kind), busy' = BusyNow, work' = WorkNow,
         NEW e \in SimEvents, e.kind # "PrefillDone",
         queue' = Rest \/ queue' = Push(Rest, e)
  PROVE  WorkInv'
<1>1. /\ DOMAIN WorkNow = Gpus /\ \A g \in Gpus : InTurn(WorkNow[g], BusyNow[g])
      /\ Rest \in Seq(SimEvents) /\ Backed(Rest, WorkNow["prefill"])
  BY WorkFound
<1>2. Backed(Push(Rest, e), WorkNow["prefill"])
  BY <1>1, BackedPush
<1> QED
  BY <1>1, <1>2 DEF WorkInv

\* The handlers that give no work.
LEMMA OthersGiveNone ==
  ASSUME SimInv, WorkInv,
         \/ ObserveNoWork
         \/ \E latency \in TransferLatencies : ObserveTransfer(latency)
  PROVE  WorkInv'
<1>1. \A t \in Nat : /\ Tick(t) \in SimEvents /\ Tick(t).kind # "PrefillDone"
                     /\ StepDecode(t) \in SimEvents
                     /\ StepDecode(t).kind # "PrefillDone"
  BY DEF Tick, StepDecode, Event, SimEvents, Events, Anyone, Kinds
<1>2. CASE (HandleArrival \/ TickPreempts) /\ work' = WorkNow
  <2>1. /\ \E kind : Pops(kind)
        /\ busy' = BusyNow /\ queue' = Push(Rest, Tick(0))
    BY <1>2 DEF HandleArrival, TickPreempts
  <2> QED
    BY <1>1, <1>2, <2>1, NoWorkKeeps
<1>3. CASE TickAdmits /\ work' = WorkNow
  <2>1. Pops("SchedulerTick") /\ queue' = AdmitAll(Admitted).queue /\ busy' = BusyNow
    BY <1>3 DEF TickAdmits
  <2>2. /\ DOMAIN WorkNow = Gpus /\ \A g \in Gpus : InTurn(WorkNow[g], BusyNow[g])
        /\ Rest \in Seq(SimEvents) /\ Backed(Rest, WorkNow["prefill"])
    BY <2>1, WorkFound
  <2>3. waiting \in Seq(RequestId)
    BY DEF SimInv, Placed, Line
  <2>4. \A i \in DOMAIN Admitted : Admitted[i] \in Nat
    <3>1. Placed /\ workload \in Workload
      BY WorkloadsTyped DEF SimInv
    <3>2. Line(waiting) /\ Running \subseteq RequestId /\ kv.free_blocks \in Nat
      BY <3>1 DEF Placed, Running, Shares, Balanced
    <3> QED
      BY <3>1, <3>2, AdmittedType
  <2>5. Backed(AdmitAll(Admitted).queue, WorkNow["prefill"])
    BY <2>2, <2>3, <2>4, BackedAdmit
  <2> QED
    BY <1>3, <2>1, <2>2, <2>5 DEF WorkInv
<1>4. CASE PrefillContinues /\ work' = WorkNow
  <2> DEFINE r == Event0.req
             chunk == IF config.scheduler = "chunked" THEN Least(Remaining(r), ChunkSize)
                                                      ELSE Remaining(r)
             e == StartPrefill(0, r, chunk)
  <2>1. /\ Pops("PrefillDone") /\ queue' = Push(Rest, e) /\ busy' = BusyNow
    BY <1>4 DEF PrefillContinues
  <2>2. r \in prefilling /\ r \in Anyone
    BY <2>1, Popped, WorkFound
  <2>3. chunk \in Nat
    <3>1. Remaining(r) \in Nat /\ ChunkSize \in Nat
      BY <2>2, ProgressType, SimulatorAssumption DEF SimInv
    <3> QED
      BY <3>1 DEF Least
  <2> HIDE DEF chunk
  <2>4. e \in SimEvents /\ e.kind # "PrefillDone"
    BY <2>2, <2>3 DEF StartPrefill, Event, SimEvents, Events, Kinds
  <2> QED
    BY <1>4, <2>1, <2>4, NoWorkKeeps
<1>5. CASE PrefillEndsCoupled /\ work' = WorkNow
  <2>1. /\ Pops("PrefillDone") /\ busy' = BusyNow
        /\ queue' = Rest \/ queue' = Push(Rest, StepDecode(0))
    BY <1>5 DEF PrefillEndsCoupled, ScheduleDecode
  <2> QED
    BY <1>1, <1>5, <2>1, NoWorkKeeps
<1>6. CASE PrefillEndsDisaggregated /\ work' = WorkNow
  <2> DEFINE e == TransferKv(0, Event0.req)
  <2>1. /\ Pops("PrefillDone") /\ busy' = BusyNow
        /\ queue' = Rest \/ queue' = Push(Rest, e)
    BY <1>6 DEF PrefillEndsDisaggregated
  <2>2. e \in SimEvents /\ e.kind # "PrefillDone"
    BY <2>1, WorkFound DEF TransferKv, Event, SimEvents, Events, Kinds
  <2> QED
    BY <1>6, <2>1, <2>2, NoWorkKeeps
<1>7. CASE DecodeNothing /\ work' = WorkNow
  <2>1. Pops("BatchDecodeStep") /\ busy' = BusyNow /\ queue' = Rest
    BY <1>7 DEF DecodeNothing
  <2> QED
    BY <1>1, <1>7, <2>1, NoWorkKeeps
<1>8. CASE \E latency \in TransferLatencies : ObserveTransfer(latency)
  <2>1. PICK latency \in TransferLatencies : ObserveTransfer(latency)
    BY <1>8
  <2>2. /\ Pops("KvTransfer") /\ busy' = BusyNow /\ work' = WorkNow /\ latency \in Nat
        /\ queue' = Rest \/ queue' = Push(Rest, StepDecode(latency))
    BY <2>1, SimulatorAssumption DEF ObserveTransfer, HandleKvTransfer, ScheduleDecode
  <2> QED
    BY <1>1, <2>2, NoWorkKeeps
<1> QED
  BY <1>2, <1>3, <1>4, <1>5, <1>6, <1>7, <1>8 DEF ObserveNoWork

\* A GPU that is given work is given it after all that it has.
LEMMA GiveKeeps ==
  ASSUME NEW g \in Gpus, NEW r \in Anyone, NEW latency \in Nat,
         BusyNow \in [Gpus -> Nat], DOMAIN WorkNow = Gpus,
         \A h \in Gpus : InTurn(WorkNow[h], BusyNow[h]),
         GiveWork(g, r, latency, BusyNow[g] + latency),
         \A h \in Gpus \ {g} : busy'[h] = BusyNow[h]
  PROVE  /\ DOMAIN work' = Gpus
         /\ \A h \in Gpus : InTurn(work'[h], busy'[h])
         /\ IsPiece(work'[g], r, BusyNow[g] + latency)
         /\ \A h \in Gpus : \A s, e :
              IsPiece(WorkNow[h], s, e) => IsPiece(work'[h], s, e)
<1> DEFINE end == BusyNow[g] + latency
           longer == Append(WorkNow[g], Piece(r, end - latency, end))
<1>1. busy'[g] = end /\ work' = [WorkNow EXCEPT ![g] = longer]
  BY DEF GiveWork
<1>2. /\ DOMAIN work' = Gpus /\ work'[g] = longer
      /\ \A h \in Gpus \ {g} : work'[h] = WorkNow[h]
  BY <1>1
<1>3. BusyNow[g] \in Nat /\ InTurn(WorkNow[g], BusyNow[g])
  OBVIOUS
<1>4. /\ InTurn(longer, end) /\ IsPiece(longer, r, end)
      /\ \A s, e : IsPiece(WorkNow[g], s, e) => IsPiece(longer, s, e)
  <2> DEFINE w == WorkNow[g]
             b == BusyNow[g]
  <2>1. b \in Nat /\ InTurn(w, b)
    BY <1>3
  <2> HIDE DEF w, b
  <2>2. /\ InTurn(Append(w, Piece(r, (b + latency) - latency, b + latency)), b + latency)
        /\ IsPiece(Append(w, Piece(r, (b + latency) - latency, b + latency)), r, b + latency)
        /\ \A s, e : IsPiece(w, s, e) =>
             IsPiece(Append(w, Piece(r, (b + latency) - latency, b + latency)), s, e)
    BY <2>1, GivenInTurn
  <2> QED
    BY <2>2 DEF w, b
<1> HIDE DEF longer, end
<1>5. ASSUME NEW h \in Gpus PROVE InTurn(work'[h], busy'[h])
  BY <1>1, <1>2, <1>4
<1>6. ASSUME NEW h \in Gpus, NEW s, NEW e, IsPiece(WorkNow[h], s, e)
      PROVE  IsPiece(work'[h], s, e)
  BY <1>2, <1>4, <1>6
<1> QED
  BY <1>2, <1>4, <1>5, <1>6 DEF end

\* A chunk is given to the prefill GPU and reported done when it is over.
LEMMA ChunkKeepsTurns ==
  ASSUME SimInv, WorkInv, ObservePrefillStart
  PROVE  WorkInv'
<1> DEFINE r == Event0.req
<1>1. PICK latency \in PrefillLatencies :
        GiveWork("prefill", r, latency, PrefillEnd(latency))
  BY DEF ObservePrefillStart
<1>2. PICK other \in PrefillLatencies :
        /\ busy' = [BusyNow EXCEPT !["prefill"] = PrefillEnd(other)]
        /\ queue' = Push(Rest, EndPrefill(PrefillEnd(other), r))
  BY DEF ObservePrefillStart, HandlePrefillStart
<1>3. Pops("PrefillStart")
  BY DEF ObservePrefillStart, HandlePrefillStart
<1>4. /\ BusyNow \in [Gpus -> Nat] /\ DOMAIN WorkNow = Gpus
      /\ \A g \in Gpus : InTurn(WorkNow[g], BusyNow[g])
      /\ Rest \in Seq(SimEvents) /\ Backed(Rest, WorkNow["prefill"]) /\ r \in Anyone
  BY <1>3, WorkFound
<1>5. latency \in Nat /\ other \in Nat /\ "prefill" \in Gpus
  BY SimulatorAssumption DEF Gpus
<1> HIDE DEF r
<1> DEFINE t == BusyNow["prefill"] + latency
<1>6. /\ t \in Nat /\ PrefillEnd(latency) = t /\ PrefillEnd(other) = t
      /\ \A h \in Gpus \ {"prefill"} : busy'[h] = BusyNow[h]
  <2>1. busy'["prefill"] = PrefillEnd(other) /\ busy'["prefill"] = PrefillEnd(latency)
    BY <1>1, <1>2, <1>4, <1>5 DEF GiveWork
  <2>2. BusyNow["prefill"] \in Nat
    BY <1>4, <1>5
  <2> QED
    BY <1>2, <1>4, <1>5, <2>1, <2>2 DEF PrefillEnd
<1>7. /\ DOMAIN work' = Gpus
      /\ \A h \in Gpus : InTurn(work'[h], busy'[h])
      /\ IsPiece(work'["prefill"], r, t)
      /\ \A s, e : IsPiece(WorkNow["prefill"], s, e) => IsPiece(work'["prefill"], s, e)
  <2>1. GiveWork("prefill", r, latency, BusyNow["prefill"] + latency)
    BY <1>1, <1>6
  <2> QED
    BY <1>4, <1>5, <1>6, <2>1, GiveKeeps
<1> DEFINE e == EndPrefill(t, r)
           w == work'["prefill"]
<1>8. e \in SimEvents /\ e.req = r /\ e.time = t
  BY <1>4, <1>6 DEF EndPrefill, Event, SimEvents, Events, Kinds
<1>9. queue' = Push(Rest, e)
  BY <1>2, <1>6
<1>10. Backed(Rest, w) /\ IsPiece(w, r, t)
  BY <1>4, <1>7 DEF Backed
<1> HIDE DEF e, w, t
<1>11. Backed(Push(Rest, e), w)
  BY <1>4, <1>8, <1>10, BackedPush
<1> QED
  BY <1>7, <1>9, <1>11 DEF WorkInv, w

\* A decode step is given to the GPU that decodes, be it the prefill GPU.
LEMMA StepKeepsTurns ==
  ASSUME SimInv, WorkInv, ObserveDecodeStep
  PROVE  WorkInv'
<1> DEFINE g == DecodeGpu
<1>1. PICK latency \in DecodeLatencies :
        GiveWork(g, NoRequest, latency, StepEnd(latency))
  BY DEF ObserveDecodeStep
<1>2. PICK other \in DecodeLatencies :
        /\ busy' = [BusyNow EXCEPT ![g] = StepEnd(other)]
        /\ queue' = AfterStep(StepEnd(other))
  BY DEF ObserveDecodeStep, DecodeStep
<1>3. Pops("BatchDecodeStep")
  BY DEF ObserveDecodeStep, DecodeStep
<1>4. /\ BusyNow \in [Gpus -> Nat] /\ DOMAIN WorkNow = Gpus
      /\ \A h \in Gpus : InTurn(WorkNow[h], BusyNow[h])
      /\ Rest \in Seq(SimEvents) /\ Backed(Rest, WorkNow["prefill"])
  BY <1>3, WorkFound
<1>5. latency \in Nat /\ other \in Nat /\ g \in Gpus /\ NoRequest \in Anyone
  BY SimulatorAssumption DEF DecodeGpu, Gpus, Anyone
<1> DEFINE t == BusyNow[g] + latency
<1>6. /\ StepEnd(latency) = BusyNow[g] + latency /\ StepEnd(other) = BusyNow[g] + other
  BY DEF StepEnd
<1> HIDE DEF g
<1>7. /\ t \in Nat /\ StepEnd(latency) = t /\ StepEnd(other) = t
      /\ \A h \in Gpus \ {g} : busy'[h] = BusyNow[h]
  <2>1. busy'[g] = StepEnd(other) /\ busy'[g] = StepEnd(latency)
    BY <1>1, <1>2, <1>4, <1>5 DEF GiveWork
  <2>2. BusyNow[g] \in Nat
    BY <1>4, <1>5
  <2> QED
    BY <1>2, <1>4, <1>5, <1>6, <2>1, <2>2
<1>8. /\ DOMAIN work' = Gpus
      /\ \A h \in Gpus : InTurn(work'[h], busy'[h])
      /\ \A h \in Gpus : \A s, e :
           IsPiece(WorkNow[h], s, e) => IsPiece(work'[h], s, e)
  <2>1. GiveWork(g, NoRequest, latency, BusyNow[g] + latency)
    BY <1>1, <1>7
  <2> QED
    BY <1>4, <1>5, <1>7, <2>1, GiveKeeps
<1> DEFINE w == work'["prefill"]
           q == IF DOMAIN decoding = Completed THEN Rest ELSE Push(Rest, StepDecode(t))
<1>9. Backed(Rest, w)
  BY <1>4, <1>8 DEF Backed, Gpus
<1> HIDE DEF w, t
<1>10. /\ Tick(t) \in SimEvents /\ Tick(t).kind # "PrefillDone"
       /\ StepDecode(t) \in SimEvents /\ StepDecode(t).kind # "PrefillDone"
  BY <1>7 DEF Tick, StepDecode, Event, SimEvents, Events, Anyone, Kinds
<1>11. q \in Seq(SimEvents) /\ Backed(q, w)
  BY <1>4, <1>9, <1>10, BackedPush
<1>12. queue' = Push(q, Tick(t))
  BY <1>2, <1>7 DEF AfterStep
<1> HIDE DEF q
<1>13. Backed(queue', w)
  BY <1>10, <1>11, <1>12, BackedPush
<1> QED
  BY <1>8, <1>13 DEF WorkInv, w

\* Every step keeps the pieces of work apart.
LEMMA WorkNext ==
  SimInv /\ WorkInv /\ [ObservedNext]_<<vars, history>> => WorkInv'
<1> SUFFICES ASSUME SimInv, WorkInv, [ObservedNext]_<<vars, history>>
             PROVE  WorkInv'
  OBVIOUS
<1>1. CASE ObservePrefillStart
  BY <1>1, ChunkKeepsTurns
<1>2. CASE ObserveDecodeStep
  BY <1>2, StepKeepsTurns
<1>3. CASE ObserveNoWork \/ \E latency \in TransferLatencies : ObserveTransfer(latency)
  BY <1>3, OthersGiveNone
<1>4. CASE PassesHorizon /\ UNCHANGED history
  <2>1. queue # <<>> /\ queue' = Tail(queue) /\ busy' = busy /\ work' = work
    BY <1>4 DEF PassesHorizon, history
  <2>2. /\ queue \in Seq(SimEvents) /\ Ordered(queue) /\ busy["prefill"] \in Nat
        /\ InTurn(work["prefill"], busy["prefill"]) /\ Backed(queue, work["prefill"])
    BY DEF SimInv, Typed, WorkInv, Gpus
  <2>3. Backed(Tail(queue), work["prefill"])
    BY <2>1, <2>2, BackedPop
  <2> QED
    BY <2>1, <2>3 DEF WorkInv
<1>5. CASE UNCHANGED <<vars, history>> \/ (Returned /\ UNCHANGED history)
  <2>1. queue' = queue /\ busy' = busy /\ work' = work
    BY <1>5 DEF Returned, vars, history
  <2> QED
    BY <2>1 DEF WorkInv
<1> QED
  BY <1>1, <1>2, <1>3, <1>4, <1>5 DEF ObservedNext, ObserveOther

\* The pieces of work given to a GPU never overlap, prefill chunks or decode
\* steps, and chunks are reported done when their own piece is over
\* (handle_prefill_start, handle_batch_decode_step).
THEOREM SimWorkTakesTurns == ObservedSpec => []WorkTakesTurns
<1>1. ObservedInit => SimInv /\ WorkInv
  BY SimInvInit, WorkInit DEF ObservedInit
<1>2. SimInv /\ WorkInv /\ [ObservedNext]_<<vars, history>> => SimInv' /\ WorkInv'
  BY ObservedStep, SimInvNext, WorkNext
<1>3. WorkInv => WorkTakesTurns
  <2> SUFFICES ASSUME WorkInv PROVE WorkTakesTurns
    OBVIOUS
  <2>1. ASSUME NEW g \in DOMAIN work, NEW i \in DOMAIN work[g], NEW j \in DOMAIN work[g],
               i < j
        PROVE  work[g][i].end <= work[g][j].begin
    BY <2>1 DEF WorkInv, InTurn
  <2>2. ASSUME NEW i \in Pending("PrefillDone")
        PROVE  IsPiece(work["prefill"], queue[i].req, queue[i].time)
    BY DEF WorkInv, Backed, Pending
  <2> QED
    BY <2>1, <2>2 DEF WorkTakesTurns, IsPiece
<1> QED
  BY <1>1, <1>2, <1>3, PTL DEF ObservedSpec

\* Every step of the metered simulator is a step of the simulator.
LEMMA MeteredStep == [MeteredNext]_<<vars, meters>> => [Next]_vars
BY DEF MeteredNext, MeterPreemption, MeterAdmissions, MeterPrefillStart,
       MeterPrefillEnd, MeterDecodeStep, MeterNothing, Next, Dispatch

-----------------------------------------------------------------------------
(* Busy time *)

\* Charges of p for prefill and d for decode, which the GPU g does, fit before
\* the GPUs are free, at b from the clock t.
Fits(p, d, t, b, g) ==
  /\ t \in Nat /\ p \in Nat /\ d \in Nat
  /\ IF g = "decode" THEN p <= t + b["prefill"] /\ d <= t + b["decode"]
                     ELSE p + d <= t + b["prefill"]

\* What the collector has charged fits, and it has all its parts.
ChargesFit ==
  /\ DOMAIN metrics = DOMAIN NewMetrics
  /\ Fits(metrics.prefill_busy_secs, metrics.decode_busy_secs, clock, busy, DecodeGpu)

\* Time passes: what was free earlier than now is free now.
LEMMA FitsLater ==
  ASSUME NEW p, NEW d, NEW t, NEW b \in [Gpus -> Nat], NEW g,
         NEW passed \in Nat, Fits(p, d, t, b, g)
  PROVE  Fits(p, d, t + passed, [x \in DOMAIN b |-> SatSub(b[x], passed)], g)
BY DEF Fits, Gpus, SatSub

\* Work that begins when its GPU is free is charged from then on.
LEMMA FitsWork ==
  ASSUME NEW p, NEW d, NEW t, NEW b \in [Gpus -> Nat], NEW g \in Gpus,
         NEW latency \in Nat, Fits(p, d, t, b, g)
  PROVE  /\ Fits(p + latency, d, t,
                 [b EXCEPT !["prefill"] = b["prefill"] + latency], g)
         /\ Fits(p, d + latency, t, [b EXCEPT ![g] = b[g] + latency], g)
BY DEF Fits, Gpus

\* Every step keeps the charges within the time there was.
LEMMA ChargesFitNext ==
  SimInv /\ ChargesFit /\ [MeteredNext]_<<vars, meters>> => ChargesFit'
<1> SUFFICES ASSUME SimInv, ChargesFit, [MeteredNext]_<<vars, meters>>
             PROVE  ChargesFit'
  OBVIOUS
<1> DEFINE p == metrics.prefill_busy_secs
           d == metrics.decode_busy_secs
           g == DecodeGpu
<1>1. g \in Gpus /\ busy \in [Gpus -> Nat] /\ DOMAIN metrics = DOMAIN NewMetrics
      /\ Fits(p, d, clock, busy, g)
  BY DEF SimInv, Typed, ChargesFit, DecodeGpu, Gpus
<1>2. ASSUME NEW kind, Pops(kind), clock' = Now
      PROVE  /\ g' = g /\ BusyNow \in [Gpus -> Nat]
             /\ Fits(p, d, clock', BusyNow, g)
  <2>1. g' = g /\ BusyNow \in [Gpus -> Nat] /\ Event0 \in SimEvents
    BY <1>2, Popped DEF DecodeGpu
  <2>2. Event0.time \in Nat
    BY <2>1, Accounts
  <2> QED
    BY <1>1, <1>2, <2>1, <2>2, FitsLater DEF Now, BusyNow
<1>3. ASSUME NEW kind, Pops(kind), clock' = Now, busy' = BusyNow,
             DOMAIN metrics' = DOMAIN metrics,
             metrics'.prefill_busy_secs = metrics.prefill_busy_secs,
             metrics'.decode_busy_secs = metrics.decode_busy_secs
      PROVE  ChargesFit'
  BY <1>1, <1>2, <1>3 DEF ChargesFit
<1>4. CASE MeterPreemption /\ clock' = Now
  <2>1. Pops("SchedulerTick") /\ busy' = BusyNow /\ metrics' = RecordPreemption(metrics)
    BY <1>4 DEF MeterPreemption, TickPreempts
  <2> QED
    BY <1>1, <1>3, <1>4, <2>1 DEF RecordPreemption, NewMetrics
<1>5. CASE MeterAdmissions /\ clock' = Now
  <2>1. /\ Pops("SchedulerTick") /\ busy' = BusyNow
        /\ metrics' = RecordAdmissions(metrics, prefilling' \ prefilling)
    BY <1>5 DEF MeterAdmissions, TickAdmits
  <2> QED
    BY <1>1, <1>3, <1>5, <2>1 DEF RecordAdmissions, NewMetrics
<1>6. CASE MeterPrefillStart /\ clock' = Now
  <2>1. PICK latency \in PrefillLatencies :
          busy' = [BusyNow EXCEPT !["prefill"] = BusyNow["prefill"] + latency]
    BY <1>6 DEF MeterPrefillStart, HandlePrefillStart, PrefillEnd
  <2>2. /\ Pops("PrefillStart")
        /\ metrics' = [metrics EXCEPT !.prefill_busy_secs = @ + PrefillBusy]
    BY <1>6 DEF MeterPrefillStart, HandlePrefillStart
  <2>3. g' = g /\ BusyNow \in [Gpus -> Nat] /\ Fits(p, d, clock', BusyNow, g)
    BY <1>2, <1>6, <2>2
  <2>4. latency \in Nat
    BY SimulatorAssumption
  <2>5. PrefillBusy = latency
    BY <2>1, <2>3, <2>4 DEF PrefillBusy, Gpus
  <2>6. /\ DOMAIN metrics' = DOMAIN metrics
        /\ metrics'.prefill_busy_secs = p + latency /\ metrics'.decode_busy_secs = d
    BY <1>1, <2>2, <2>5 DEF NewMetrics
  <2>7. Fits(p + latency, d, clock', busy', g)
    <3> DEFINE t == clock'
               b == BusyNow
    <3> HIDE DEF p, d, g, t, b
    <3>1. Fits(p + latency, d, t, [b EXCEPT !["prefill"] = b["prefill"] + latency], g)
      BY <1>1, <2>3, <2>4, FitsWork DEF t, b
    <3> QED
      BY <2>1, <3>1 DEF t, b
  <2> QED
    BY <1>1, <2>3, <2>6, <2>7 DEF ChargesFit
<1>7. CASE MeterPrefillEnd /\ clock' = Now
  <2>1. /\ Pops("PrefillDone") /\ busy' = BusyNow
        /\ \/ metrics' = metrics
           \/ metrics' = RecordPrefillLatency(metrics, Now - workload[Event0.req].arrival)
    BY <1>7 DEF MeterPrefillEnd, PrefillEndsCoupled, PrefillEndsDisaggregated
  <2> QED
    BY <1>1, <1>3, <1>7, <2>1 DEF RecordPrefillLatency, NewMetrics
<1>8. CASE MeterDecodeStep /\ clock' = Now
  <2>1. PICK latency \in DecodeLatencies :
          busy' = [BusyNow EXCEPT ![DecodeGpu] = BusyNow[DecodeGpu] + latency]
    BY <1>8 DEF MeterDecodeStep, DecodeStep, StepEnd
  <2> DEFINE stepped == [metrics EXCEPT !.decode_busy_secs = @ + DecodeBusy]
             started == RecordFirstTokens(stepped, GetFirstToken, StepDone)
  <2>2. /\ Pops("BatchDecodeStep")
        /\ \E first : metrics' = RecordCompletions(started, Completed, first, StepDone)
    BY <1>8 DEF MeterDecodeStep, DecodeStep
  <2>3. g' = g /\ BusyNow \in [Gpus -> Nat] /\ Fits(p, d, clock', BusyNow, g)
    BY <1>2, <1>8, <2>2
  <2>4. latency \in Nat
    BY SimulatorAssumption
  <2>5. DecodeBusy = latency
    BY <2>1, <2>3, <2>4 DEF DecodeBusy, DecodeGpu, Gpus
  <2>6. /\ DOMAIN metrics' = DOMAIN metrics
        /\ metrics'.prefill_busy_secs = p /\ metrics'.decode_busy_secs = d + latency
    BY <1>1, <2>2, <2>5 DEF NewMetrics, RecordFirstTokens, RecordCompletions
  <2>7. Fits(p, d + latency, clock', busy', g)
    <3> DEFINE t == clock'
               b == BusyNow
    <3> HIDE DEF p, d, g, t, b
    <3>1. Fits(p, d + latency, t, [b EXCEPT ![g] = b[g] + latency], g)
      BY <1>1, <2>3, <2>4, FitsWork DEF t, b
    <3> QED
      BY <2>1, <3>1 DEF t, b, g
  <2> QED
    BY <1>1, <2>3, <2>6, <2>7 DEF ChargesFit
<1>9. CASE MeterNothing /\ clock' = Now
  <2>1. /\ Pops("RequestArrival") \/ Pops("PrefillDone") \/ Pops("BatchDecodeStep")
             \/ Pops("KvTransfer")
        /\ busy' = BusyNow /\ metrics' = metrics
    BY <1>9 DEF MeterNothing, HandleArrival, PrefillContinues, DecodeNothing,
                HandleKvTransfer
  <2> QED
    BY <1>3, <1>9, <2>1
<1>10. CASE (PassesHorizon \/ Returned) /\ UNCHANGED meters
  BY <1>10 DEF PassesHorizon, Returned, meters, vars, ChargesFit, DecodeGpu
<1>11. CASE UNCHANGED <<vars, meters>>
  BY <1>11 DEF meters, vars, ChargesFit, DecodeGpu
<1> QED
  BY <1>4, <1>5, <1>6, <1>7, <1>8, <1>9, <1>10, <1>11 DEF MeteredNext

\* Nothing is charged at first.
LEMMA ChargesFitInit == MeteredInit => ChargesFit
BY DEF MeteredInit, Init, NewMetrics, ChargesFit, Fits, DecodeGpu

\* No GPU is charged with more work than there was time for.
THEOREM SimBusyFitsTime == MeteredSpec => []BusyFitsTime
<1>1. MeteredInit => SimInv /\ ChargesFit
  BY SimInvInit, ChargesFitInit DEF MeteredInit
<1>2. SimInv /\ ChargesFit /\ [MeteredNext]_<<vars, meters>> => SimInv' /\ ChargesFit'
  BY MeteredStep, SimInvNext, ChargesFitNext
<1>3. ChargesFit => BusyFitsTime
  BY DEF ChargesFit, Fits, BusyFitsTime, DecodeGpu
<1> QED
  BY <1>1, <1>2, <1>3, PTL DEF MeteredSpec

-----------------------------------------------------------------------------
(* Histograms *)

\* A bag of finitely many samples.
Histogram(h) == IsFiniteSet(DOMAIN h) /\ \A v \in DOMAIN h : h[v] \in Nat

\* A sample more makes a histogram larger by one.
LEMMA OneSample ==
  ASSUME NEW h, Histogram(h), NEW v
  PROVE  /\ Histogram(h (+) SetToBag({v}))
         /\ Size(h (+) SetToBag({v})) = Size(h) + 1
<1> DEFINE n == IF v \in DOMAIN h THEN h[v] ELSE 0
           D == DOMAIN h \ {v}
<1>1. n \in Nat /\ n + 1 \in Nat
  BY DEF Histogram
<1>2. h (+) SetToBag({v}) = With(h, v, n + 1)
  BY DEF (+), SetToBag, With, Histogram
<1>3. Total(DOMAIN h, h) = Total(D, h) + n
  <2>1. CASE v \in DOMAIN h
    BY <2>1, TotalRemove DEF Histogram
  <2>2. CASE v \notin DOMAIN h
    <3>1. D = DOMAIN h /\ n = 0
      BY <2>2
    <3>2. Total(DOMAIN h, h) \in Nat
      BY TotalType DEF Histogram
    <3> QED
      BY <3>1, <3>2
  <2> QED
    BY <2>1, <2>2
<1>4. Total(D, h) \in Nat
  <2>1. IsFiniteSet(D)
    BY FS_Difference DEF Histogram
  <2> QED
    BY <2>1, TotalType DEF Histogram
<1> HIDE DEF n, D
<1> DEFINE k == n + 1
<1>5. k \in Nat
  BY <1>1
<1> HIDE DEF k
<1>6. /\ IsFiniteSet(DOMAIN With(h, v, k))
      /\ Total(DOMAIN With(h, v, k), With(h, v, k)) = Total(D, h) + k
  BY <1>5, TotalWith DEF Histogram, D
<1>7. \A y \in DOMAIN With(h, v, k) : With(h, v, k)[y] \in Nat
  BY <1>5 DEF With, Histogram
<1> QED
  BY <1>1, <1>2, <1>3, <1>4, <1>6, <1>7 DEF Histogram, Size, k

\* The samples of finitely many requests make it larger by one for each.
LEMMA ManySamples ==
  ASSUME NEW h, Histogram(h), NEW S, IsFiniteSet(S), NEW value
  PROVE  /\ Histogram(h (+) Samples(S, value))
         /\ Size(h (+) Samples(S, value)) = Size(h) + Cardinality(S)
<1> DEFINE B(R) == h (+) Samples(R, value)
           P == {n \in Nat : \A R \in SUBSET S :
                   Cardinality(R) = n =>
                     Histogram(B(R)) /\ Size(B(R)) = Size(h) + n}
<1>1. 0 \in P
  <2> SUFFICES ASSUME NEW R \in SUBSET S, Cardinality(R) = 0
               PROVE  Histogram(B(R)) /\ Size(B(R)) = Size(h) + 0
    OBVIOUS
  <2>1. R = {}
    BY FS_Subset, FS_EmptySet
  <2>2. DOMAIN B(R) = DOMAIN h /\ \A v \in DOMAIN h : B(R)[v] = h[v]
    BY <2>1 DEF (+), Samples, Histogram
  <2> HIDE DEF B
  <2>3. Total(DOMAIN h, B(R)) = Total(DOMAIN h, h)
    BY <2>2, TotalSame
  <2>4. Total(DOMAIN h, h) \in Nat
    BY TotalType DEF Histogram
  <2> QED
    BY <2>2, <2>3, <2>4 DEF Histogram, Size
<1>2. ASSUME NEW n \in Nat, n \in P PROVE n + 1 \in P
  <2> SUFFICES ASSUME NEW R \in SUBSET S, Cardinality(R) = n + 1
               PROVE  Histogram(B(R)) /\ Size(B(R)) = Size(h) + (n + 1)
    OBVIOUS
  <2>1. IsFiniteSet(R) /\ R # {}
    <3>1. IsFiniteSet(R)
      BY FS_Subset
    <3> QED
      BY <3>1, FS_EmptySet
  <2>2. PICK x \in R : TRUE
    BY <2>1
  <2> DEFINE Q == R \ {x}
             Same(T, v) == {r \in T : value[r] = v}
  <2>3. IsFiniteSet(Q) /\ Cardinality(Q) = n /\ Q \in SUBSET S
    <3>1. IsFiniteSet(Q) /\ Cardinality(Q) = Cardinality(R) - 1
      BY <2>1, <2>2, FS_RemoveElement
    <3> QED
      BY <3>1
  <2>4. Histogram(B(Q)) /\ Size(B(Q)) = Size(h) + n
    BY <1>2, <2>3
  <2>5. \A v : /\ IsFiniteSet(Same(Q, v)) /\ IsFiniteSet(Same(R, v))
               /\ Cardinality(Same(Q, v)) \in Nat
               /\ Cardinality(Same(R, v)) =
                    Cardinality(Same(Q, v)) + (IF v = value[x] THEN 1 ELSE 0)
    <3> TAKE v
    <3>1. Same(Q, v) \in SUBSET Q /\ Same(R, v) \in SUBSET R
      OBVIOUS
    <3>2. IsFiniteSet(Same(Q, v)) /\ IsFiniteSet(Same(R, v))
      BY <2>1, <2>3, <3>1, FS_Subset
    <3>3. Cardinality(Same(Q, v)) \in Nat
      BY <3>2, FS_CardinalityType
    <3>4. CASE v = value[x]
      <4>1. Same(R, v) = Same(Q, v) \cup {x} /\ x \notin Same(Q, v)
        BY <2>2, <3>4
      <4> HIDE DEF Same
      <4>2. Cardinality(Same(R, v)) = Cardinality(Same(Q, v)) + 1
        BY <3>2, <4>1, FS_AddElement
      <4> QED
        BY <3>2, <3>3, <3>4, <4>2
    <3>5. CASE v # value[x]
      <4>1. Same(R, v) = Same(Q, v)
        BY <2>2, <3>5
      <4> HIDE DEF Same
      <4> QED
        BY <3>2, <3>3, <3>5, <4>1
    <3> QED
      BY <3>2, <3>3, <3>4, <3>5
  <2>6. \A v : v \notin {value[r] : r \in Q} => Cardinality(Same(Q, v)) = 0
    <3> TAKE v
    <3>1. v \notin {value[r] : r \in Q} => Same(Q, v) = {}
      OBVIOUS
    <3> QED
      BY <3>1, FS_EmptySet
  <2>7. {value[r] : r \in R} = {value[r] : r \in Q} \cup {value[x]}
    BY <2>2
  <2> DEFINE At(v) == IF v \in DOMAIN h THEN h[v] ELSE 0
             More(v) == IF v = value[x] THEN 1 ELSE 0
             D == DOMAIN h \cup {value[r] : r \in Q}
             E == D \cup {value[x]}
             C(v) == Cardinality(Same(Q, v))
  <2>8. \A v : At(v) \in Nat /\ More(v) \in Nat /\ C(v) \in Nat
    BY <2>5 DEF Histogram
  <2>9. B(Q) = [v \in D |-> At(v) + C(v)]
    <3>1. B(Q) = [v \in D |-> At(v) + IF v \in {value[r] : r \in Q} THEN C(v) ELSE 0]
      BY DEF (+), Samples
    <3> HIDE DEF At, D
    <3> QED
      BY <2>6, <3>1
  <2>10. B(R) = [v \in E |-> At(v) + (C(v) + More(v))]
    <3>1. B(R) = [v \in E |-> At(v) + IF v \in {value[r] : r \in R}
                                      THEN Cardinality(Same(R, v)) ELSE 0]
      BY <2>7 DEF (+), Samples
    <3>2. \A v \in E : v \notin {value[r] : r \in R} => C(v) = 0 /\ More(v) = 0
      BY <2>6, <2>7
    <3>3. \A v : Cardinality(Same(R, v)) = C(v) + More(v)
      BY <2>5
    <3> HIDE DEF At, E, D, B, C, More, Same
    <3> QED
      BY <2>8, <3>1, <3>2, <3>3
  <2>11. B(Q) (+) SetToBag({value[x]}) = [v \in E |-> (At(v) + C(v)) + More(v)]
    <3> HIDE DEF B, At, C, Same
    <3>1. \A v \in E \ D : v = value[x]
      OBVIOUS
    <3>2. \A v : v \notin D => At(v) = 0 /\ C(v) = 0
      BY <2>6 DEF At, C
    <3> HIDE DEF D
    <3>3. B(Q) (+) SetToBag({value[x]})
            = [v \in E |-> (IF v \in D THEN At(v) + C(v) ELSE 0)
                             + (IF v \in {value[x]} THEN 1 ELSE 0)]
      BY <2>9 DEF (+), SetToBag
    <3> HIDE DEF E
    <3> QED
      BY <3>2, <3>3, <2>8
  <2>12. B(R) = B(Q) (+) SetToBag({value[x]})
    <3> HIDE DEF B, At, C, Same, More, E
    <3> QED
      BY <2>8, <2>10, <2>11
  <2> HIDE DEF B, P
  <2>13. Histogram(B(R)) /\ Size(B(R)) = Size(B(Q)) + 1
    BY <2>4, <2>12, OneSample
  <2>14. Size(h) \in Nat
    BY TotalType DEF Histogram, Size
  <2> QED
    BY <2>4, <2>13, <2>14
<1>3. Cardinality(S) \in P
  <2>1. Cardinality(S) \in Nat
    BY FS_CardinalityType
  <2> HIDE DEF P
  <2> QED
    BY <1>1, <1>2, <2>1, SetInduction
<1> QED
  BY <1>3

-----------------------------------------------------------------------------
(* Counters and lives *)

Outputs(w) == [r \in RequestId |-> w[r].output]

\* The collector m has all its parts, and they add up over the lives of requests
\* of which running are in flight, behind have left prefill, decoded have a first
\* token, and finished are done.
Counted(m, w, running, behind, decoded, finished) ==
  /\ DOMAIN m = DOMAIN NewMetrics
  /\ m.preemptions \in Nat
  /\ Histogram(m.prefill_lat) /\ Histogram(m.ttft)
  /\ m.completions = Cardinality(finished)
  /\ m.tokens_generated = Total(finished, Outputs(w))
  /\ Size(m.prefill_lat) = Cardinality(behind) + m.preemptions
  /\ /\ Cardinality(decoded) <= Size(m.ttft)
     /\ Size(m.ttft) <= Cardinality(decoded) + m.preemptions
  /\ m.kv_util_samples
       = Cardinality(running) + 2 * (Cardinality(finished) + m.preemptions)

LivesCounted == Counted(metrics, workload, Running, LeftPrefill, Decoded, done)

\* The sets of requests that are counted.
LEMMA SetsCounted ==
  ASSUME SimInv
  PROVE  /\ \A S \in SUBSET RequestId : IsFiniteSet(S) /\ Cardinality(S) \in Nat
         /\ Running \subseteq RequestId /\ LeftPrefill \subseteq RequestId
         /\ Decoded \subseteq LeftPrefill /\ done \subseteq Decoded
<1>1. \A S \in SUBSET RequestId : IsFiniteSet(S) /\ Cardinality(S) \in Nat
  BY KvAssumption, FS_Subset, FS_CardinalityType
<1> QED
  BY <1>1 DEF SimInv, Placed, Running, LeftPrefill, Decoded

\* A set and what it has more than another one.
LEMMA Grown ==
  ASSUME NEW S, NEW T, IsFiniteSet(S), IsFiniteSet(T), S \cap T = {}
  PROVE  Cardinality(S \cup T) = Cardinality(S) + Cardinality(T)
<1>1. Cardinality(S \cup T) = Cardinality(S) + Cardinality(T) - 0
  BY FS_Union, FS_EmptySet
<1> QED
  BY <1>1, FS_CardinalityType

\* Handlers that record neither a life nor a part of one.
LEMMA CountedSame ==
  ASSUME LivesCounted, workload' = workload, DOMAIN metrics' = DOMAIN metrics,
         \A part \in DOMAIN NewMetrics \ {"prefill_busy_secs", "decode_busy_secs"} :
           metrics'[part] = metrics[part],
         Running' = Running, LeftPrefill' = LeftPrefill, Decoded' = Decoded,
         done' = done
  PROVE  LivesCounted'
BY DEF LivesCounted, Counted, NewMetrics

\* A preempted request leaves and is counted among the preempted.
LEMMA PreemptionCounted ==
  ASSUME SimInv, LivesCounted, MeterPreemption
  PROVE  LivesCounted'
<1>1. PICK r \in CandidateVictims : decoding' = Without(decoding, r)
  BY DEF MeterPreemption, TickPreempts
<1>2. /\ Pops("SchedulerTick") /\ metrics' = RecordPreemption(metrics)
      /\ prefilling' = prefilling /\ transferring' = transferring /\ done' = done
  BY DEF MeterPreemption, TickPreempts
<1>3. r \in DOMAIN decoding
  BY DEF CandidateVictims, Victims
<1>4. workload' = workload
  BY <1>2, Popped
<1>5. /\ Running' = Running \ {r} /\ r \in Running
      /\ LeftPrefill' = LeftPrefill \ {r} /\ r \in LeftPrefill
      /\ Decoded' = Decoded \ {r} /\ done' = done
  BY <1>1, <1>2, <1>3 DEF Running, LeftPrefill, Decoded, Without, SimInv, Placed
<1>6. /\ Cardinality(Running') = Cardinality(Running) - 1
      /\ Cardinality(LeftPrefill') = Cardinality(LeftPrefill) - 1
      /\ Cardinality(Decoded') \in {Cardinality(Decoded), Cardinality(Decoded) - 1}
  <2>1. IsFiniteSet(Running) /\ IsFiniteSet(LeftPrefill) /\ IsFiniteSet(Decoded)
    BY SetsCounted
  <2> QED
    BY <1>5, <2>1, FS_RemoveElement
<1>7. /\ Cardinality(Running) \in Nat /\ Cardinality(LeftPrefill) \in Nat
      /\ Cardinality(Decoded) \in Nat /\ Cardinality(done) \in Nat
  BY SetsCounted
<1>8. /\ DOMAIN metrics' = DOMAIN metrics
      /\ metrics'.preemptions = metrics.preemptions + 1
      /\ metrics'.kv_util_samples = metrics.kv_util_samples + 1
      /\ \A part \in DOMAIN NewMetrics \ {"preemptions", "kv_util_samples"} :
           metrics'[part] = metrics[part]
  BY <1>2 DEF RecordPreemption, LivesCounted, Counted, NewMetrics
<1>9. Size(metrics.ttft) \in Nat
  BY TotalType DEF LivesCounted, Counted, Histogram, Size
<1> QED
  BY <1>4, <1>5, <1>6, <1>7, <1>8, <1>9 DEF LivesCounted, Counted, NewMetrics

\* An admitted request starts a life.
LEMMA AdmissionsCounted ==
  ASSUME SimInv, SimInv', LivesCounted, MeterAdmissions
  PROVE  LivesCounted'
<1>1. /\ Pops("SchedulerTick")
      /\ metrics' = RecordAdmissions(metrics, prefilling' \ prefilling)
      /\ transferring' = transferring /\ decoding' = decoding /\ done' = done
  BY DEF MeterAdmissions, TickAdmits
<1> DEFINE new == prefilling' \ prefilling
<1>2. workload' = workload
  BY <1>1, Popped
<1>3. prefilling \subseteq prefilling'
  <2>1. PICK admit : prefilling' = AdmitAll(admit).prefilling
    BY DEF MeterAdmissions, TickAdmits
  <2>2. Len(waiting) \in Nat
    BY LenProperties DEF SimInv, Placed, Line
  <2> QED
    BY <2>1, <2>2, PrefillGrows
<1>4. Running' = Running \cup new /\ Running \cap new = {} /\ new \in SUBSET RequestId
  BY <1>1, <1>3 DEF Running, SimInv, Placed
<1>5. LeftPrefill' = LeftPrefill /\ Decoded' = Decoded
  BY <1>1 DEF LeftPrefill, Decoded
<1>6. /\ Cardinality(Running) \in Nat /\ Cardinality(new) \in Nat
      /\ Cardinality(done) \in Nat
      /\ Cardinality(Running') = Cardinality(Running) + Cardinality(new)
  <2> HIDE DEF new
  <2> QED
    BY <1>4, SetsCounted, Grown
<1>7. /\ DOMAIN metrics' = DOMAIN metrics
      /\ metrics'.kv_util_samples = metrics.kv_util_samples + Cardinality(new)
      /\ \A part \in DOMAIN NewMetrics \ {"kv_util_samples"} :
           metrics'[part] = metrics[part]
  BY <1>1 DEF RecordAdmissions, LivesCounted, Counted, NewMetrics
<1> HIDE DEF new
<1>8. metrics'.kv_util_samples
        = Cardinality(Running') + 2 * (Cardinality(done) + metrics.preemptions)
  BY <1>6, <1>7 DEF LivesCounted, Counted
<1>9. \A part \in {"preemptions", "prefill_lat", "ttft", "completions",
                   "tokens_generated"} : metrics'[part] = metrics[part]
  BY <1>7 DEF NewMetrics
<1> QED
  BY <1>1, <1>2, <1>5, <1>7, <1>8, <1>9 DEF LivesCounted, Counted

\* A request that leaves prefill has its latency recorded.
LEMMA PrefillEndCounted ==
  ASSUME SimInv, LivesCounted, MeterPrefillEnd
  PROVE  LivesCounted'
<1> DEFINE r == Event0.req
           t == AtLeast1us(Now - workload[r].arrival)
<1>1. Pops("PrefillDone") /\ done' = done /\ prefilling' = prefilling \ {r}
  BY Popped DEF MeterPrefillEnd, PrefillEndsCoupled, PrefillEndsDisaggregated
<1>2. r \in prefilling /\ workload' = workload
  BY <1>1, Popped
<1>3. metrics' = [metrics EXCEPT !.prefill_lat = @ (+) SetToBag({t})]
  BY <1>2 DEF MeterPrefillEnd, RecordPrefillLatency
<1>4. \/ transferring' = transferring /\ decoding' = With(decoding, r, 0)
      \/ transferring' = transferring \cup {r} /\ decoding' = decoding
  BY <1>2 DEF MeterPrefillEnd, PrefillEndsCoupled, PrefillEndsDisaggregated
<1>5. /\ r \notin transferring /\ r \notin DOMAIN decoding /\ r \notin done
      /\ r \in RequestId
  BY <1>2 DEF SimInv, Placed, Running
<1>6. /\ Running' = Running
      /\ LeftPrefill' = LeftPrefill \cup {r} /\ r \notin LeftPrefill
      /\ Decoded' = Decoded
  BY <1>1, <1>2, <1>4, <1>5 DEF Running, LeftPrefill, Decoded, With
<1>7. /\ Cardinality(LeftPrefill) \in Nat
      /\ Cardinality(LeftPrefill') = Cardinality(LeftPrefill) + 1
  <2>1. IsFiniteSet(LeftPrefill) /\ Cardinality(LeftPrefill) \in Nat
    BY SetsCounted
  <2> QED
    BY <1>6, <2>1, FS_AddElement
<1> HIDE DEF t
<1>8. /\ DOMAIN metrics' = DOMAIN metrics
      /\ metrics'.prefill_lat = metrics.prefill_lat (+) SetToBag({t})
      /\ \A part \in DOMAIN NewMetrics \ {"prefill_lat"} :
           metrics'[part] = metrics[part]
  BY <1>3 DEF LivesCounted, Counted, NewMetrics
<1>9. /\ Histogram(metrics'.prefill_lat)
      /\ Size(metrics'.prefill_lat) = Size(metrics.prefill_lat) + 1
  BY <1>8, OneSample DEF LivesCounted, Counted
<1> QED
  BY <1>1, <1>2, <1>6, <1>7, <1>8, <1>9 DEF LivesCounted, Counted, NewMetrics

\* A decode step records first tokens and ends of lives.
LEMMA StepCounted ==
  ASSUME SimInv, SimInv', LivesCounted, MeterDecodeStep
  PROVE  LivesCounted'
<1> DEFINE ttft == [r \in GetFirstToken |-> AtLeast1us(StepDone - workload[r].arrival)]
           S == GetFirstToken
           C == Completed
<1>1. /\ Pops("BatchDecodeStep")
      /\ decoding' = [r \in DOMAIN decoding \ C |-> NextStep(r)]
      /\ done' = done \cup C
      /\ prefilling' = prefilling /\ transferring' = transferring
  BY DEF MeterDecodeStep, DecodeStep
<1>2. workload' = workload
  BY <1>1, Popped
<1>3. /\ DOMAIN metrics' = DOMAIN metrics
      /\ metrics'.ttft = metrics.ttft (+) Samples(S, ttft)
      /\ metrics'.completions = metrics.completions + Cardinality(C)
      /\ metrics'.tokens_generated
           = metrics.tokens_generated + Total(C, [r \in C |-> workload[r].output])
      /\ metrics'.kv_util_samples = metrics.kv_util_samples + Cardinality(C)
      /\ metrics'.preemptions = metrics.preemptions
      /\ metrics'.prefill_lat = metrics.prefill_lat
  BY DEF MeterDecodeStep, RecordFirstTokens, RecordCompletions, LivesCounted, Counted,
         NewMetrics
<1>4. C \subseteq DOMAIN decoding /\ S \subseteq DOMAIN decoding
      /\ DOMAIN decoding \subseteq RequestId
  BY DEF Completed, GetFirstToken, SimInv, Placed
<1>5. \A r \in DOMAIN decoding : NextStep(r) > 0
  <2> TAKE r \in DOMAIN decoding
  <2>1. decoding[r] \in Nat /\ workload \in Workload /\ r \in RequestId
    BY WorkloadsTyped DEF SimInv, Placed
  <2>2. workload[r].output \in Nat \ {0} /\ Advance \in Nat \ {0}
    BY <2>1, SimulatorAssumption DEF Workload
  <2> QED
    BY <2>1, <2>2 DEF NextStep, Least
<1>6. /\ Running = Running' \cup C /\ Running' \cap C = {}
      /\ LeftPrefill' = LeftPrefill
      /\ Decoded' = Decoded \cup S /\ Decoded \cap S = {}
      /\ done \cap C = {}
  <2>1. \A r \in DOMAIN decoding : decoding[r] > 0 \/ r \in S
    BY DEF GetFirstToken, SimInv, Placed
  <2>2. \A r \in S : decoding[r] = 0
    BY DEF GetFirstToken
  <2>3. DOMAIN decoding' = DOMAIN decoding \ C
        /\ \A r \in DOMAIN decoding' : decoding'[r] > 0
    BY <1>1, <1>5
  <2>4. Running \cap done = {} /\ Running' \cap done' = {}
    BY DEF SimInv, Placed
  <2> HIDE DEF S, C
  <2>5. Decoded' = (DOMAIN decoding \ C) \cup (done \cup C)
    BY <1>1, <2>3 DEF Decoded
  <2>6. Decoded \cup S = DOMAIN decoding \cup done
    BY <1>4, <2>1 DEF Decoded
  <2>7. Decoded \cap S = {}
    BY <1>4, <2>2, <2>4 DEF Decoded, Running
  <2>8. LeftPrefill' = LeftPrefill
    BY <1>1, <1>4, <2>3 DEF LeftPrefill
  <2>9. Running = Running' \cup C /\ Running' \cap C = {} /\ done \cap C = {}
    BY <1>1, <1>4, <2>3, <2>4 DEF Running
  <2> QED
    BY <1>4, <2>5, <2>6, <2>7, <2>8, <2>9
<1> HIDE DEF S, C, ttft
<1>7. /\ IsFiniteSet(S) /\ IsFiniteSet(C) /\ IsFiniteSet(Decoded) /\ IsFiniteSet(done)
      /\ IsFiniteSet(Running')
      /\ Cardinality(S) \in Nat /\ Cardinality(C) \in Nat
      /\ Cardinality(Decoded) \in Nat /\ Cardinality(done) \in Nat
      /\ Cardinality(Running') \in Nat
  <2>1. S \subseteq RequestId /\ C \subseteq RequestId /\ Running' \subseteq RequestId
    BY <1>4, <1>6, SetsCounted
  <2> QED
    BY <2>1, SetsCounted
<1>8. /\ Cardinality(Running) = Cardinality(Running') + Cardinality(C)
      /\ Cardinality(Decoded') = Cardinality(Decoded) + Cardinality(S)
      /\ Cardinality(done') = Cardinality(done) + Cardinality(C)
  <2>1. Cardinality(Running' \cup C) = Cardinality(Running') + Cardinality(C)
    BY <1>6, <1>7, Grown
  <2>2. Cardinality(Decoded \cup S) = Cardinality(Decoded) + Cardinality(S)
    BY <1>6, <1>7, Grown
  <2>3. Cardinality(done \cup C) = Cardinality(done) + Cardinality(C)
    BY <1>6, <1>7, Grown
  <2> QED
    BY <1>1, <1>6, <2>1, <2>2, <2>3
<1>9. Total(done', Outputs(workload))
        = Total(done, Outputs(workload)) + Total(C, [r \in C |-> workload[r].output])
  <2> DEFINE f == Outputs(workload)
             g == [r \in C |-> workload[r].output]
  <2>1. \A r \in done \cup C : f[r] \in Nat
    BY <1>4, WorkloadsTyped DEF Outputs, SimInv, Placed
  <2>2. \A r \in C : f[r] = g[r]
    BY <1>4 DEF Outputs
  <2> HIDE DEF f, g
  <2>3. Total(done \cup C, f) = Total(done, f) + Total(C, f)
    BY <1>6, <1>7, <2>1, TotalSplit
  <2>4. Total(C, f) = Total(C, g)
    BY <2>2, TotalSame
  <2> QED
    BY <1>1, <2>3, <2>4 DEF f, g
<1>10. /\ Histogram(metrics'.ttft)
       /\ Size(metrics'.ttft) = Size(metrics.ttft) + Cardinality(S)
       /\ Size(metrics.ttft) \in Nat
  <2>1. Histogram(metrics.ttft)
    BY DEF LivesCounted, Counted
  <2>2. Size(metrics.ttft) \in Nat
    BY <2>1, TotalType DEF Histogram, Size
  <2> QED
    BY <1>3, <1>7, <2>1, <2>2, ManySamples
<1> QED
  BY <1>2, <1>3, <1>6, <1>7, <1>8, <1>9, <1>10 DEF LivesCounted, Counted

\* Every step keeps the counters true to the lives of requests.
LEMMA LivesCountedNext ==
  SimInv /\ LivesCounted /\ [MeteredNext]_<<vars, meters>> => LivesCounted'
<1> SUFFICES ASSUME SimInv, LivesCounted, [MeteredNext]_<<vars, meters>>
             PROVE  LivesCounted'
  OBVIOUS
<1>1. SimInv'
  BY MeteredStep, SimInvNext
<1>2. CASE MeterPreemption
  BY <1>2, PreemptionCounted
<1>3. CASE MeterAdmissions
  BY <1>1, <1>3, AdmissionsCounted
<1>4. CASE MeterPrefillStart
  <2>1. /\ Pops("PrefillStart") /\ prefilling' = prefilling
        /\ transferring' = transferring /\ decoding' = decoding /\ done' = done
        /\ metrics' = [metrics EXCEPT !.prefill_busy_secs = @ + PrefillBusy]
    BY <1>4 DEF MeterPrefillStart, HandlePrefillStart
  <2>2. workload' = workload
    BY <2>1, Popped
  <2>3. /\ DOMAIN metrics' = DOMAIN metrics
        /\ \A part \in DOMAIN NewMetrics \ {"prefill_busy_secs"} :
             metrics'[part] = metrics[part]
    BY <2>1 DEF LivesCounted, Counted, NewMetrics
  <2> QED
    BY <2>1, <2>2, <2>3, CountedSame DEF Running, LeftPrefill, Decoded
<1>5. CASE MeterPrefillEnd
  BY <1>5, PrefillEndCounted
<1>6. CASE MeterDecodeStep
  BY <1>1, <1>6, StepCounted
<1>7. CASE MeterNothing
  <2>1. metrics' = metrics
    BY <1>7 DEF MeterNothing
  <2>2. CASE HandleArrival \/ PrefillContinues \/ DecodeNothing
    <3>1. /\ Pops("RequestArrival") \/ Pops("PrefillDone") \/ Pops("BatchDecodeStep")
          /\ prefilling' = prefilling /\ transferring' = transferring
          /\ decoding' = decoding /\ done' = done
      BY <2>2 DEF HandleArrival, PrefillContinues, DecodeNothing, requests
    <3>2. workload' = workload
      BY <3>1, Popped
    <3> QED
      BY <2>1, <3>1, <3>2, CountedSame DEF Running, LeftPrefill, Decoded
  <2>3. ASSUME NEW latency \in TransferLatencies, HandleKvTransfer(latency)
        PROVE  LivesCounted'
    <3> DEFINE r == Event0.req
    <3>1. /\ Pops("KvTransfer") /\ prefilling' = prefilling /\ done' = done
          /\ transferring' = transferring \ {r}
          /\ decoding' = IF r \in transferring THEN With(decoding, r, 0) ELSE decoding
      BY <2>3 DEF HandleKvTransfer
    <3>2. r \in transferring /\ workload' = workload
      BY <3>1, Popped
    <3>3. r \notin DOMAIN decoding
      BY <3>2 DEF SimInv, Placed
    <3>4. Running' = Running /\ LeftPrefill' = LeftPrefill /\ Decoded' = Decoded
      BY <3>1, <3>2, <3>3 DEF Running, LeftPrefill, Decoded, With
    <3> QED
      BY <2>1, <3>1, <3>2, <3>4, CountedSame
  <2> QED
    BY <1>7, <2>2, <2>3 DEF MeterNothing
<1>8. CASE UNCHANGED <<vars, meters>> \/ ((PassesHorizon \/ Returned) /\ UNCHANGED meters)
  <2>1. /\ workload' = workload /\ metrics' = metrics /\ prefilling' = prefilling
        /\ transferring' = transferring /\ decoding' = decoding /\ done' = done
    BY <1>8 DEF PassesHorizon, Returned, vars, requests, meters
  <2> QED
    BY <2>1, CountedSame DEF Running, LeftPrefill, Decoded
<1> QED
  BY <1>2, <1>3, <1>4, <1>5, <1>6, <1>7, <1>8 DEF MeteredNext

\* The counters of the collector add up over the lives of all requests.
THEOREM SimCountersMatchLives == MeteredSpec => []CountersMatchLives
<1>1. MeteredInit => SimInv /\ LivesCounted
  <2> SUFFICES ASSUME MeteredInit PROVE LivesCounted
    BY SimInvInit DEF MeteredInit
  <2>1. Running = {} /\ LeftPrefill = {} /\ Decoded = {} /\ done = {}
        /\ metrics = NewMetrics
    BY DEF MeteredInit, Init, Running, LeftPrefill, Decoded, Empty
  <2>2. DOMAIN EmptyBag = {}
    BY DEF EmptyBag, SetToBag
  <2>3. Histogram(EmptyBag) /\ Size(EmptyBag) = 0
    BY <2>2, FS_EmptySet, TotalEmpty DEF Histogram, Size
  <2>4. Cardinality({}) = 0 /\ Total({}, Outputs(workload)) = 0
    BY FS_EmptySet, TotalEmpty
  <2> QED
    BY <2>1, <2>3, <2>4 DEF LivesCounted, Counted, NewMetrics
<1>2. SimInv /\ LivesCounted /\ [MeteredNext]_<<vars, meters>>
        => SimInv' /\ LivesCounted'
  BY MeteredStep, SimInvNext, LivesCountedNext
<1>3. SimInv /\ LivesCounted => CountersMatchLives
  <2> SUFFICES ASSUME SimInv, LivesCounted PROVE CountersMatchLives
    OBVIOUS
  <2> DEFINE f == Outputs(workload)
             g == [r \in done |-> workload[r].output]
  <2>1. \A r \in done : f[r] = g[r]
    BY DEF Outputs, SimInv, Placed
  <2> HIDE DEF f, g
  <2>2. Total(done, f) = Total(done, g)
    BY <2>1, TotalSame
  <2>3. Cardinality(Decoded) \in Nat /\ Size(metrics.ttft) \in Nat
    BY SetsCounted, TotalType DEF LivesCounted, Counted, Histogram, Size
  <2> QED
    BY <2>2, <2>3 DEF LivesCounted, Counted, CountersMatchLives, f, g
<1> QED
  BY <1>1, <1>2, <1>3, PTL DEF MeteredSpec

-----------------------------------------------------------------------------
(* Energy *)

\* The energy of n chips of power W that worked p and d, between when they idle
\* for T and when they all work until X.
Envelope(p, d, n, T, X, W) ==
  LET e == W * (p * 90 + d * 65 + SatSub(T * n, p + d) * 35)
  IN  /\ e >= 35 * (n * W) * T
      /\ e >= W * 65 * (p + d)
      /\ e <= 90 * (n * W) * X

\* Work within n times X, which is T at least, costs what is between.
LEMMA EnergyBounds ==
  ASSUME NEW p \in Nat, NEW d \in Nat, NEW n \in Nat, NEW T \in Nat, NEW X \in Nat,
         NEW W \in Nat, p + d <= n * X, T <= X
  PROVE  Envelope(p, d, n, T, X, W)
<1> DEFINE idle == SatSub(T * n, p + d)
           u == p * 90 + d * 65 + idle * 35
<1>1. T * n \in Nat /\ n * X \in Nat /\ T * n <= n * X
  <2>1. T * n <= X * n /\ X * n = n * X /\ T * n \in Nat /\ n * X \in Nat
    BY ProductGrows
  <2> QED
    BY <2>1
<1>2. /\ idle \in Nat /\ T * n <= idle + (p + d)
      /\ idle + (p + d) = T * n \/ idle = 0
  BY <1>1 DEF SatSub
<1>3. /\ u \in Nat
      /\ (n * T) * 35 <= u
      /\ 65 * (p + d) <= u
      /\ u <= (n * X) * 90
  <2>1. n * T = T * n
    OBVIOUS
  <2> DEFINE a == T * n
             c == n * X
  <2>2. a \in Nat /\ c \in Nat /\ a <= c /\ p + d <= c /\ n * T = a
        /\ a <= idle + (p + d) /\ (idle + (p + d) = a \/ idle = 0)
    BY <1>1, <1>2, <2>1
  <2> HIDE DEF a, c, idle
  <2>3. u \in Nat /\ a * 35 <= u /\ 65 * (p + d) <= u /\ u <= c * 90
    BY <1>2, <2>2
  <2> QED
    BY <2>2, <2>3 DEF c
<1> HIDE DEF u
<1>4. /\ ((n * T) * 35) * W <= u * W
      /\ (65 * (p + d)) * W <= u * W
      /\ u * W <= ((n * X) * 90) * W
  <2>1. (n * T) * 35 \in Nat /\ 65 * (p + d) \in Nat /\ (n * X) * 90 \in Nat
    OBVIOUS
  <2> QED
    BY <1>3, <2>1, ProductGrows
<1>5. /\ ((n * T) * 35) * W = 35 * (n * W) * T
      /\ (65 * (p + d)) * W = W * 65 * (p + d)
      /\ ((n * X) * 90) * W = 90 * (n * W) * X
      /\ u * W = W * u
  BY <1>3
<1> QED
  BY <1>4, <1>5 DEF u, idle, Envelope

\* A report is made once, of what is there when the loop is over.
ReportInv ==
  /\ deployment \in Deployments
  /\ summary # None =>
       /\ ended \/ queue = <<>>
       /\ left # Forever /\ summary = ToSummary(Until)

\* Every step of a run with its report is a step of the metered simulator.
LEMMA ReportStep == [ReportNext]_<<vars, meters, report>> => [MeteredNext]_<<vars, meters>>
BY DEF ReportNext, Summarise, report

\* Once the loop is over nothing moves any more.
LEMMA RunOver ==
  ASSUME ended \/ queue = <<>>, [MeteredNext]_<<vars, meters>>
  PROVE  UNCHANGED <<vars, meters>>
BY DEF MeteredNext, MeterPreemption, MeterAdmissions, MeterPrefillStart,
       MeterPrefillEnd, MeterDecodeStep, MeterNothing, HandleArrival, TickPreempts,
       TickAdmits, HandlePrefillStart, PrefillContinues, PrefillEndsCoupled,
       PrefillEndsDisaggregated, HandleKvTransfer, DecodeNothing, DecodeStep, Pops,
       PassesHorizon, Returned

\* Every step keeps the report true to the run.
LEMMA ReportInvNext ==
  ReportInv /\ [ReportNext]_<<vars, meters, report>> => ReportInv'
<1> SUFFICES ASSUME ReportInv, [ReportNext]_<<vars, meters, report>>
             PROVE  ReportInv'
  OBVIOUS
<1>1. CASE Summarise
  BY <1>1 DEF Summarise, ReportInv, vars, meters, ToSummary, Until
<1>2. CASE UNCHANGED report
  <2>1. CASE summary = None
    BY <1>2, <2>1 DEF ReportInv, report
  <2>2. CASE summary # None
    <3>1. UNCHANGED <<vars, meters>>
      BY <2>2, ReportStep, RunOver DEF ReportInv
    <3> QED
      BY <1>2, <3>1 DEF ReportInv, report, vars, meters, ToSummary, Until
  <2> QED
    BY <2>1, <2>2
<1> QED
  BY <1>1, <1>2 DEF ReportNext, report

\* What a report says of energy follows from the charges that it is made of.
LEMMA EnvelopeHolds == SimInv /\ ChargesFit /\ ReportInv => EnergyWithinEnvelope
<1> SUFFICES ASSUME SimInv, ChargesFit, ReportInv, summary # None,
                    summary.n_chips > 0, deployment.tdp_watts > 0,
                    summary.duration > 0
             PROVE  LET chip_power == summary.n_chips * deployment.tdp_watts
                        worked == metrics.prefill_busy_secs + metrics.decode_busy_secs
                        energy == summary.power.total_energy
                    IN  /\ energy >= IdleCoef * chip_power * summary.duration
                        /\ energy >= deployment.tdp_watts * DecodeCoef * worked
                        /\ energy <= PrefillCoef * chip_power * (summary.duration + Overrun)
  BY DEF EnergyWithinEnvelope
<1> DEFINE p == metrics.prefill_busy_secs
           d == metrics.decode_busy_secs
           W == deployment.tdp_watts
           n == NChips(deployment, config.disaggregate)
           T == Until
           X == Until + Overrun
           e == W * (p * 90 + d * 65 + SatSub(T * n, p + d) * 35)
<1>1. /\ left \in Nat /\ busy \in [Gpus -> Nat] /\ Fits(p, d, clock, busy, DecodeGpu)
      /\ deployment \in Deployments /\ summary = ToSummary(T)
  BY DEF SimInv, Typed, ChargesFit, ReportInv
<1>2. /\ p \in Nat /\ d \in Nat /\ clock \in Nat /\ T \in Nat
      /\ W \in Nat /\ deployment.tp \in Nat /\ deployment.pp \in Nat
      /\ deployment.ep \in Nat
  BY <1>1, DeploymentsAssumption DEF Fits, Until
<1>3. Overrun \in Nat /\ X \in Nat /\ T <= X
      /\ clock + busy["prefill"] <= X /\ clock + busy["decode"] <= X
  BY <1>1, <1>2 DEF Overrun, SatSub, Greatest, Until, Gpus
<1>4. /\ summary.n_chips = n /\ summary.duration = T
      /\ summary.power = PowerReport(p, d, T, n, W, metrics.tokens_generated,
                                     metrics.completions)
  BY <1>1 DEF ToSummary
<1>5. n \in Nat /\ n > 0
  <2>1. Greatest(deployment.tp, deployment.ep) \in Nat
    BY <1>2 DEF Greatest
  <2>2. Greatest(deployment.tp, deployment.ep) * deployment.pp \in Nat
    BY <1>2, <2>1
  <2> QED
    BY <1>4, <2>2 DEF NChips
<1>6. DecodeGpu = "decode" => n >= 2
  <2> DEFINE m == Greatest(deployment.tp, deployment.ep) * deployment.pp
  <2>1. m \in Nat
    BY <1>2 DEF Greatest
  <2>2. DecodeGpu = "decode" => n = m * 2
    BY DEF DecodeGpu, NChips
  <2> HIDE DEF m, n
  <2> QED
    BY <1>5, <2>1, <2>2
<1>7. p + d <= n * X
  <2> HIDE DEF n, X, p, d
  <2>1. X <= n * X
    <3>1. 1 * X <= n * X
      <4>1. 1 <= n
        BY <1>5
      <4> QED
        BY <1>3, <1>5, <4>1, ProductGrows
    <3> QED
      BY <1>3, <3>1
  <2>2. n >= 2 => 2 * X <= n * X
    BY <1>3, <1>5, ProductGrows
  <2>3. n * X \in Nat
    BY <1>3, <1>5
  <2>4. CASE DecodeGpu = "decode"
    <3>1. p <= clock + busy["prefill"] /\ d <= clock + busy["decode"]
      BY <1>1, <2>4 DEF Fits
    <3>2. busy["prefill"] \in Nat /\ busy["decode"] \in Nat
      BY <1>1 DEF Gpus
    <3> QED
      BY <1>2, <1>3, <1>6, <2>2, <2>3, <2>4, <3>1, <3>2
  <2>5. CASE DecodeGpu # "decode"
    <3>1. p + d <= clock + busy["prefill"]
      BY <1>1, <2>5 DEF Fits
    <3>2. busy["prefill"] \in Nat
      BY <1>1 DEF Gpus
    <3> QED
      BY <1>2, <1>3, <2>1, <2>3, <3>1, <3>2
  <2> QED
    BY <2>4, <2>5
<1>8. Envelope(p, d, n, T, X, W)
  <2> HIDE DEF p, d, n, T, X, W
  <2> QED
    BY <1>2, <1>3, <1>5, <1>7, EnergyBounds
<1>9. summary.power.total_energy = e
  <2>1. 0 \notin {W, T, n}
    BY <1>2, <1>4, <1>5
  <2> HIDE DEF p, d, n, T, X, W
  <2> QED
    BY <1>4, <2>1 DEF PowerReport, IdleSecs, PrefillCoef, DecodeCoef, IdleCoef
<1> QED
  BY <1>4, <1>8, <1>9 DEF Envelope, PrefillCoef, DecodeCoef, IdleCoef

\* The energy of every report lies between that of idling and that of all chips
\* at full prefill power.
THEOREM SimEnergyWithinEnvelope == ReportSpec => []EnergyWithinEnvelope
<1> DEFINE RInv == SimInv /\ ChargesFit /\ ReportInv
<1>1. ReportInit => RInv
  BY SimInvInit, ChargesFitInit DEF ReportInit, MeteredInit, ReportInv
<1>2. RInv /\ [ReportNext]_<<vars, meters, report>> => RInv'
  BY ReportStep, MeteredStep, SimInvNext, ChargesFitNext, ReportInvNext
<1>3. RInv => EnergyWithinEnvelope
  BY EnvelopeHolds
<1> QED
  BY <1>1, <1>2, <1>3, PTL DEF ReportSpec

-----------------------------------------------------------------------------
(* The shortest durations *)

Chunk == Shortest(PrefillLatencies)
Step == Shortest(DecodeLatencies)

\* A set of durations has a shortest one.
LEMMA ShortestHolds ==
  ASSUME NEW S, S \subseteq Nat, S # {}
  PROVE  Shortest(S) \in Nat /\ \A l \in S : Shortest(S) <= l
<1>1. PICK x \in S : \A y \in S : ~ (<<y, x>> \in OpToRel(<, Nat))
  BY NatLessThanWellFounded, WFMin
<1>2. \A y \in S : ~ (y < x)
  BY <1>1 DEF OpToRel
<1>3. x \in Nat /\ \A y \in S : x <= y
  BY <1>2
<1> QED
  BY <1>3 DEF Shortest

\* ... and so have those of chunks and of steps.
LEMMA DurationsHold ==
  /\ Chunk \in Nat /\ \A l \in PrefillLatencies : l \in Nat /\ Chunk <= l
  /\ Step \in Nat /\ \A l \in DecodeLatencies : l \in Nat /\ Step <= l
BY SimulatorAssumption, DurationsAssumption, ShortestHolds DEF Chunk, Step

-----------------------------------------------------------------------------
(* When events are due *)

\* No arrival is before its time, no chunk ends before it can.
Due(w, kind, r) == IF kind = "RequestArrival" THEN w[r].arrival
                   ELSE IF kind = "PrefillDone" THEN w[r].arrival + Chunk ELSE 0
EventsDue(q, t, w) == \A i \in DOMAIN q : t + q[i].time >= Due(w, q[i].kind, q[i].req)

\* A push of an event that is due keeps all events due.
LEMMA DuePush ==
  ASSUME NEW q \in Seq(SimEvents), NEW e \in SimEvents, NEW t, NEW w,
         EventsDue(q, t, w), t + e.time >= Due(w, e.kind, e.req)
  PROVE  EventsDue(Push(q, e), t, w)
<1> DEFINE k == DueBy(q, e.time)
           n == Len(q)
           p == Push(q, e)
<1>1. /\ DOMAIN p = 1 .. n + 1 /\ k \in 0 .. n
      /\ \A i \in 1 .. n + 1 : p[i] = IF i <= k THEN q[i]
                                      ELSE IF i = k + 1 THEN e ELSE q[i - 1]
  BY PushShape
<1>2. n \in Nat /\ DOMAIN q = 1 .. n
  BY LenProperties
<1> HIDE DEF k, n, p
<1>3. \A i \in DOMAIN p : p[i] = e \/ \E j \in DOMAIN q : p[i] = q[j]
  <2> TAKE i \in DOMAIN p
  <2>1. CASE i <= k
    BY <1>1, <1>2, <2>1
  <2>2. CASE i > k + 1
    <3>1. i - 1 \in DOMAIN q /\ p[i] = q[i - 1]
      BY <1>1, <1>2, <2>2
    <3> QED
      BY <3>1
  <2>3. CASE i = k + 1
    BY <1>1, <2>3
  <2> QED
    BY <1>1, <1>2, <2>1, <2>2, <2>3
<1>4. EventsDue(p, t, w)
  BY <1>3 DEF EventsDue
<1> QED
  BY <1>4 DEF p

\* The clock moves towards every event alike.
LEMMA DuePop ==
  ASSUME NEW q \in Seq(SimEvents), q # <<>>, NEW t \in Nat, NEW w, EventsDue(q, t, w)
  PROVE  /\ EventsDue(AfterPop(q), t + Head(q).time, w)
         /\ EventsDue(Tail(q), t, w)
         /\ t + Head(q).time >= Due(w, Head(q).kind, Head(q).req)
<1> DEFINE n == Len(q)
           h == Head(q)
           p == AfterPop(q)
           u == Tail(q)
<1>1. /\ DOMAIN q = 1 .. n /\ n \in Nat \ {0} /\ h = q[1]
      /\ \A i \in 1 .. n : q[i] \in SimEvents /\ q[i].time \in Nat
  <2>1. DOMAIN q = 1 .. n /\ n \in Nat
        /\ \A i \in 1 .. n : q[i] \in SimEvents /\ q[i].time \in Nat
    BY EventTimes DEF SimEvents
  <2>2. n # 0 /\ h = q[1]
    BY EmptySeq, HeadTailProperties
  <2> QED
    BY <2>1, <2>2
<1>2. h.time \in Nat /\ 1 \in DOMAIN q
  BY <1>1
<1>3. /\ DOMAIN p = 1 .. n - 1
      /\ \A i \in 1 .. n - 1 : p[i] = [q[i + 1] EXCEPT !.time = @ - h.time]
  BY DEF AfterPop
<1>4. DOMAIN u = 1 .. n - 1 /\ \A i \in 1 .. n - 1 : u[i] = q[i + 1]
  <2>1. Len(u) = n - 1 /\ DOMAIN u = 1 .. Len(u)
        /\ \A i \in 1 .. Len(u) : u[i] = q[i + 1]
    BY HeadTailProperties, LenProperties
  <2> QED
    BY <2>1
<1> HIDE DEF n, h, p, u
<1>5. ASSUME NEW i \in 1 .. n - 1
      PROVE  /\ i + 1 \in DOMAIN q
             /\ t + q[i + 1].time >= Due(w, q[i + 1].kind, q[i + 1].req)
             /\ p[i].kind = q[i + 1].kind /\ p[i].req = q[i + 1].req
             /\ (t + h.time) + p[i].time = t + q[i + 1].time
  <2>1. i + 1 \in 1 .. n
    BY <1>1
  <2>2. q[i + 1] \in SimEvents /\ q[i + 1].time \in Nat
    BY <1>1, <2>1
  <2>3. /\ p[i].kind = q[i + 1].kind /\ p[i].req = q[i + 1].req
        /\ p[i].time = q[i + 1].time - h.time
    BY <1>3, <2>2 DEF SimEvents, Events
  <2>4. i + 1 \in DOMAIN q /\ t + q[i + 1].time >= Due(w, q[i + 1].kind, q[i + 1].req)
    BY <1>1, <2>1 DEF EventsDue
  <2> QED
    BY <1>2, <2>2, <2>3, <2>4
<1>6. EventsDue(p, t + h.time, w)
  BY <1>3, <1>5 DEF EventsDue
<1>7. EventsDue(u, t, w)
  BY <1>4, <1>5 DEF EventsDue
<1>8. t + h.time >= Due(w, h.kind, h.req)
  BY <1>1, <1>2 DEF EventsDue
<1> QED
  BY <1>6, <1>7, <1>8 DEF p, u, h

\* Events that are due at any time.
LEMMA DueAnyTime ==
  ASSUME NEW t \in Nat, NEW r \in Anyone, NEW c \in Nat, NEW at \in Nat, NEW w,
         NEW e \in {Tick(at), StepDecode(at), TransferKv(at, r), StartPrefill(at, r, c)}
  PROVE  e \in SimEvents /\ e.time = at /\ t + e.time >= Due(w, e.kind, e.req)
<1>1. NoRequest \in Anyone
  BY DEF Anyone
<1> QED
  BY <1>1 DEF Tick, StepDecode, TransferKv, StartPrefill, Event, SimEvents, Events,
              Kinds, Due

\* Admissions push chunks that may start at once.
LEMMA DueAdmit ==
  ASSUME waiting \in Seq(RequestId), Rest \in Seq(SimEvents),
         NEW t \in Nat, NEW w, EventsDue(Rest, t, w),
         NEW admit, \A i \in DOMAIN admit : admit[i] \in Nat
  PROVE  EventsDue(AdmitAll(admit).queue, t, w)
<1> DEFINE n == Len(waiting)
<1>1. n \in Nat /\ DOMAIN waiting = 1 .. n /\ \A i \in 1 .. n : waiting[i] \in RequestId
  BY LenProperties, ElementOfSeq
<1>2. PICK s : /\ s[0] = LoopStart
               /\ \A i \in 1 .. n :
                    s[i] = IF i \in DOMAIN admit
                           THEN AdmitRequest(s[i - 1], waiting[i], admit[i])
                           ELSE s[i - 1]
               /\ AdmitAll(admit) = s[n]
  BY <1>1, LoopTurns
<1> HIDE DEF n
<1> DEFINE Keeps(x) == /\ DOMAIN x = LoopParts /\ x.queue \in Seq(SimEvents)
                       /\ EventsDue(x.queue, t, w)
           P == {i \in Nat : i <= n => Keeps(s[i])}
<1>3. 0 \in P
  BY <1>2 DEF LoopStart, LoopParts
<1>4. ASSUME NEW m \in Nat, m \in P PROVE m + 1 \in P
  <2> SUFFICES ASSUME m + 1 <= n PROVE Keeps(s[m + 1])
    OBVIOUS
  <2>1. m + 1 \in 1 .. n /\ (m + 1) - 1 = m /\ Keeps(s[m])
    BY <1>1, <1>4
  <2>2. CASE m + 1 \notin DOMAIN admit
    BY <1>2, <2>1, <2>2
  <2>3. CASE m + 1 \in DOMAIN admit
    <3> DEFINE r == waiting[m + 1]
               c == admit[m + 1]
               e == StartPrefill(0, r, c)
    <3>1. e \in SimEvents /\ t + e.time >= Due(w, e.kind, e.req)
      <4>1. r \in Anyone /\ c \in Nat
        BY <1>1, <2>1, <2>3 DEF Anyone
      <4> HIDE DEF r, c
      <4> QED
        BY <4>1, DueAnyTime
    <3>2. s[m + 1] = AdmitRequest(s[m], r, c)
      BY <1>2, <2>1, <2>3
    <3> HIDE DEF e
    <3>3. /\ Push(s[m].queue, e) \in Seq(SimEvents)
          /\ EventsDue(Push(s[m].queue, e), t, w)
      BY <2>1, <3>1, PushShape, DuePush
    <3> HIDE DEF r, c
    <3>4. /\ DOMAIN s[m + 1] = LoopParts
          /\ \/ s[m + 1].queue = s[m].queue
             \/ s[m + 1].queue = Push(s[m].queue, e)
      BY <2>1, <3>2, AdmitEffect DEF e
    <3> QED
      BY <2>1, <3>3, <3>4
  <2> QED
    BY <2>2, <2>3
<1>5. n \in P
  <2> HIDE DEF P
  <2> QED
    BY <1>1, <1>3, <1>4, SetInduction
<1> QED
  BY <1>1, <1>2, <1>5

-----------------------------------------------------------------------------
(* Steps of a request's output *)

\* Output that one more step covers takes one more step at most.
LEMMA OneMoreStep ==
  ASSUME NEW a \in Nat, NEW b \in Nat, NEW d \in Nat \ {0}, b <= a + d
  PROVE  CeilDiv(b, d) <= CeilDiv(a, d) + 1
<1> DEFINE x == CeilDiv(a, d)
           y == CeilDiv(b, d)
<1>1. x \in Nat /\ a <= x * d /\ y \in Nat
  BY CeilDivHolds
<1>2. y * d < b + d
  <2> DEFINE m == b + d - 1
             q == m \div d
  <2>1. m \in Nat
    OBVIOUS
  <2>2. m = d * q + (m % d) /\ m % d \in 0 .. (d - 1) /\ q \in Int
    BY <2>1, SMT
  <2> HIDE DEF q
  <2>3. d * q \in Int /\ d * q = q * d
    BY <2>2
  <2> HIDE DEF m
  <2>4. q * d <= m
    BY <2>1, <2>2, <2>3
  <2> QED
    BY <2>4 DEF CeilDiv, m, q
<1> HIDE DEF x, y
<1>3. SUFFICES ASSUME y >= x + 2 PROVE FALSE
  BY <1>1 DEF x, y
<1>4. (x + 2) * d <= y * d
  BY <1>1, <1>3, ProductGrows
<1>5. (x + 2) * d = x * d + 2 * d /\ x * d \in Nat /\ y * d \in Nat
  BY <1>1
<1> QED
  BY <1>1, <1>2, <1>4, <1>5

\* The time that the steps after the first of n tokens take at least.
Behind(n) == (CeilDiv(n, Advance) - 1) * Step

\* One more step adds one step's time, and the first adds none.
LEMMA BehindHolds ==
  ASSUME NEW n \in Nat, NEW m \in Nat, m <= n + Advance
  PROVE  /\ Behind(n) \in Int /\ Behind(m) \in Int
         /\ Behind(m) <= Behind(n) + Step
         /\ n = 0 => Behind(m) <= 0
<1> DEFINE x == CeilDiv(n, Advance)
           y == CeilDiv(m, Advance)
<1>1. Advance \in Nat \ {0} /\ Step \in Nat
  BY SimulatorAssumption, DurationsHold
<1>2. x \in Nat /\ y \in Nat /\ y <= x + 1
  BY <1>1, CeilDivHolds, OneMoreStep
<1>3. n = 0 => x = 0
  BY <1>1 DEF CeilDiv
<1> HIDE DEF x, y
<1>4. y * Step <= (x + 1) * Step
  BY <1>1, <1>2, ProductGrows
<1>5. /\ x * Step \in Nat /\ y * Step \in Nat /\ (x + 1) * Step = x * Step + Step
      /\ (x - 1) * Step = x * Step - Step /\ (y - 1) * Step = y * Step - Step
      /\ x = 0 => x * Step = 0
  BY <1>1, <1>2
<1>6. Behind(n) = x * Step - Step /\ Behind(m) = y * Step - Step
  BY <1>5 DEF Behind, x, y
<1> QED
  BY <1>1, <1>3, <1>4, <1>5, <1>6

-----------------------------------------------------------------------------
(* Samples that the hardware can produce *)

Arrived(t, w, S) == \A r \in S : w[r].arrival <= t

Prefilled(t, w, S, times) ==
  \A r \in S : /\ r \in DOMAIN times /\ times[r] \in Nat
               /\ w[r].arrival + Chunk <= times[r] /\ times[r] <= t

\* The steps that the requests of dec have behind them fit between their first
\* tokens and when the GPU is free.
Stepped(free, dec, times) ==
  \A r \in DOMAIN dec :
    dec[r] > 0 => /\ r \in DOMAIN times /\ times[r] \in Nat
                  /\ times[r] + Behind(dec[r]) <= free

\* The samples of m that its bounds are about.
Possible(m) ==
  /\ DOMAIN m = DOMAIN NewMetrics
  /\ \A t \in DOMAIN m.prefill_lat : t >= Chunk
  /\ \A t \in DOMAIN m.ttft : t >= Chunk + Step
  /\ \A t \in DOMAIN m.kv_transfer : t >= Step
  /\ \A s \in DOMAIN m.tpot : s[1] >= Behind(s[2] + 1)

InDecode == transferring \cup DOMAIN decoding

Timely ==
  /\ clock \in Nat
  /\ EventsDue(queue, clock, workload)
  /\ Arrived(clock, workload, InLine \cup prefilling)
  /\ Prefilled(clock, workload, InDecode, prefill_done_time)
  /\ Stepped(clock + busy[DecodeGpu], decoding, first_token_time)
  /\ Possible(metrics)

\* The workload, in numbers.
LEMMA ArrivalsTyped ==
  ASSUME SimInv
  PROVE  \A r \in RequestId : /\ workload[r].arrival \in Nat
                              /\ workload[r].prompt \in Nat
                              /\ workload[r].output \in Nat \ {0}
BY WorkloadsTyped DEF SimInv, Workload

\* What fits before the GPU is free fits before it is free later.
LEMMA SteppedLater ==
  ASSUME SimInv, NEW a \in Nat, NEW b \in Nat, a <= b,
         Stepped(a, decoding, first_token_time)
  PROVE  Stepped(b, decoding, first_token_time)
<1>1. \A r \in DOMAIN decoding : Behind(decoding[r]) \in Int
  BY SimulatorAssumption, BehindHolds DEF SimInv, Placed
<1> QED
  BY <1>1 DEF Stepped

\* What a handler finds: time has passed for everybody.
LEMMA TimelyPopped ==
  ASSUME SimInv, Timely, NEW kind, Pops(kind)
  PROVE  /\ Now \in Nat /\ clock <= Now
         /\ Rest \in Seq(SimEvents) /\ EventsDue(Rest, Now, workload)
         /\ Arrived(Now, workload, InLine \cup prefilling)
         /\ Prefilled(Now, workload, InDecode, prefill_done_time)
         /\ BusyNow \in [Gpus -> Nat] /\ DecodeGpu \in Gpus
         /\ clock + busy[DecodeGpu] <= Now + BusyNow[DecodeGpu]
         /\ Stepped(Now + BusyNow[DecodeGpu], decoding, first_token_time)
         /\ Now >= Due(workload, kind, Event0.req)
         /\ workload' = workload /\ DecodeGpu' = DecodeGpu
<1>1. /\ queue # <<>> /\ queue \in Seq(SimEvents) /\ busy \in [Gpus -> Nat]
      /\ clock \in Nat
  BY DEF Pops, SimInv, Typed, Timely
<1>2. /\ workload' = workload /\ config' = config /\ BusyNow \in [Gpus -> Nat]
      /\ Event0 \in SimEvents /\ Event0.kind = kind
  BY Popped
<1>3. Event0.time \in Nat
  BY <1>2, Accounts
<1>4. Rest \in Seq(SimEvents)
  BY <1>1, PopEffect DEF SimInv, SimEvents, Rest
<1>5. EventsDue(Rest, Now, workload) /\ Now >= Due(workload, kind, Event0.req)
  <2>1. EventsDue(queue, clock, workload)
    BY DEF Timely
  <2> QED
    BY <1>1, <1>2, <2>1, DuePop DEF Rest, Now, Event0
<1>6. Now \in Nat /\ clock <= Now
  BY <1>1, <1>3 DEF Now
<1>7. DecodeGpu \in Gpus /\ DecodeGpu' = DecodeGpu
  BY <1>2 DEF DecodeGpu, Gpus
<1>8. clock + busy[DecodeGpu] <= Now + BusyNow[DecodeGpu]
  <2>1. busy[DecodeGpu] \in Nat
        /\ BusyNow[DecodeGpu] = SatSub(busy[DecodeGpu], Event0.time)
    BY <1>1, <1>7 DEF BusyNow
  <2> QED
    BY <1>1, <1>3, <2>1 DEF Now, SatSub
<1>9. Arrived(Now, workload, InLine \cup prefilling)
  <2>1. InLine \cup prefilling \subseteq RequestId
    BY LineShape DEF SimInv, Placed, InLine, Ids
  <2> QED
    BY <1>1, <1>6, <2>1, ArrivalsTyped DEF Timely, Arrived
<1>10. Prefilled(Now, workload, InDecode, prefill_done_time)
  BY <1>1, <1>6 DEF Timely, Prefilled
<1>11. Stepped(Now + BusyNow[DecodeGpu], decoding, first_token_time)
  <2> DEFINE a == clock + busy[DecodeGpu]
             b == Now + BusyNow[DecodeGpu]
  <2>1. a \in Nat /\ b \in Nat /\ a <= b
    BY <1>1, <1>2, <1>6, <1>7, <1>8
  <2>2. Stepped(a, decoding, first_token_time)
    BY DEF Timely
  <2> HIDE DEF a, b
  <2>3. Stepped(b, decoding, first_token_time)
    BY <2>1, <2>2, SteppedLater
  <2> QED
    BY <2>3 DEF b
<1> QED
  BY <1>2, <1>4, <1>5, <1>6, <1>7, <1>8, <1>9, <1>10, <1>11

\* Handlers that leave the requests that decode, and their times, alone.
LEMMA TimelySame ==
  ASSUME SimInv, Timely, NEW kind, Pops(kind), clock' = Now, busy' = BusyNow,
         EventsDue(queue', Now, workload),
         Arrived(Now, workload, InLine' \cup prefilling'),
         InDecode' = InDecode, decoding' = decoding,
         prefill_done_time' = prefill_done_time, first_token_time' = first_token_time,
         Possible(metrics')
  PROVE  Timely'
BY TimelyPopped DEF Timely

\* An arriving request is on time.
LEMMA ArrivalTimely ==
  ASSUME SimInv, Timely, MeterNothing, HandleArrival, clock' = Now
  PROVE  Timely'
<1> DEFINE r == Event0.req
<1>1. /\ Pops("RequestArrival") /\ waiting' = Append(waiting, r)
      /\ queue' = Push(Rest, Tick(0)) /\ busy' = BusyNow
      /\ prefilling' = prefilling /\ InDecode' = InDecode /\ decoding' = decoding
      /\ prefill_done_time' = prefill_done_time
      /\ first_token_time' = first_token_time /\ metrics' = metrics
  BY DEF HandleArrival, MeterNothing, InDecode
<1>2. /\ Now \in Nat /\ Rest \in Seq(SimEvents) /\ EventsDue(Rest, Now, workload)
      /\ Arrived(Now, workload, InLine \cup prefilling)
      /\ Now >= Due(workload, "RequestArrival", r)
  BY <1>1, TimelyPopped
<1>3. InLine' = InLine \cup {r}
  <2>1. InLine = Ids(waiting) /\ InLine' = Ids(waiting')
    BY DEF InLine, Ids
  <2>2. Line(waiting) /\ r \in RequestId \ Ids(waiting)
    BY <1>1, <2>1, Popped DEF SimInv, Placed, Gone
  <2> QED
    BY <1>1, <2>1, <2>2, JoinBack
<1>4. r \in RequestId
  BY <1>1, Popped
<1>5. Arrived(Now, workload, InLine' \cup prefilling')
  <2>1. workload[r].arrival \in Nat /\ Now >= workload[r].arrival
    BY <1>2, <1>4, ArrivalsTyped DEF Due
  <2> QED
    BY <1>1, <1>2, <1>3, <2>1 DEF Arrived
<1>6. EventsDue(queue', Now, workload)
  <2> DEFINE e == Tick(0)
  <2>1. e \in SimEvents /\ Now + e.time >= Due(workload, e.kind, e.req)
    BY <1>2, <1>4, DueAnyTime DEF Anyone
  <2> HIDE DEF e
  <2>2. EventsDue(Push(Rest, e), Now, workload)
    BY <1>2, <2>1, DuePush
  <2> QED
    BY <1>1, <2>2 DEF e
<1>7. Possible(metrics')
  BY <1>1 DEF Timely
<1> QED
  BY <1>1, <1>5, <1>6, <1>7, TimelySame

\* A preempted request arrived long ago.
LEMMA PreemptionTimely ==
  ASSUME SimInv, Timely, MeterPreemption, clock' = Now
  PROVE  Timely'
<1>1. PICK r \in CandidateVictims :
        decoding' = Without(decoding, r) /\ waiting' = <<r>> \o waiting
  BY DEF MeterPreemption, TickPreempts
<1>2. /\ Pops("SchedulerTick") /\ queue' = Push(Rest, Tick(0)) /\ busy' = BusyNow
      /\ prefilling' = prefilling /\ transferring' = transferring
      /\ metrics' = RecordPreemption(metrics)
  BY DEF MeterPreemption, TickPreempts
<1>3. r \in DOMAIN decoding /\ r \in RequestId
  BY DEF CandidateVictims, Victims, SimInv, Placed
<1>4. /\ DOMAIN decoding' = DOMAIN decoding \ {r}
      /\ \A s \in DOMAIN decoding' : decoding'[s] = decoding[s]
      /\ r \notin transferring
  BY <1>1, <1>3 DEF Without, SimInv, Placed
<1>5. PICK s \in DOMAIN decoding \ DOMAIN decoding' :
        /\ prefill_done_time' = Without(prefill_done_time, s)
        /\ first_token_time' = Without(first_token_time, s)
  BY DEF MeterPreemption
<1>6. s = r
  BY <1>4, <1>5
<1>7. /\ Now \in Nat /\ Rest \in Seq(SimEvents) /\ EventsDue(Rest, Now, workload)
      /\ Arrived(Now, workload, InLine \cup prefilling)
      /\ Prefilled(Now, workload, InDecode, prefill_done_time)
      /\ BusyNow \in [Gpus -> Nat] /\ DecodeGpu \in Gpus
      /\ Stepped(Now + BusyNow[DecodeGpu], decoding, first_token_time)
      /\ workload' = workload /\ DecodeGpu' = DecodeGpu
  BY <1>2, TimelyPopped
<1>8. InLine' = InLine \cup {r}
  <2>1. InLine = Ids(waiting) /\ InLine' = Ids(waiting')
    BY DEF InLine, Ids
  <2>2. Line(waiting) /\ r \in RequestId \ Ids(waiting)
    BY <1>3, <2>1 DEF SimInv, Placed, Running
  <2> QED
    BY <1>1, <2>1, <2>2, JoinFront
<1>9. Arrived(Now, workload, InLine' \cup prefilling')
  <2>1. workload[r].arrival <= Now
    <3>1. /\ workload[r].arrival + Chunk <= prefill_done_time[r]
          /\ prefill_done_time[r] \in Nat /\ prefill_done_time[r] <= Now
      BY <1>3, <1>7 DEF Prefilled, InDecode
    <3>2. workload[r].arrival \in Nat /\ Chunk \in Nat
      BY <1>3, ArrivalsTyped, DurationsHold
    <3> QED
      BY <1>7, <3>1, <3>2
  <2> QED
    BY <1>2, <1>7, <1>8, <2>1 DEF Arrived
<1>10. EventsDue(queue', Now, workload)
  <2> DEFINE e == Tick(0)
  <2>1. e \in SimEvents /\ Now + e.time >= Due(workload, e.kind, e.req)
    BY <1>3, <1>7, DueAnyTime DEF Anyone
  <2> HIDE DEF e
  <2>2. EventsDue(Push(Rest, e), Now, workload)
    BY <1>7, <2>1, DuePush
  <2> QED
    BY <1>2, <2>2 DEF e
<1>11. Prefilled(Now, workload, InDecode', prefill_done_time')
  BY <1>2, <1>4, <1>5, <1>6, <1>7 DEF Prefilled, InDecode, Without
<1>12. Stepped(Now + BusyNow[DecodeGpu], decoding', first_token_time')
  BY <1>4, <1>5, <1>6, <1>7 DEF Stepped, Without
<1>13. Possible(metrics')
  BY <1>2 DEF Timely, Possible, RecordPreemption, NewMetrics
<1> QED
  BY <1>2, <1>7, <1>9, <1>10, <1>11, <1>12, <1>13 DEF Timely

\* Admitted requests were in line.
LEMMA AdmissionsTimely ==
  ASSUME SimInv, Timely, MeterAdmissions, clock' = Now
  PROVE  Timely'
<1>1. PICK s : /\ s = AdmitAll(Admitted)
               /\ waiting' = s.waiting /\ prefilling' = s.prefilling
               /\ queue' = s.queue
  BY DEF MeterAdmissions, TickAdmits
<1>2. /\ Pops("SchedulerTick") /\ busy' = BusyNow
      /\ InDecode' = InDecode /\ decoding' = decoding
      /\ prefill_done_time' = prefill_done_time
      /\ first_token_time' = first_token_time
      /\ metrics' = RecordAdmissions(metrics, prefilling' \ prefilling)
  BY DEF MeterAdmissions, TickAdmits, InDecode
<1>3. /\ Now \in Nat /\ Rest \in Seq(SimEvents) /\ EventsDue(Rest, Now, workload)
      /\ Arrived(Now, workload, InLine \cup prefilling)
  BY <1>2, TimelyPopped
<1>4. InLine' \cup prefilling' = InLine \cup prefilling
  <2>1. InLine' = Ids(waiting')
    BY DEF InLine, Ids
  <2>2. Admitting(s)
    BY <1>1, <1>2, TickAdmitting
  <2> QED
    BY <1>1, <2>1, <2>2 DEF Admitting
<1>5. EventsDue(queue', Now, workload)
  <2>1. Placed /\ workload \in Workload
    BY WorkloadsTyped DEF SimInv
  <2> DEFINE admit == Admitted
  <2>2. \A i \in DOMAIN admit : admit[i] \in Nat
    BY <2>1, AdmittedType DEF Placed, Shares, Balanced
  <2> HIDE DEF admit
  <2>3. waiting \in Seq(RequestId)
    BY <2>1 DEF Placed, Line
  <2>4. EventsDue(AdmitAll(admit).queue, Now, workload)
    BY <1>3, <2>2, <2>3, DueAdmit
  <2> QED
    BY <1>1, <2>4 DEF admit
<1>6. Possible(metrics')
  BY <1>2 DEF Timely, Possible, RecordAdmissions, NewMetrics
<1> QED
  BY <1>2, <1>3, <1>4, <1>5, <1>6, TimelySame

\* A chunk that starts ends no earlier than it can.
LEMMA PrefillStartTimely ==
  ASSUME SimInv, Timely, MeterPrefillStart, clock' = Now
  PROVE  Timely'
<1> DEFINE r == Event0.req
<1>1. PICK latency \in PrefillLatencies :
        /\ busy' = [BusyNow EXCEPT !["prefill"] = BusyNow["prefill"] + latency]
        /\ queue' = Push(Rest, EndPrefill(BusyNow["prefill"] + latency, r))
  BY DEF MeterPrefillStart, HandlePrefillStart, PrefillEnd
<1>2. /\ Pops("PrefillStart") /\ waiting' = waiting /\ prefilling' = prefilling
      /\ transferring' = transferring /\ decoding' = decoding
      /\ prefill_done_time' = prefill_done_time
      /\ first_token_time' = first_token_time
      /\ metrics' = [metrics EXCEPT !.prefill_busy_secs = @ + PrefillBusy]
  BY DEF MeterPrefillStart, HandlePrefillStart
<1>3. /\ Now \in Nat /\ Rest \in Seq(SimEvents) /\ EventsDue(Rest, Now, workload)
      /\ Arrived(Now, workload, InLine \cup prefilling)
      /\ Prefilled(Now, workload, InDecode, prefill_done_time)
      /\ BusyNow \in [Gpus -> Nat] /\ DecodeGpu \in Gpus
      /\ Stepped(Now + BusyNow[DecodeGpu], decoding, first_token_time)
      /\ workload' = workload /\ DecodeGpu' = DecodeGpu
  BY <1>2, TimelyPopped
<1>4. r \in prefilling /\ r \in RequestId
  BY <1>2, Popped DEF SimInv, Placed
<1>5. latency \in Nat /\ Chunk \in Nat /\ Chunk <= latency
  BY DurationsHold
<1> DEFINE at == BusyNow["prefill"] + latency
           e == EndPrefill(at, r)
<1>6. at \in Nat /\ Chunk <= at
  BY <1>3, <1>5 DEF Gpus
<1> HIDE DEF at
<1>7. EventsDue(queue', Now, workload)
  <2>1. workload[r].arrival \in Nat /\ workload[r].arrival <= Now
    BY <1>3, <1>4, ArrivalsTyped DEF Arrived
  <2>2. e \in SimEvents /\ Now + e.time >= Due(workload, e.kind, e.req)
    BY <1>3, <1>4, <1>5, <1>6, <2>1
       DEF EndPrefill, Event, SimEvents, Events, Anyone, Kinds, Due
  <2> HIDE DEF e
  <2>3. EventsDue(Push(Rest, e), Now, workload)
    BY <1>3, <2>2, DuePush
  <2> QED
    BY <1>1, <2>3 DEF e, at
<1>8. Stepped(Now + busy'[DecodeGpu], decoding, first_token_time)
  <2> DEFINE a == Now + BusyNow[DecodeGpu]
             b == Now + busy'[DecodeGpu]
  <2>1. a \in Nat /\ b \in Nat /\ a <= b
    BY <1>1, <1>3, <1>5 DEF Gpus
  <2> HIDE DEF b
  <2>2. Stepped(b, decoding, first_token_time)
    BY <1>3, <2>1, SteppedLater
  <2> QED
    BY <2>2 DEF b
<1>9. Possible(metrics')
  BY <1>2 DEF Timely, Possible, NewMetrics
<1>10. InLine' = InLine /\ InDecode' = InDecode
  BY <1>2 DEF InLine, InDecode
<1> QED
  BY <1>2, <1>3, <1>7, <1>8, <1>9, <1>10 DEF Timely

\* A prompt that is not covered yet goes on.
LEMMA ContinuationTimely ==
  ASSUME SimInv, Timely, MeterNothing, PrefillContinues, clock' = Now
  PROVE  Timely'
<1> DEFINE r == Event0.req
<1>1. PICK chunk :
        /\ queue' = Push(Rest, StartPrefill(0, r, chunk))
        /\ chunk = IF config.scheduler = "chunked"
                   THEN Least(Remaining(r), ChunkSize) ELSE Remaining(r)
  BY DEF PrefillContinues
<1>2. /\ Pops("PrefillDone") /\ busy' = BusyNow
      /\ waiting' = waiting /\ prefilling' = prefilling
      /\ transferring' = transferring /\ decoding' = decoding
      /\ prefill_done_time' = prefill_done_time
      /\ first_token_time' = first_token_time /\ metrics' = metrics
  BY DEF PrefillContinues, MeterNothing
<1>3. /\ Now \in Nat /\ Rest \in Seq(SimEvents) /\ EventsDue(Rest, Now, workload)
      /\ Arrived(Now, workload, InLine \cup prefilling)
  BY <1>2, TimelyPopped
<1>4. r \in prefilling /\ r \in Anyone
  BY <1>2, Popped DEF SimInv, Placed, Anyone
<1>5. chunk \in Nat
  <2>1. Remaining(r) \in Nat
    BY <1>4, ProgressType DEF SimInv
  <2> QED
    BY <1>1, <2>1, SimulatorAssumption DEF Least
<1>6. EventsDue(queue', Now, workload)
  <2> DEFINE e == StartPrefill(0, r, chunk)
  <2>1. e \in SimEvents /\ Now + e.time >= Due(workload, e.kind, e.req)
    <3> HIDE DEF r
    <3> QED
      BY <1>3, <1>4, <1>5, DueAnyTime
  <2> HIDE DEF e
  <2>2. EventsDue(Push(Rest, e), Now, workload)
    BY <1>3, <2>1, DuePush
  <2> QED
    BY <1>1, <2>2 DEF e
<1>7. Possible(metrics') /\ InDecode' = InDecode /\ InLine' = InLine
  BY <1>2 DEF Timely, InDecode, InLine
<1> QED
  BY <1>2, <1>3, <1>6, <1>7, TimelySame

\* A decode step may be pending at any time.
LEMMA ScheduledDue ==
  ASSUME NEW q \in Seq(SimEvents), NEW t \in Nat, NEW w, EventsDue(q, t, w),
         NEW at \in Nat, ScheduleDecode(q, at)
  PROVE  EventsDue(queue', t, w)
<1> DEFINE e == StepDecode(at)
<1>1. e \in SimEvents /\ t + e.time >= Due(w, e.kind, e.req)
  BY DueAnyTime DEF Anyone
<1> HIDE DEF e
<1>2. EventsDue(Push(q, e), t, w)
  BY <1>1, DuePush
<1> QED
  BY <1>2 DEF ScheduleDecode, e

\* A request that begins to decode has no step behind it.
LEMMA SteppedJoin ==
  ASSUME NEW free, NEW dec, NEW times, Stepped(free, dec, times), NEW r
  PROVE  Stepped(free, With(dec, r, 0), times)
BY DEF Stepped, With

\* A prefill ends a chunk after its request's arrival at least.
LEMMA PrefillEndTimely ==
  ASSUME SimInv, Timely, MeterPrefillEnd, clock' = Now
  PROVE  Timely'
<1> DEFINE r == Event0.req
           t == AtLeast1us(Now - workload[r].arrival)
<1>1. /\ Pops("PrefillDone") /\ busy' = BusyNow
      /\ waiting' = waiting /\ prefilling' \subseteq prefilling
      /\ first_token_time' = first_token_time
  BY DEF MeterPrefillEnd, PrefillEndsCoupled, PrefillEndsDisaggregated
<1>2. r \in prefilling /\ r \in RequestId /\ r \notin InDecode
  BY <1>1, Popped DEF SimInv, Placed, InDecode
<1>3. /\ Now \in Nat /\ Rest \in Seq(SimEvents) /\ EventsDue(Rest, Now, workload)
      /\ Arrived(Now, workload, InLine \cup prefilling)
      /\ Prefilled(Now, workload, InDecode, prefill_done_time)
      /\ BusyNow \in [Gpus -> Nat] /\ DecodeGpu \in Gpus
      /\ Stepped(Now + BusyNow[DecodeGpu], decoding, first_token_time)
      /\ Now >= Due(workload, "PrefillDone", r)
      /\ workload' = workload /\ DecodeGpu' = DecodeGpu
  BY <1>1, TimelyPopped
<1>4. /\ prefill_done_time' = With(prefill_done_time, r, Now)
      /\ metrics' = [metrics EXCEPT !.prefill_lat = @ (+) SetToBag({t})]
  BY <1>2 DEF MeterPrefillEnd, RecordPrefillLatency
<1>5. /\ \/ ScheduleDecode(Rest, 0) \/ queue' = Push(Rest, TransferKv(0, r))
      /\ InDecode' = InDecode \cup {r}
      /\ decoding' \in {decoding, With(decoding, r, 0)}
  BY <1>2 DEF MeterPrefillEnd, PrefillEndsCoupled, PrefillEndsDisaggregated, InDecode,
              With
<1>6. /\ workload[r].arrival \in Nat /\ Chunk \in Nat
      /\ workload[r].arrival + Chunk <= Now
  BY <1>2, <1>3, ArrivalsTyped, DurationsHold DEF Due
<1>7. EventsDue(queue', Now, workload)
  <2>1. CASE ScheduleDecode(Rest, 0)
    BY <1>3, <2>1, ScheduledDue
  <2>2. CASE queue' = Push(Rest, TransferKv(0, r))
    <3> DEFINE e == TransferKv(0, r)
    <3>1. e \in SimEvents /\ Now + e.time >= Due(workload, e.kind, e.req)
      <4>1. r \in Anyone
        BY <1>2 DEF Anyone
      <4> HIDE DEF r
      <4> QED
        BY <1>3, <4>1, DueAnyTime
    <3> HIDE DEF e
    <3>2. EventsDue(Push(Rest, e), Now, workload)
      BY <1>3, <3>1, DuePush
    <3> QED
      BY <2>2, <3>2 DEF e
  <2> QED
    BY <1>5, <2>1, <2>2
<1>8. Arrived(Now, workload, InLine' \cup prefilling')
  <2>1. InLine' = InLine
    BY <1>1 DEF InLine
  <2> QED
    BY <1>1, <1>3, <2>1 DEF Arrived
<1>9. Prefilled(Now, workload, InDecode', prefill_done_time')
  BY <1>2, <1>3, <1>4, <1>5, <1>6 DEF Prefilled, With
<1>10. Stepped(Now + BusyNow[DecodeGpu], decoding', first_token_time')
  BY <1>1, <1>3, <1>5, SteppedJoin
<1>11. Possible(metrics')
  <2>1. t >= Chunk
    BY <1>3, <1>6 DEF AtLeast1us
  <2> HIDE DEF t
  <2>2. DOMAIN (metrics.prefill_lat (+) SetToBag({t})) = DOMAIN metrics.prefill_lat \cup {t}
    BY DEF (+), SetToBag
  <2> QED
    BY <1>4, <2>1, <2>2 DEF Timely, Possible, NewMetrics
<1> QED
  BY <1>1, <1>3, <1>7, <1>8, <1>9, <1>10, <1>11 DEF Timely

\* A cache that has moved is one of a request that is prefilled.
LEMMA TransferTimely ==
  ASSUME SimInv, Timely, MeterNothing, clock' = Now,
         NEW latency \in TransferLatencies, HandleKvTransfer(latency)
  PROVE  Timely'
<1> DEFINE r == Event0.req
<1>1. /\ Pops("KvTransfer") /\ busy' = BusyNow /\ ScheduleDecode(Rest, latency)
      /\ waiting' = waiting /\ prefilling' = prefilling
      /\ transferring' = transferring \ {r}
      /\ prefill_done_time' = prefill_done_time
      /\ first_token_time' = first_token_time /\ metrics' = metrics
  BY DEF HandleKvTransfer, MeterNothing
<1>2. r \in transferring
  BY <1>1, Popped
<1>3. decoding' = With(decoding, r, 0)
  BY <1>2 DEF HandleKvTransfer
<1>4. /\ Now \in Nat /\ Rest \in Seq(SimEvents) /\ EventsDue(Rest, Now, workload)
      /\ Arrived(Now, workload, InLine \cup prefilling)
      /\ Prefilled(Now, workload, InDecode, prefill_done_time)
      /\ Stepped(Now + BusyNow[DecodeGpu], decoding, first_token_time)
      /\ workload' = workload /\ DecodeGpu' = DecodeGpu
  BY <1>1, TimelyPopped
<1>5. InLine' = InLine /\ InDecode' = InDecode
  BY <1>1, <1>2, <1>3 DEF InLine, InDecode, With
<1>6. EventsDue(queue', Now, workload)
  BY <1>1, <1>4, SimulatorAssumption, ScheduledDue
<1>7. Stepped(Now + BusyNow[DecodeGpu], decoding', first_token_time')
  BY <1>1, <1>3, <1>4, SteppedJoin
<1>8. Possible(metrics')
  BY <1>1 DEF Timely
<1> QED
  BY <1>1, <1>4, <1>5, <1>6, <1>7, <1>8 DEF Timely

\* When a request that takes part in a decode step took its first token.
FirstToken(r) == IF r \in GetFirstToken THEN StepDone ELSE first_token_time[r]

\* A decode step begins when its GPU is free and takes its time: it is done
\* after the prefills of the requests in it, and after their earlier steps.
LEMMA StepTakesTime ==
  ASSUME SimInv, Timely, MeterDecodeStep, clock' = Now
  PROVE  /\ StepDone \in Nat /\ Now + Step <= StepDone
         /\ \A r \in DOMAIN decoding :
              /\ NextStep(r) \in Nat \ {0}
              /\ FirstToken(r) \in Nat
              /\ FirstToken(r) + Behind(NextStep(r)) <= StepDone
<1>1. PICK latency \in DecodeLatencies :
        busy' = [BusyNow EXCEPT ![DecodeGpu] = BusyNow[DecodeGpu] + latency]
  BY DEF MeterDecodeStep, DecodeStep, StepEnd
<1>2. Pops("BatchDecodeStep")
  BY DEF MeterDecodeStep, DecodeStep
<1> DEFINE free == Now + BusyNow[DecodeGpu]
<1>3. /\ Now \in Nat /\ BusyNow \in [Gpus -> Nat] /\ DecodeGpu \in Gpus
      /\ Stepped(free, decoding, first_token_time)
  BY <1>2, TimelyPopped
<1>4. latency \in Nat /\ Step \in Nat /\ Step <= latency
  BY DurationsHold
<1>5. /\ free \in Nat /\ Now <= free
      /\ StepDone = free + latency
  BY <1>1, <1>3, <1>4 DEF StepDone, Gpus
<1> HIDE DEF free
<1>6. ASSUME NEW r \in DOMAIN decoding
      PROVE  /\ NextStep(r) \in Nat \ {0} /\ FirstToken(r) \in Nat
             /\ FirstToken(r) + Behind(NextStep(r)) <= StepDone
  <2>1. decoding[r] \in Nat /\ r \in RequestId
    BY DEF SimInv, Placed
  <2>2. workload[r].output \in Nat \ {0} /\ Advance \in Nat \ {0}
    BY <2>1, ArrivalsTyped, SimulatorAssumption
  <2>3. NextStep(r) \in Nat \ {0} /\ NextStep(r) <= decoding[r] + Advance
    BY <2>1, <2>2 DEF NextStep, Least
  <2> DEFINE n == decoding[r]
             m == NextStep(r)
  <2> HIDE DEF m
  <2>4. /\ Behind(n) \in Int /\ Behind(m) \in Int
        /\ Behind(m) <= Behind(n) + Step
        /\ n = 0 => Behind(m) <= 0
    BY <2>1, <2>3, BehindHolds DEF m
  <2>5. CASE n = 0
    <3>1. FirstToken(r) = StepDone
      BY <2>5 DEF FirstToken, GetFirstToken
    <3> QED
      BY <1>4, <1>5, <2>3, <2>4, <2>5, <3>1 DEF m
  <2>6. CASE n > 0
    <3>1. FirstToken(r) = first_token_time[r]
      BY <2>6 DEF FirstToken, GetFirstToken
    <3>2. first_token_time[r] \in Nat /\ first_token_time[r] + Behind(n) <= free
      BY <1>3, <2>6 DEF Stepped
    <3> HIDE DEF n
    <3>3. first_token_time[r] + Behind(m) <= StepDone
      BY <1>4, <1>5, <2>4, <3>2
    <3> QED
      BY <2>3, <3>1, <3>2, <3>3 DEF m
  <2> QED
    BY <2>1, <2>5, <2>6
<1>7. StepDone \in Nat /\ Now + Step <= StepDone
  BY <1>3, <1>4, <1>5
<1> QED
  BY <1>6, <1>7

\* What a histogram holds after a decode step.
LEMMA SamplesTaken ==
  ASSUME NEW h, NEW R, NEW value
  PROVE  DOMAIN (h (+) Samples(R, value)) = DOMAIN h \cup {value[r] : r \in R}
BY DEF (+), Samples

\* The samples of a decode step are possible.
LEMMA StepPossible ==
  ASSUME SimInv, Timely, MeterDecodeStep, clock' = Now
  PROVE  Possible(metrics')
<1> DEFINE S == GetFirstToken
           ttft == [r \in S |-> AtLeast1us(StepDone - workload[r].arrival)]
           moved == [r \in S |-> StepDone - prefill_done_time[r]]
           M == {r \in S : moved[r] > 0}
           first == [r \in DOMAIN decoding |-> FirstToken(r)]
           tpot == [r \in Completed |-> <<StepDone - first[r], workload[r].output - 1>>]
           C == {r \in Completed : workload[r].output > 1}
<1>1. /\ DOMAIN metrics' = DOMAIN metrics
      /\ metrics'.prefill_lat = metrics.prefill_lat
      /\ metrics'.ttft = metrics.ttft (+) Samples(S, ttft)
      /\ metrics'.kv_transfer = metrics.kv_transfer (+) Samples(M, moved)
      /\ metrics'.tpot = metrics.tpot (+) Samples(C, tpot)
  BY DEF MeterDecodeStep, RecordFirstTokens, RecordCompletions, Timely, Possible,
         NewMetrics, FirstToken
<1>2. Possible(metrics) /\ Pops("BatchDecodeStep")
  BY DEF Timely, MeterDecodeStep, DecodeStep
<1>3. /\ StepDone \in Nat /\ Now + Step <= StepDone
      /\ \A r \in DOMAIN decoding :
           /\ NextStep(r) \in Nat \ {0} /\ FirstToken(r) \in Nat
           /\ FirstToken(r) + Behind(NextStep(r)) <= StepDone
  BY StepTakesTime
<1>4. Now \in Nat /\ Prefilled(Now, workload, InDecode, prefill_done_time)
  BY <1>2, TimelyPopped
<1>5. Step \in Nat /\ Chunk \in Nat
  BY DurationsHold
<1>6. S \subseteq DOMAIN decoding /\ Completed \subseteq DOMAIN decoding
      /\ DOMAIN decoding \subseteq InDecode /\ DOMAIN decoding \subseteq RequestId
  BY DEF GetFirstToken, Completed, InDecode, SimInv, Placed
<1>7. \A r \in S : /\ workload[r].arrival \in Nat
                   /\ prefill_done_time[r] \in Nat
                   /\ workload[r].arrival + Chunk <= prefill_done_time[r]
                   /\ prefill_done_time[r] <= Now
  BY <1>4, <1>6, ArrivalsTyped DEF Prefilled
<1>9. \A t \in DOMAIN metrics'.ttft : t >= Chunk + Step
  <2>1. \A r \in S : ttft[r] >= Chunk + Step
    BY <1>3, <1>4, <1>5, <1>7 DEF AtLeast1us
  <2> HIDE DEF ttft, S
  <2>2. DOMAIN metrics'.ttft = DOMAIN metrics.ttft \cup {ttft[r] : r \in S}
    <3>1. metrics'.ttft = metrics.ttft (+) Samples(S, ttft)
      BY <1>1
    <3>2. DOMAIN (metrics.ttft (+) Samples(S, ttft))
            = DOMAIN metrics.ttft \cup {ttft[r] : r \in S}
      BY SamplesTaken
    <3> QED
      BY <3>1, <3>2
  <2> QED
    BY <1>2, <2>1, <2>2 DEF Possible
<1>10. \A t \in DOMAIN metrics'.kv_transfer : t >= Step
  <2>1. \A r \in M : moved[r] >= Step
    BY <1>3, <1>4, <1>5, <1>7
  <2> HIDE DEF moved, M
  <2>2. DOMAIN metrics'.kv_transfer = DOMAIN metrics.kv_transfer \cup {moved[r] : r \in M}
    <3>1. metrics'.kv_transfer = metrics.kv_transfer (+) Samples(M, moved)
      BY <1>1
    <3>2. DOMAIN (metrics.kv_transfer (+) Samples(M, moved))
            = DOMAIN metrics.kv_transfer \cup {moved[r] : r \in M}
      BY SamplesTaken
    <3> QED
      BY <3>1, <3>2
  <2> QED
    BY <1>2, <2>1, <2>2 DEF Possible
<1>11. \A s \in DOMAIN metrics'.tpot : s[1] >= Behind(s[2] + 1)
  <2>1. \A r \in C : tpot[r][1] >= Behind(tpot[r][2] + 1)
    <3> TAKE r \in C
    <3>1. r \in Completed /\ r \in DOMAIN decoding /\ r \in RequestId
      BY <1>6
    <3>2. workload[r].output \in Nat /\ decoding[r] \in Nat /\ Advance \in Nat
      BY <3>1, ArrivalsTyped, SimulatorAssumption DEF SimInv, Placed
    <3>3. NextStep(r) = workload[r].output
      BY <3>1, <3>2 DEF Completed, NextStep, Least
    <3>4. tpot[r][1] = StepDone - FirstToken(r) /\ tpot[r][2] + 1 = NextStep(r)
      BY <3>1, <3>2, <3>3
    <3> DEFINE m == NextStep(r)
               f == FirstToken(r)
    <3>5. m \in Nat /\ f \in Nat /\ f + Behind(m) <= StepDone
      BY <1>3, <3>1
    <3> HIDE DEF m, f
    <3>6. Behind(m) \in Int
      <4>1. m <= m + Advance
        BY <3>2, <3>5
      <4> QED
        BY <3>5, <4>1, BehindHolds
    <3>7. StepDone - f >= Behind(m)
      BY <1>3, <3>5, <3>6
    <3> QED
      BY <3>4, <3>7 DEF m, f
  <2> HIDE DEF tpot, C
  <2>2. DOMAIN metrics'.tpot = DOMAIN metrics.tpot \cup {tpot[r] : r \in C}
    <3>1. metrics'.tpot = metrics.tpot (+) Samples(C, tpot)
      BY <1>1
    <3>2. DOMAIN (metrics.tpot (+) Samples(C, tpot))
            = DOMAIN metrics.tpot \cup {tpot[r] : r \in C}
      BY SamplesTaken
    <3> QED
      BY <3>1, <3>2
  <2> QED
    BY <1>2, <2>1, <2>2 DEF Possible
<1> QED
  BY <1>1, <1>2, <1>9, <1>10, <1>11 DEF Possible

\* A decode step leaves the requests that go on with one more step behind them.
LEMMA StepTimely ==
  ASSUME SimInv, Timely, MeterDecodeStep, clock' = Now
  PROVE  Timely'
<1>1. PICK latency \in DecodeLatencies :
        /\ busy' = [BusyNow EXCEPT ![DecodeGpu] = BusyNow[DecodeGpu] + latency]
        /\ queue' = AfterStep(BusyNow[DecodeGpu] + latency)
  BY DEF MeterDecodeStep, DecodeStep, StepEnd
<1>2. /\ Pops("BatchDecodeStep")
      /\ waiting' = waiting /\ prefilling' = prefilling /\ transferring' = transferring
      /\ decoding' = [r \in DOMAIN decoding \ Completed |-> NextStep(r)]
      /\ prefill_done_time' =
           [r \in DOMAIN prefill_done_time \ Completed |-> prefill_done_time[r]]
      /\ first_token_time' = [r \in DOMAIN decoding' |-> FirstToken(r)]
  BY DEF MeterDecodeStep, DecodeStep, FirstToken
<1>3. /\ Now \in Nat /\ Rest \in Seq(SimEvents) /\ EventsDue(Rest, Now, workload)
      /\ Arrived(Now, workload, InLine \cup prefilling)
      /\ Prefilled(Now, workload, InDecode, prefill_done_time)
      /\ BusyNow \in [Gpus -> Nat] /\ DecodeGpu \in Gpus
      /\ workload' = workload /\ DecodeGpu' = DecodeGpu
  BY <1>2, TimelyPopped
<1> DEFINE at == BusyNow[DecodeGpu] + latency
<1>4. at \in Nat /\ Now + busy'[DecodeGpu] = StepDone
  BY <1>1, <1>3, DurationsHold DEF StepDone, Gpus
<1>5. EventsDue(queue', Now, workload)
  <2> DEFINE e == StepDecode(at)
             f == Tick(at)
             q == IF DOMAIN decoding = Completed THEN Rest ELSE Push(Rest, e)
  <2>1. queue' = Push(q, f)
    BY <1>1 DEF AfterStep
  <2> HIDE DEF at
  <2>2. /\ e \in SimEvents /\ Now + e.time >= Due(workload, e.kind, e.req)
        /\ f \in SimEvents /\ Now + f.time >= Due(workload, f.kind, f.req)
    BY <1>3, <1>4, DueAnyTime DEF Anyone
  <2> HIDE DEF e, f
  <2>3. q \in Seq(SimEvents) /\ EventsDue(q, Now, workload)
    <3>1. Push(Rest, e) \in Seq(SimEvents) /\ EventsDue(Push(Rest, e), Now, workload)
      BY <1>3, <2>2, PushShape, DuePush
    <3> QED
      BY <1>3, <3>1
  <2> HIDE DEF q
  <2> QED
    BY <2>1, <2>2, <2>3, DuePush
<1>6. /\ InLine' = InLine
      /\ InDecode' = InDecode \ Completed
  <2>1. Completed \subseteq DOMAIN decoding /\ transferring \cap DOMAIN decoding = {}
    BY DEF Completed, SimInv, Placed
  <2> QED
    BY <1>2, <2>1 DEF InLine, InDecode
<1>7. Prefilled(Now, workload, InDecode', prefill_done_time')
  BY <1>2, <1>3, <1>6 DEF Prefilled
<1>8. Stepped(Now + busy'[DecodeGpu], decoding', first_token_time')
  <2>1. \A r \in DOMAIN decoding : /\ FirstToken(r) \in Nat
                                   /\ FirstToken(r) + Behind(NextStep(r)) <= StepDone
    BY StepTakesTime
  <2>2. /\ DOMAIN decoding' \subseteq DOMAIN decoding
        /\ DOMAIN first_token_time' = DOMAIN decoding'
        /\ \A r \in DOMAIN decoding' : /\ decoding'[r] = NextStep(r)
                                        /\ first_token_time'[r] = FirstToken(r)
    BY <1>2
  <2> QED
    BY <1>4, <2>1, <2>2 DEF Stepped
<1>9. Possible(metrics')
  BY StepPossible
<1> QED
  BY <1>2, <1>3, <1>5, <1>6, <1>7, <1>8, <1>9 DEF Timely

\* Every step keeps everybody on time.
LEMMA TimelyNext == SimInv /\ Timely /\ [MeteredNext]_<<vars, meters>> => Timely'
<1> SUFFICES ASSUME SimInv, Timely, [MeteredNext]_<<vars, meters>> PROVE Timely'
  OBVIOUS
<1>1. CASE MeterNothing /\ clock' = Now
  <2>1. CASE DecodeNothing
    <3>1. /\ Pops("BatchDecodeStep") /\ busy' = BusyNow /\ queue' = Rest
          /\ InLine' = InLine /\ prefilling' = prefilling /\ InDecode' = InDecode
          /\ decoding' = decoding /\ prefill_done_time' = prefill_done_time
          /\ first_token_time' = first_token_time /\ metrics' = metrics
      BY <1>1, <2>1 DEF MeterNothing, DecodeNothing, requests, InLine, InDecode
    <3>2. /\ EventsDue(Rest, Now, workload)
          /\ Arrived(Now, workload, InLine \cup prefilling)
      BY <3>1, TimelyPopped
    <3>3. Possible(metrics')
      BY <3>1 DEF Timely
    <3> QED
      BY <1>1, <3>1, <3>2, <3>3, TimelySame
  <2> QED
    BY <1>1, <2>1, ArrivalTimely, ContinuationTimely, TransferTimely DEF MeterNothing
<1>2. CASE PassesHorizon /\ UNCHANGED meters
  <2>1. /\ queue # <<>> /\ queue' = Tail(queue)
        /\ UNCHANGED <<workload, config, busy, requests, meters>>
    BY <1>2 DEF PassesHorizon
  <2>2. EventsDue(queue', clock, workload)
    BY <2>1, DuePop DEF SimInv, Timely
  <2> QED
    BY <2>1, <2>2 DEF Timely, InLine, InDecode, DecodeGpu, requests, meters
<1>3. CASE UNCHANGED <<vars, meters>>
  BY <1>3 DEF Timely, InLine, InDecode, DecodeGpu, vars, requests, meters
<1> QED
  BY <1>1, <1>2, <1>3, PreemptionTimely, AdmissionsTimely, PrefillStartTimely,
     PrefillEndTimely, StepTimely DEF MeteredNext, Returned

\* At first, arrivals are due when their requests arrive.
LEMMA TimelyInit == MeteredInit => Timely
<1> SUFFICES ASSUME MeteredInit PROVE Timely
  OBVIOUS
<1> DEFINE q == [r \in RequestId |-> Arrival(workload[r].arrival, r)]
           e == Tick(0)
<1>1. /\ workload \in Workloads /\ queue = Push(q, e) /\ clock = 0
      /\ waiting = <<>> /\ prefilling = {} /\ transferring = {} /\ decoding = Empty
      /\ metrics = NewMetrics
  BY DEF MeteredInit, Init
<1>2. q \in Seq(SimEvents)
  BY <1>1, ArrivalsBooked DEF Ledger
<1>3. EventsDue(q, clock, workload)
  <2>1. \A r \in RequestId : workload[r].arrival \in Nat
    BY <1>1, SimulatorAssumption DEF Workload
  <2> QED
    BY <1>1, <2>1 DEF EventsDue, Due, Arrival, Event
<1>4. e \in SimEvents /\ clock + e.time >= Due(workload, e.kind, e.req)
  BY <1>1, DueAnyTime DEF Anyone
<1> HIDE DEF q, e
<1>5. EventsDue(queue, clock, workload)
  BY <1>1, <1>2, <1>3, <1>4, DuePush
<1>6. InLine = {} /\ InDecode = {} /\ DOMAIN decoding = {}
  <2>1. DOMAIN waiting = {}
    BY <1>1, EmptySeq
  <2> QED
    BY <1>1, <2>1 DEF InLine, InDecode, Empty
<1>7. Possible(metrics)
  BY <1>1 DEF Possible, NewMetrics, EmptyBag, SetToBag
<1> QED
  BY <1>1, <1>5, <1>6, <1>7 DEF Timely, Arrived, Prefilled, Stepped

\* No sample is better than the hardware allows.
THEOREM SimSamplesPossible == MeteredSpec => []SamplesPossible
<1>1. MeteredInit => SimInv /\ Timely
  BY SimInvInit, TimelyInit DEF MeteredInit
<1>2. SimInv /\ Timely /\ [MeteredNext]_<<vars, meters>> => SimInv' /\ Timely'
  BY MeteredStep, SimInvNext, TimelyNext
<1>3. Timely => SamplesPossible
  BY DEF Timely, Possible, Behind, SamplesPossible, Chunk, Step
<1> QED
  BY <1>1, <1>2, <1>3, PTL DEF MeteredSpec
=============================================================================
