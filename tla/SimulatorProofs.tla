-------------------------- MODULE SimulatorProofs ---------------------------
(***************************************************************************)
(* The simulator's handlers keep requests, events and memory consistent:   *)
(* proofs, for every workload, configuration, pool and set of latencies,   *)
(* of invariants that MCSafety.cfg checks on a small machine.              *)
(*                                                                         *)
(* The inductive invariant ties together what the invariants say apart.    *)
(* Memory follows the phases only because a request is in one phase; it is *)
(* in one phase only because no stale event acts on it; and no event is    *)
(* stale because every request in prefill or transfer has exactly one.     *)
(*                                                                         *)
(* What is pending is kept as a ledger: for which requests an arrival, a   *)
(* prefill event or a transfer is pending, and how many decode steps are.  *)
(* The first part of this module says what pushes and pops do to it, the   *)
(* second what a tick that admits does to it, to the line of waiting       *)
(* requests and to memory; the invariant and the handlers follow.          *)
(*                                                                         *)
(* The later parts rest on that invariant: that the KV lengths of a decode *)
(* batch fit the pool, that the continuous scheduler spends its token      *)
(* budget and no more, that no run goes dry while somebody could be        *)
(* served, and that every turn of the loop is one step of                  *)
(* RequestLifecycle.tla or none.                                           *)
(***************************************************************************)
EXTENDS SimulatorProperties, OperatorProofs

Anyone == RequestId \cup {NoRequest}
Kinds == {"RequestArrival", "PrefillStart", "PrefillDone", "KvTransfer",
          "BatchDecodeStep", "SchedulerTick"}
SimEvents == Events(Anyone, Kinds)

\* Pairs of kind and request.
Arr(r)  == {<<"RequestArrival", r>>}
Pre(r)  == {<<"PrefillStart", r>>, <<"PrefillDone", r>>}
Xfer(r) == {<<"KvTransfer", r>>}
Steps   == {<<"BatchDecodeStep", r>> : r \in Anyone}

One(b) == IF b THEN 1 ELSE 0

\* What is pending in q: one arrival for each member of arr, one prefill event
\* for each of pre, one transfer for each of xfer, and n decode steps.
Ledger(q, arr, pre, xfer, n) ==
  /\ q \in Seq(SimEvents) /\ Ordered(q)
  /\ \A r \in Anyone : /\ Count(q, Arr(r))  = One(r \in arr)
                       /\ Count(q, Pre(r))  = One(r \in pre)
                       /\ Count(q, Xfer(r)) = One(r \in xfer)
  /\ Count(q, Steps) = n

-----------------------------------------------------------------------------
(* Pushing and popping, in terms of the ledger *)

\* Requests are numbers other than the one that means no request.
LEMMA RequestsNumbered ==
  /\ RequestId \subseteq Nat
  /\ NoRequest \notin RequestId
<1>1. NumRequests \in Nat
  BY KvAssumption, FS_CardinalityType DEF NumRequests
<1> QED
  BY <1>1, SimulatorAssumption DEF NoRequest

\* Which events belong to which account.
LEMMA Accounts ==
  ASSUME NEW e \in SimEvents
  PROVE  /\ e.req \in Anyone /\ e.kind \in Kinds /\ e.time \in Nat
         /\ \A r : Matches(e, Arr(r)) <=> (e.kind = "RequestArrival" /\ e.req = r)
         /\ \A r : Matches(e, Pre(r)) <=>
                   (e.kind \in {"PrefillStart", "PrefillDone"} /\ e.req = r)
         /\ \A r : Matches(e, Xfer(r)) <=> (e.kind = "KvTransfer" /\ e.req = r)
         /\ Matches(e, Steps) <=> e.kind = "BatchDecodeStep"
<1>1. e.req \in Anyone /\ e.kind \in Kinds /\ e.time \in Nat
  BY DEF SimEvents, Events
<1>2. \A r : Matches(e, Arr(r)) <=> (e.kind = "RequestArrival" /\ e.req = r)
  BY DEF Matches, Arr
<1>3. \A r : Matches(e, Pre(r)) <=>
             (e.kind \in {"PrefillStart", "PrefillDone"} /\ e.req = r)
  BY DEF Matches, Pre
<1>4. \A r : Matches(e, Xfer(r)) <=> (e.kind = "KvTransfer" /\ e.req = r)
  BY DEF Matches, Xfer
<1>5. Matches(e, Steps) <=> e.kind = "BatchDecodeStep"
  BY <1>1 DEF Matches, Steps
<1> QED
  BY <1>1, <1>2, <1>3, <1>4, <1>5

\* A push enters its event in one account.
LEMMA PushEntry ==
  ASSUME NEW arr, NEW pre, NEW xfer, NEW n \in Nat,
         NEW q, Ledger(q, arr, pre, xfer, n), NEW e \in SimEvents
  PROVE  /\ e.kind = "SchedulerTick" => Ledger(Push(q, e), arr, pre, xfer, n)
         /\ e.kind = "RequestArrival" /\ e.req \notin arr =>
              Ledger(Push(q, e), arr \cup {e.req}, pre, xfer, n)
         /\ e.kind \in {"PrefillStart", "PrefillDone"} /\ e.req \notin pre =>
              Ledger(Push(q, e), arr, pre \cup {e.req}, xfer, n)
         /\ e.kind = "KvTransfer" /\ e.req \notin xfer =>
              Ledger(Push(q, e), arr, pre, xfer \cup {e.req}, n)
         /\ e.kind = "BatchDecodeStep" => Ledger(Push(q, e), arr, pre, xfer, n + 1)
<1> DEFINE p == Push(q, e)
<1>1. q \in Seq(SimEvents) /\ Ordered(q)
  BY DEF Ledger
<1>2. p \in Seq(SimEvents) /\ Ordered(p)
  BY <1>1, PushOrdered DEF SimEvents
<1>3. \A P : Count(p, P) = Count(q, P) + One(Matches(e, P))
  BY <1>1, PushCount DEF One
<1> HIDE DEF p
<1>4. /\ \A r : Count(p, Arr(r)) =
               Count(q, Arr(r)) + One(e.kind = "RequestArrival" /\ e.req = r)
      /\ \A r : Count(p, Pre(r)) =
               Count(q, Pre(r)) +
               One(e.kind \in {"PrefillStart", "PrefillDone"} /\ e.req = r)
      /\ \A r : Count(p, Xfer(r)) =
               Count(q, Xfer(r)) + One(e.kind = "KvTransfer" /\ e.req = r)
      /\ Count(p, Steps) = Count(q, Steps) + One(e.kind = "BatchDecodeStep")
  BY <1>3, Accounts DEF One
<1>5. /\ \A r \in Anyone : /\ Count(q, Arr(r))  = One(r \in arr)
                           /\ Count(q, Pre(r))  = One(r \in pre)
                           /\ Count(q, Xfer(r)) = One(r \in xfer)
      /\ Count(q, Steps) = n
  BY DEF Ledger
<1>6. CASE e.kind = "SchedulerTick"
  BY <1>2, <1>4, <1>5, <1>6 DEF Ledger, One, p
<1>7. CASE e.kind = "RequestArrival" /\ e.req \notin arr
  BY <1>2, <1>4, <1>5, <1>7 DEF Ledger, One, p
<1>8. CASE e.kind \in {"PrefillStart", "PrefillDone"} /\ e.req \notin pre
  BY <1>2, <1>4, <1>5, <1>8 DEF Ledger, One, p
<1>9. CASE e.kind = "KvTransfer" /\ e.req \notin xfer
  BY <1>2, <1>4, <1>5, <1>9 DEF Ledger, One, p
<1>10. CASE e.kind = "BatchDecodeStep"
  BY <1>2, <1>4, <1>5, <1>10 DEF Ledger, One, p
<1> QED
  BY <1>6, <1>7, <1>8, <1>9, <1>10

\* A pop strikes its event out of the account it is in.
LEMMA PopEntry ==
  ASSUME NEW arr, NEW pre, NEW xfer, NEW n \in Nat,
         NEW q, Ledger(q, arr, pre, xfer, n), q # <<>>
  PROVE  /\ Head(q) \in SimEvents
         /\ Head(q).kind = "SchedulerTick" => Ledger(AfterPop(q), arr, pre, xfer, n)
         /\ Head(q).kind = "RequestArrival" =>
              /\ Head(q).req \in arr
              /\ Ledger(AfterPop(q), arr \ {Head(q).req}, pre, xfer, n)
         /\ Head(q).kind \in {"PrefillStart", "PrefillDone"} =>
              /\ Head(q).req \in pre
              /\ Ledger(AfterPop(q), arr, pre \ {Head(q).req}, xfer, n)
         /\ Head(q).kind = "KvTransfer" =>
              /\ Head(q).req \in xfer
              /\ Ledger(AfterPop(q), arr, pre, xfer \ {Head(q).req}, n)
         /\ Head(q).kind = "BatchDecodeStep" =>
              n > 0 /\ Ledger(AfterPop(q), arr, pre, xfer, n - 1)
<1> DEFINE e == Head(q)
           p == AfterPop(q)
<1>1. q \in Seq(SimEvents) /\ Ordered(q)
  BY DEF Ledger
<1>2. p \in Seq(SimEvents) /\ Ordered(p) /\ e \in SimEvents
  BY <1>1, PopEffect DEF SimEvents
<1>3. \A P : Count(q, P) = Count(p, P) + One(Matches(e, P))
  BY <1>1, PopEffect DEF SimEvents, One
<1>4. \A P : Count(p, P) \in Nat
  BY <1>2, MatchingFinite
<1> HIDE DEF p, e
<1>5. /\ \A r : Count(q, Arr(r)) =
               Count(p, Arr(r)) + One(e.kind = "RequestArrival" /\ e.req = r)
      /\ \A r : Count(q, Pre(r)) =
               Count(p, Pre(r)) +
               One(e.kind \in {"PrefillStart", "PrefillDone"} /\ e.req = r)
      /\ \A r : Count(q, Xfer(r)) =
               Count(p, Xfer(r)) + One(e.kind = "KvTransfer" /\ e.req = r)
      /\ Count(q, Steps) = Count(p, Steps) + One(e.kind = "BatchDecodeStep")
      /\ \A r : /\ Count(p, Arr(r)) \in Nat /\ Count(p, Pre(r)) \in Nat
                /\ Count(p, Xfer(r)) \in Nat
      /\ Count(p, Steps) \in Nat
  BY <1>2, <1>3, <1>4, Accounts DEF One
<1>6. /\ \A r \in Anyone : /\ Count(q, Arr(r))  = One(r \in arr)
                           /\ Count(q, Pre(r))  = One(r \in pre)
                           /\ Count(q, Xfer(r)) = One(r \in xfer)
      /\ Count(q, Steps) = n
  BY DEF Ledger
<1>7. e.req \in Anyone
  BY <1>2, Accounts
<1>8. ASSUME e.kind = "SchedulerTick"
      PROVE  Ledger(p, arr, pre, xfer, n)
  <2>2. \A r \in Anyone : Count(p, Arr(r)) = One(r \in arr)
    BY <1>5, <1>6, <1>7, <1>8 DEF One
  <2>3. \A r \in Anyone : Count(p, Pre(r)) = One(r \in pre)
    BY <1>5, <1>6, <1>7, <1>8 DEF One
  <2>4. \A r \in Anyone : Count(p, Xfer(r)) = One(r \in xfer)
    BY <1>5, <1>6, <1>7, <1>8 DEF One
  <2>5. Count(p, Steps) = n
    BY <1>5, <1>6, <1>8 DEF One
  <2> QED
    BY <1>2, <2>2, <2>3, <2>4, <2>5 DEF Ledger, One
<1>9. ASSUME e.kind = "RequestArrival"
      PROVE  e.req \in arr /\ Ledger(p, arr \ {e.req}, pre, xfer, n)
  <2>1. e.req \in arr
    BY <1>5, <1>6, <1>7, <1>9 DEF One
  <2>2. \A r \in Anyone : Count(p, Arr(r)) = One(r \in arr /\ r # e.req)
    BY <1>5, <1>6, <1>7, <1>9 DEF One
  <2>3. \A r \in Anyone : Count(p, Pre(r)) = One(r \in pre)
    BY <1>5, <1>6, <1>7, <1>9 DEF One
  <2>4. \A r \in Anyone : Count(p, Xfer(r)) = One(r \in xfer)
    BY <1>5, <1>6, <1>7, <1>9 DEF One
  <2>5. Count(p, Steps) = n
    BY <1>5, <1>6, <1>9 DEF One
  <2> QED
    BY <1>2, <2>1, <2>2, <2>3, <2>4, <2>5 DEF Ledger, One
<1>10. ASSUME e.kind \in {"PrefillStart", "PrefillDone"}
      PROVE  e.req \in pre /\ Ledger(p, arr, pre \ {e.req}, xfer, n)
  <2>1. e.req \in pre
    BY <1>5, <1>6, <1>7, <1>10 DEF One
  <2>2. \A r \in Anyone : Count(p, Arr(r)) = One(r \in arr)
    BY <1>5, <1>6, <1>7, <1>10 DEF One
  <2>3. \A r \in Anyone : Count(p, Pre(r)) = One(r \in pre /\ r # e.req)
    BY <1>5, <1>6, <1>7, <1>10 DEF One
  <2>4. \A r \in Anyone : Count(p, Xfer(r)) = One(r \in xfer)
    BY <1>5, <1>6, <1>7, <1>10 DEF One
  <2>5. Count(p, Steps) = n
    BY <1>5, <1>6, <1>10 DEF One
  <2> QED
    BY <1>2, <2>1, <2>2, <2>3, <2>4, <2>5 DEF Ledger, One
<1>11. ASSUME e.kind = "KvTransfer"
      PROVE  e.req \in xfer /\ Ledger(p, arr, pre, xfer \ {e.req}, n)
  <2>1. e.req \in xfer
    BY <1>5, <1>6, <1>7, <1>11 DEF One
  <2>2. \A r \in Anyone : Count(p, Arr(r)) = One(r \in arr)
    BY <1>5, <1>6, <1>7, <1>11 DEF One
  <2>3. \A r \in Anyone : Count(p, Pre(r)) = One(r \in pre)
    BY <1>5, <1>6, <1>7, <1>11 DEF One
  <2>4. \A r \in Anyone : Count(p, Xfer(r)) = One(r \in xfer /\ r # e.req)
    BY <1>5, <1>6, <1>7, <1>11 DEF One
  <2>5. Count(p, Steps) = n
    BY <1>5, <1>6, <1>11 DEF One
  <2> QED
    BY <1>2, <2>1, <2>2, <2>3, <2>4, <2>5 DEF Ledger, One
<1>12. ASSUME e.kind = "BatchDecodeStep"
      PROVE  n > 0 /\ Ledger(p, arr, pre, xfer, n - 1)
  <2>2. \A r \in Anyone : Count(p, Arr(r)) = One(r \in arr)
    BY <1>5, <1>6, <1>7, <1>12 DEF One
  <2>3. \A r \in Anyone : Count(p, Pre(r)) = One(r \in pre)
    BY <1>5, <1>6, <1>7, <1>12 DEF One
  <2>4. \A r \in Anyone : Count(p, Xfer(r)) = One(r \in xfer)
    BY <1>5, <1>6, <1>7, <1>12 DEF One
  <2>5. Count(p, Steps) = n - 1 /\ n > 0
    BY <1>5, <1>6, <1>12 DEF One
  <2> QED
    BY <1>2, <2>2, <2>3, <2>4, <2>5 DEF Ledger, One
<1> QED
  BY <1>2, <1>8, <1>9, <1>10, <1>11, <1>12 DEF p, e

\* What the handlers push.
LEMMA Pushes ==
  ASSUME NEW arr, NEW pre, NEW xfer, NEW n \in Nat,
         NEW q, Ledger(q, arr, pre, xfer, n),
         NEW t \in Nat, NEW r \in RequestId, NEW chunk \in Nat
  PROVE  /\ Ledger(Push(q, Tick(t)), arr, pre, xfer, n)
         /\ Ledger(Push(q, StepDecode(t)), arr, pre, xfer, n + 1)
         /\ r \notin pre =>
              /\ Ledger(Push(q, StartPrefill(t, r, chunk)), arr, pre \cup {r}, xfer, n)
              /\ Ledger(Push(q, EndPrefill(t, r)), arr, pre \cup {r}, xfer, n)
         /\ r \notin xfer =>
              Ledger(Push(q, TransferKv(t, r)), arr, pre, xfer \cup {r}, n)
<1>1. Ledger(Push(q, Tick(t)), arr, pre, xfer, n)
  <2> DEFINE e == Tick(t)
  <2>1. e \in SimEvents /\ e.kind = "SchedulerTick"
    BY DEF SimEvents, Events, Tick, Event, Anyone, Kinds
  <2> HIDE DEF e
  <2>2. Ledger(Push(q, e), arr, pre, xfer, n)
    BY <2>1, PushEntry
  <2> QED
    BY <2>2 DEF e
<1>2. Ledger(Push(q, StepDecode(t)), arr, pre, xfer, n + 1)
  <2> DEFINE e == StepDecode(t)
  <2>1. e \in SimEvents /\ e.kind = "BatchDecodeStep"
    BY DEF SimEvents, Events, StepDecode, Event, Anyone, Kinds
  <2> HIDE DEF e
  <2>2. Ledger(Push(q, e), arr, pre, xfer, n + 1)
    BY <2>1, PushEntry
  <2> QED
    BY <2>2 DEF e
<1>3. ASSUME r \notin pre
      PROVE  Ledger(Push(q, StartPrefill(t, r, chunk)), arr, pre \cup {r}, xfer, n)
  <2> DEFINE e == StartPrefill(t, r, chunk)
  <2>1. e \in SimEvents /\ e.kind = "PrefillStart" /\ e.req = r
    BY DEF SimEvents, Events, StartPrefill, Event, Anyone, Kinds
  <2> HIDE DEF e
  <2>2. Ledger(Push(q, e), arr, pre \cup {e.req}, xfer, n)
    BY <1>3, <2>1, PushEntry
  <2> QED
    BY <2>1, <2>2 DEF e
<1>4. ASSUME r \notin pre
      PROVE  Ledger(Push(q, EndPrefill(t, r)), arr, pre \cup {r}, xfer, n)
  <2> DEFINE e == EndPrefill(t, r)
  <2>1. e \in SimEvents /\ e.kind = "PrefillDone" /\ e.req = r
    BY DEF SimEvents, Events, EndPrefill, Event, Anyone, Kinds
  <2> HIDE DEF e
  <2>2. Ledger(Push(q, e), arr, pre \cup {e.req}, xfer, n)
    BY <1>4, <2>1, PushEntry
  <2> QED
    BY <2>1, <2>2 DEF e
<1>5. ASSUME r \notin xfer
      PROVE  Ledger(Push(q, TransferKv(t, r)), arr, pre, xfer \cup {r}, n)
  <2> DEFINE e == TransferKv(t, r)
  <2>1. e \in SimEvents /\ e.kind = "KvTransfer" /\ e.req = r
    BY DEF SimEvents, Events, TransferKv, Event, Anyone, Kinds
  <2> HIDE DEF e
  <2>2. Ledger(Push(q, e), arr, pre, xfer \cup {e.req}, n)
    BY <1>5, <2>1, PushEntry
  <2> QED
    BY <2>1, <2>2 DEF e
<1> QED
  BY <1>1, <1>2, <1>3, <1>4, <1>5

-----------------------------------------------------------------------------
(* Admissions *)

\* A line of requests, nobody twice, and who stands in it.
Ids(l) == {l[i] : i \in DOMAIN l}
Line(l) == /\ l \in Seq(RequestId)
           /\ \A i, j \in DOMAIN l : l[i] = l[j] => i = j

\* A line is a sequence of known requests.
LEMMA LineShape ==
  ASSUME NEW l, Line(l)
  PROVE  /\ DOMAIN l = 1 .. Len(l) /\ Len(l) \in Nat
         /\ \A i \in 1 .. Len(l) : l[i] \in RequestId
         /\ Ids(l) \subseteq RequestId
<1>1. l \in Seq(RequestId)
  BY DEF Line
<1>2. DOMAIN l = 1 .. Len(l) /\ Len(l) \in Nat
  BY <1>1, LenProperties
<1>3. \A i \in 1 .. Len(l) : l[i] \in RequestId
  BY <1>1, ElementOfSeq
<1> QED
  BY <1>2, <1>3 DEF Ids

\* A newcomer joins the line at its end ...
LEMMA JoinBack ==
  ASSUME NEW l, Line(l), NEW r \in RequestId \ Ids(l)
  PROVE  Line(Append(l, r)) /\ Ids(Append(l, r)) = Ids(l) \cup {r}
<1> DEFINE m == Append(l, r)
           n == Len(l)
<1>1. /\ m \in Seq(RequestId) /\ DOMAIN m = 1 .. n + 1 /\ m[n + 1] = r
      /\ \A i \in 1 .. n : m[i] = l[i]
  BY AppendProperties, LenProperties DEF Line
<1>2. DOMAIN l = 1 .. n /\ n \in Nat
  BY LineShape
<1> HIDE DEF m, n
<1>3. Ids(m) = Ids(l) \cup {r}
  BY <1>1, <1>2 DEF Ids
<1>4. ASSUME NEW i \in DOMAIN m, NEW j \in DOMAIN m, m[i] = m[j] PROVE i = j
  <2>1. CASE i \in 1 .. n /\ j \in 1 .. n
    BY <1>1, <1>2, <1>4, <2>1 DEF Line
  <2>2. CASE i = n + 1 /\ j \in 1 .. n
    BY <1>1, <1>2, <1>4, <2>2 DEF Ids
  <2>3. CASE j = n + 1 /\ i \in 1 .. n
    BY <1>1, <1>2, <1>4, <2>3 DEF Ids
  <2> QED
    BY <1>1, <1>2, <2>1, <2>2, <2>3
<1>5. Line(m)
  BY <1>1, <1>4 DEF Line
<1> QED
  BY <1>3, <1>5 DEF m

\* ... or, pushed back, at its front.
LEMMA JoinFront ==
  ASSUME NEW l, Line(l), NEW r \in RequestId \ Ids(l)
  PROVE  Line(<<r>> \o l) /\ Ids(<<r>> \o l) = Ids(l) \cup {r}
<1> DEFINE m == <<r>> \o l
           n == Len(l)
<1>1. DOMAIN l = 1 .. n /\ n \in Nat
  BY LineShape
<1>2. /\ <<r>> \in Seq(RequestId) /\ Len(<<r>>) = 1 /\ <<r>>[1] = r
      /\ l \in Seq(RequestId)
  BY DEF Line
<1>3. /\ m \in Seq(RequestId) /\ Len(m) = 1 + n
      /\ \A i \in 1 .. 1 + n : m[i] = IF i <= 1 THEN <<r>>[i] ELSE l[i - 1]
  BY <1>2, ConcatProperties
<1>4. DOMAIN m = 1 .. 1 + n
  BY <1>3, LenProperties
<1>5. m[1] = r /\ \A i \in 2 .. n + 1 : m[i] = l[i - 1]
  BY <1>1, <1>2, <1>3
<1> HIDE DEF m, n
<1>6. Ids(m) = Ids(l) \cup {r}
  <2>1. \A i \in 1 .. n : l[i] = m[i + 1] /\ i + 1 \in 1 .. n + 1
    BY <1>1, <1>5
  <2>2. \A i \in 2 .. n + 1 : m[i] = l[i - 1] /\ i - 1 \in 1 .. n
    BY <1>1, <1>5
  <2>3. ASSUME NEW i \in 1 .. n PROVE l[i] \in Ids(m)
    <3>1. l[i] = m[i + 1] /\ i + 1 \in DOMAIN m
      BY <1>1, <1>4, <2>1
    <3> QED
      BY <3>1 DEF Ids
  <2>4. \A i \in 2 .. n + 1 : m[i] \in Ids(l)
    BY <1>1, <2>2 DEF Ids
  <2>5. DOMAIN m = {1} \cup 2 .. n + 1
    BY <1>1, <1>4
  <2>6. Ids(m) \subseteq Ids(l) \cup {r}
    BY <1>5, <2>4, <2>5 DEF Ids
  <2>7. Ids(l) \subseteq Ids(m) /\ r \in Ids(m)
    BY <1>1, <1>5, <2>3, <2>5 DEF Ids
  <2> QED
    BY <2>6, <2>7
<1>7. ASSUME NEW i \in DOMAIN m, NEW j \in DOMAIN m, m[i] = m[j] PROVE i = j
  <2>1. CASE i \in 2 .. n + 1 /\ j \in 2 .. n + 1
    <3>1. l[i - 1] = l[j - 1] /\ i - 1 \in 1 .. n /\ j - 1 \in 1 .. n
      BY <1>1, <1>5, <1>7, <2>1
    <3>2. i - 1 = j - 1
      BY <1>1, <3>1 DEF Line
    <3> QED
      BY <1>1, <2>1, <3>2
  <2>2. CASE i = 1 /\ j \in 2 .. n + 1
    <3>1. r = l[j - 1] /\ j - 1 \in 1 .. n
      BY <1>1, <1>5, <1>7, <2>2
    <3> QED
      BY <1>1, <3>1 DEF Ids
  <2>3. CASE j = 1 /\ i \in 2 .. n + 1
    <3>1. r = l[i - 1] /\ i - 1 \in 1 .. n
      BY <1>1, <1>5, <1>7, <2>3
    <3> QED
      BY <1>1, <3>1 DEF Ids
  <2> QED
    BY <1>1, <1>4, <2>1, <2>2, <2>3
<1>8. Line(m)
  BY <1>3, <1>7 DEF Line
<1> QED
  BY <1>6, <1>8 DEF m

\* Whoever leaves the line leaves it once, and nobody else does.
LEMMA LeaveLine ==
  ASSUME NEW l, Line(l), NEW r \in Ids(l)
  PROVE  Line(Leave(l, r)) /\ Ids(Leave(l, r)) = Ids(l) \ {r}
<1> DEFINE n == Len(l)
           k == CHOOSE i \in DOMAIN l : l[i] = r
           m == Leave(l, r)
<1>1. /\ DOMAIN l = 1 .. n /\ n \in Nat
      /\ \A i \in 1 .. n : l[i] \in RequestId
  BY LineShape
<1>2. k \in 1 .. n /\ l[k] = r
  BY <1>1 DEF Ids
<1>3. m = [i \in 1 .. n - 1 |-> IF i < k THEN l[i] ELSE l[i + 1]]
  BY DEF Leave
<1> HIDE DEF n, k, m
<1>4. /\ DOMAIN m = 1 .. n - 1
      /\ \A i \in 1 .. n - 1 : m[i] = IF i < k THEN l[i] ELSE l[i + 1]
  BY <1>3
<1>5. \A i, j \in 1 .. n : l[i] = l[j] => i = j
  BY <1>1 DEF Line
<1>6. m \in Seq(RequestId)
  <2>1. n - 1 \in Nat
    BY <1>1, <1>2
  <2>2. \A i \in 1 .. n - 1 : m[i] \in RequestId
    BY <1>1, <1>2, <1>4
  <2>3. m \in [1 .. n - 1 -> RequestId]
    BY <1>3, <2>2
  <2> QED
    BY <2>1, <2>3, SequenceShape
<1>7. ASSUME NEW i \in DOMAIN m, NEW j \in DOMAIN m, m[i] = m[j] PROVE i = j
  BY <1>1, <1>2, <1>4, <1>5, <1>7
<1>8. Ids(m) \subseteq Ids(l) \ {r}
  <2> SUFFICES ASSUME NEW i \in 1 .. n - 1
               PROVE  m[i] \in Ids(l) /\ m[i] # r
    BY <1>4 DEF Ids
  <2> DEFINE h == IF i < k THEN i ELSE i + 1
  <2>1. h \in 1 .. n /\ m[i] = l[h] /\ h # k
    BY <1>1, <1>2, <1>4
  <2> QED
    BY <1>1, <1>2, <1>5, <2>1 DEF Ids
<1>9. Ids(l) \ {r} \subseteq Ids(m)
  <2> SUFFICES ASSUME NEW h \in 1 .. n, l[h] # r
               PROVE  l[h] \in Ids(m)
    BY <1>1 DEF Ids
  <2> DEFINE i == IF h < k THEN h ELSE h - 1
  <2>1. i \in 1 .. n - 1 /\ m[i] = l[h]
    BY <1>1, <1>2, <1>4
  <2> QED
    BY <1>4, <2>1 DEF Ids
<1> QED
  BY <1>6, <1>7, <1>8, <1>9 DEF Line, m

-----------------------------------------------------------------------------
(* One admission *)

\* The members of S, and no others, hold blocks, each for all its tokens.
Shares(k, S) ==
  /\ Balanced(k)
  /\ DOMAIN k.allocated = S
  /\ \A r \in S : k.allocated[r] = BlocksFor(Tokens(workload, r))

Gone == InLine \cup Running \cup done

\* What the loop over the admissions keeps of the part s of the state.
Admitting(s) ==
  /\ DOMAIN s = {"waiting", "kv", "prefilling", "progress", "queue"}
  /\ Line(s.waiting)
  /\ Ids(s.waiting) \cap s.prefilling = {}
  /\ Ids(s.waiting) \cup s.prefilling = InLine \cup prefilling
  /\ DOMAIN s.progress = s.prefilling
  /\ \A r \in s.prefilling : s.progress[r] \in Nat
  /\ Shares(s.kv, s.prefilling \cup transferring \cup DOMAIN decoding)
  /\ Ledger(s.queue, RequestId \ Gone, s.prefilling, transferring,
            One(decode_scheduled))

\* What a request is charged for is a number of tokens and of blocks.
LEMMA TokensType ==
  ASSUME workload \in Workload, NEW r \in RequestId
  PROVE  /\ Tokens(workload, r) \in Nat
         /\ BlocksFor(Tokens(workload, r)) \in Nat
<1>1. workload[r].prompt \in Nat /\ workload[r].output \in Nat
  BY DEF Workload
<1>2. Tokens(workload, r) \in Nat
  BY <1>1 DEF Tokens
<1> QED
  BY <1>2, BlocksForHolds

\* One admission, granted or refused, keeps the rest of the line in line.
LEMMA AdmitOne ==
  ASSUME workload \in Workload, InLine \cup prefilling \subseteq RequestId,
         (InLine \cup prefilling) \cap (transferring \cup DOMAIN decoding) = {},
         NEW s, Admitting(s), NEW r \in Ids(s.waiting), NEW chunk \in Nat
  PROVE  /\ Admitting(AdmitRequest(s, r, chunk))
         /\ Ids(s.waiting) \ {r} \subseteq Ids(AdmitRequest(s, r, chunk).waiting)
<1>1. /\ r \in RequestId /\ r \notin s.prefilling
      /\ r \notin transferring /\ r \notin DOMAIN decoding
  BY DEF Admitting
<1>2. Line(s.waiting) /\ Line(Leave(s.waiting, r))
      /\ Ids(Leave(s.waiting, r)) = Ids(s.waiting) \ {r}
  BY LeaveLine DEF Admitting
<1>3. CASE CanFit(s.kv, Tokens(workload, r))
  <2> DEFINE t == Accept(s, r, chunk)
  <2>1. AdmitRequest(s, r, chunk) = t
    BY <1>3 DEF AdmitRequest
  <2>2. /\ DOMAIN t = DOMAIN s
        /\ t.waiting = Leave(s.waiting, r)
        /\ t.kv = Allocate(s.kv, r, Tokens(workload, r))
        /\ t.prefilling = s.prefilling \cup {r}
        /\ t.progress = With(s.progress, r, 0)
        /\ t.queue = Push(s.queue, StartPrefill(0, r, chunk))
    BY DEF Accept, Admitting
  <2> HIDE DEF t
  <2>3. /\ DOMAIN t.progress = t.prefilling
        /\ \A q \in t.prefilling : t.progress[q] \in Nat
    BY <2>2 DEF With, Admitting
  <2>4. Shares(t.kv, t.prefilling \cup transferring \cup DOMAIN decoding)
    <3> DEFINE b == BlocksFor(Tokens(workload, r))
               S == s.prefilling \cup transferring \cup DOMAIN decoding
    <3>1. /\ Balanced(s.kv) /\ DOMAIN s.kv.allocated = S
          /\ \A q \in S : s.kv.allocated[q] = BlocksFor(Tokens(workload, q))
      BY DEF Admitting, Shares
    <3>2. b \in Nat /\ b <= s.kv.free_blocks
      BY <1>1, <1>3, TokensType DEF CanFit
    <3>3. Held(s.kv, r) = 0
      BY <1>1, <3>1 DEF Held
    <3>4. t.kv = Take(s.kv, r, b)
      BY <1>3, <2>2 DEF Allocate
    <3> HIDE DEF b
    <3>5. /\ Balanced(t.kv) /\ DOMAIN t.kv.allocated = S \cup {r}
          /\ t.kv.allocated[r] = b
          /\ \A q \in S \ {r} : t.kv.allocated[q] = s.kv.allocated[q]
      BY <1>1, <3>1, <3>2, <3>3, <3>4, TakeBalanced
    <3> QED
      BY <2>2, <3>1, <3>5 DEF Shares, b
  <2>5. Ledger(t.queue, RequestId \ Gone, t.prefilling, transferring,
               One(decode_scheduled))
    <3>1. One(decode_scheduled) \in Nat
      BY DEF One
    <3>2. Ledger(s.queue, RequestId \ Gone, s.prefilling, transferring,
                 One(decode_scheduled))
      BY DEF Admitting
    <3> HIDE DEF Gone
    <3>3. Ledger(Push(s.queue, StartPrefill(0, r, chunk)), RequestId \ Gone,
                 s.prefilling \cup {r}, transferring, One(decode_scheduled))
      BY <1>1, <3>1, <3>2, Pushes
    <3> QED
      BY <2>2, <3>3
  <2>6. /\ Ids(t.waiting) \cap t.prefilling = {}
        /\ Ids(t.waiting) \cup t.prefilling = InLine \cup prefilling
    BY <1>1, <1>2, <2>2 DEF Admitting
  <2>7. Line(t.waiting) /\ DOMAIN t = DOMAIN s
    BY <1>2, <2>2
  <2>8. Admitting(t)
    BY <2>3, <2>4, <2>5, <2>6, <2>7 DEF Admitting
  <2> QED
    BY <1>2, <2>1, <2>2, <2>8
<1>4. CASE ~ CanFit(s.kv, Tokens(workload, r))
  <2> DEFINE t == Refuse(s, r)
             line == Leave(s.waiting, r)
  <2>1. AdmitRequest(s, r, chunk) = t
    BY <1>4 DEF AdmitRequest
  <2>2. /\ DOMAIN t = DOMAIN s
        /\ t.waiting = <<r>> \o line
        /\ t.kv = s.kv /\ t.prefilling = s.prefilling
        /\ t.progress = s.progress /\ t.queue = s.queue
    BY DEF Refuse, Admitting
  <2> HIDE DEF t, line
  <2>3. Line(line) /\ r \in RequestId \ Ids(line)
    BY <1>1, <1>2 DEF line
  <2>4. Line(t.waiting) /\ Ids(t.waiting) = Ids(line) \cup {r}
    BY <2>2, <2>3, JoinFront
  <2>5. Ids(t.waiting) = Ids(s.waiting)
    BY <1>2, <2>4 DEF line
  <2>6. Admitting(t)
    BY <2>2, <2>4, <2>5 DEF Admitting
  <2> QED
    BY <2>1, <2>5, <2>6
<1> QED
  BY <1>3, <1>4

-----------------------------------------------------------------------------
(* All admissions *)

\* The part of the state that the loop starts from.
LoopStart ==
  [waiting |-> waiting, kv |-> kv, prefilling |-> prefilling,
   progress |-> prefill_progress, queue |-> Rest]

\* The state after each turn of the loop exists: a recursive function's value
\* is known to the provers only where the function is known to exist.
LEMMA LoopExists ==
  ASSUME NEW admit, Len(waiting) \in Nat
  PROVE  \E f : f = [i \in 0 .. Len(waiting) |->
                      IF i = 0 THEN LoopStart
                      ELSE IF i \in DOMAIN admit
                           THEN AdmitRequest(f[i - 1], waiting[i], admit[i])
                           ELSE f[i - 1]]
<1> DEFINE Turn(t, i) == IF i \in DOMAIN admit
                         THEN AdmitRequest(t, waiting[i], admit[i]) ELSE t
           base == LoopStart
           P == {m \in Nat : \E f :
                   f = [i \in 0 .. m |-> IF i = 0 THEN base ELSE Turn(f[i - 1], i)]}
<1> HIDE DEF Turn, base
<1>1. 0 \in P
  <2> DEFINE f == [i \in 0 .. 0 |-> base]
  <2>1. f = [i \in 0 .. 0 |-> IF i = 0 THEN base ELSE Turn(f[i - 1], i)]
    OBVIOUS
  <2> QED
    BY <2>1
<1>2. ASSUME NEW m \in Nat, m \in P PROVE m + 1 \in P
  <2>1. PICK f : f = [i \in 0 .. m |-> IF i = 0 THEN base ELSE Turn(f[i - 1], i)]
    BY <1>2
  <2> DEFINE g == [i \in 0 .. m + 1 |-> IF i = m + 1 THEN Turn(f[m], i) ELSE f[i]]
             h == [i \in 0 .. m + 1 |-> IF i = 0 THEN base ELSE Turn(g[i - 1], i)]
  <2>2. \A i \in 0 .. m : f[i] = IF i = 0 THEN base ELSE Turn(f[i - 1], i)
    BY <2>1
  <2>3. \A i \in 0 .. m : g[i] = f[i]
    OBVIOUS
  <2>4. ASSUME NEW i \in 0 .. m + 1 PROVE g[i] = h[i]
    <3>1. CASE i = 0
      BY <2>2, <2>3, <3>1
    <3>2. CASE i \in 1 .. m
      <4>1. i - 1 \in 0 .. m /\ i \in 0 .. m /\ i # 0
        BY <3>2
      <4> QED
        BY <2>2, <2>3, <4>1
    <3>3. CASE i = m + 1
      <4>1. i - 1 = m /\ m \in 0 .. m /\ i # 0
        BY <3>3
      <4> QED
        BY <2>3, <3>3, <4>1
    <3> QED
      BY <3>1, <3>2, <3>3
  <2>5. g = h
    BY <2>4
  <2> HIDE DEF g
  <2> QED
    BY <2>5
<1>3. Len(waiting) \in P
  <2> HIDE DEF P
  <2> QED
    BY <1>1, <1>2, SetInduction
<1> QED
  BY <1>3 DEF Turn, base

\* The loop over the admissions, turn by turn.
LEMMA LoopTurns ==
  ASSUME NEW admit, Len(waiting) \in Nat
  PROVE  \E s : /\ s[0] = LoopStart
                /\ \A i \in 1 .. Len(waiting) :
                     s[i] = IF i \in DOMAIN admit
                            THEN AdmitRequest(s[i - 1], waiting[i], admit[i])
                            ELSE s[i - 1]
                /\ AdmitAll(admit) = s[Len(waiting)]
<1> DEFINE s[i \in 0 .. Len(waiting)] ==
             IF i = 0
             THEN [waiting |-> waiting, kv |-> kv, prefilling |-> prefilling,
                   progress |-> prefill_progress, queue |-> Rest]
             ELSE IF i \in DOMAIN admit
                  THEN AdmitRequest(s[i - 1], waiting[i], admit[i])
                  ELSE s[i - 1]
<1>1. \E f : f = [i \in 0 .. Len(waiting) |->
                   IF i = 0 THEN LoopStart
                   ELSE IF i \in DOMAIN admit
                        THEN AdmitRequest(f[i - 1], waiting[i], admit[i])
                        ELSE f[i - 1]]
  <2> HIDE DEF s
  <2> QED
    BY LoopExists
<1>2. s = [i \in 0 .. Len(waiting) |->
            IF i = 0 THEN LoopStart
            ELSE IF i \in DOMAIN admit
                 THEN AdmitRequest(s[i - 1], waiting[i], admit[i])
                 ELSE s[i - 1]]
  BY <1>1, Zenon DEF LoopStart
<1>3. AdmitAll(admit) = s[Len(waiting)]
  BY Zenon DEF AdmitAll
<1> HIDE DEF s
<1>4. /\ s[0] = LoopStart
      /\ \A i \in 1 .. Len(waiting) :
           s[i] = IF i \in DOMAIN admit
                  THEN AdmitRequest(s[i - 1], waiting[i], admit[i])
                  ELSE s[i - 1]
  BY <1>2
<1> QED
  BY <1>3, <1>4

\* The fields of the admission loop's state.
LoopParts == {"waiting", "kv", "prefilling", "progress", "queue"}

\* What one admission does to the queue and to the requests in prefill.
LEMMA AdmitEffect ==
  ASSUME NEW s, DOMAIN s = LoopParts, NEW r, NEW chunk
  PROVE  LET t == AdmitRequest(s, r, chunk)
         IN  /\ DOMAIN t = LoopParts
             /\ \/ t.queue = s.queue /\ t.prefilling = s.prefilling
                \/ /\ t.queue = Push(s.queue, StartPrefill(0, r, chunk))
                   /\ t.prefilling = s.prefilling \cup {r}
BY DEF AdmitRequest, Accept, Refuse, LoopParts

\* The loop over all admissions of a decision keeps what it started with.
LEMMA AdmitAllKeeps ==
  ASSUME workload \in Workload, Line(waiting), prefilling \subseteq RequestId,
         (InLine \cup prefilling) \cap (transferring \cup DOMAIN decoding) = {},
         Admitting(LoopStart),
         NEW admit, \A i \in DOMAIN admit : admit[i] \in Nat
  PROVE  Admitting(AdmitAll(admit))
<1> DEFINE n == Len(waiting)
<1>1. DOMAIN waiting = 1 .. n /\ n \in Nat /\ InLine \subseteq RequestId
      /\ InLine = Ids(waiting)
  BY LineShape DEF InLine, Ids
<1>2. PICK s : /\ s[0] = LoopStart
               /\ \A i \in 1 .. n : s[i] = IF i \in DOMAIN admit
                                         THEN AdmitRequest(s[i - 1], waiting[i], admit[i])
                                         ELSE s[i - 1]
               /\ AdmitAll(admit) = s[n]
  BY <1>1, LoopTurns
<1> HIDE DEF n
<1> DEFINE P == {i \in Nat : i <= n =>
                   /\ Admitting(s[i])
                   /\ \A j \in i + 1 .. n : waiting[j] \in Ids(s[i].waiting)}
<1>3. 0 \in P
  <2>1. LoopStart.waiting = waiting
    BY DEF LoopStart
  <2> QED
    BY <1>1, <1>2, <2>1 DEF Ids
<1>4. ASSUME NEW m \in Nat, m \in P PROVE m + 1 \in P
  <2> SUFFICES ASSUME m + 1 <= n
               PROVE  /\ Admitting(s[m + 1])
                      /\ \A j \in m + 2 .. n : waiting[j] \in Ids(s[m + 1].waiting)
    OBVIOUS
  <2> DEFINE t == s[m]
             r == waiting[m + 1]
  <2>1. /\ Admitting(t) /\ r \in Ids(t.waiting)
        /\ \A j \in m + 2 .. n : waiting[j] \in Ids(t.waiting)
    BY <1>1, <1>4
  <2>2. s[m + 1] = IF m + 1 \in DOMAIN admit THEN AdmitRequest(t, r, admit[m + 1]) ELSE t
    <3>1. m + 1 \in 1 .. n /\ (m + 1) - 1 = m
      BY <1>1
    <3> QED
      BY <1>2, <3>1
  <2>3. \A j \in m + 2 .. n : waiting[j] # r
    <3>1. m + 1 \in DOMAIN waiting /\ \A j \in m + 2 .. n : j \in DOMAIN waiting /\ j # m + 1
      BY <1>1
    <3> QED
      BY <3>1 DEF Line
  <2> HIDE DEF t, r
  <2>4. CASE m + 1 \in DOMAIN admit
    <3>1. admit[m + 1] \in Nat
      BY <2>4
    <3>2. InLine \cup prefilling \subseteq RequestId
      BY <1>1
    <3>3. /\ Admitting(AdmitRequest(t, r, admit[m + 1]))
          /\ Ids(t.waiting) \ {r} \subseteq Ids(AdmitRequest(t, r, admit[m + 1]).waiting)
      BY <2>1, <3>1, <3>2, AdmitOne
    <3> QED
      BY <2>1, <2>2, <2>3, <2>4, <3>3
  <2>5. CASE m + 1 \notin DOMAIN admit
    BY <2>1, <2>2, <2>5
  <2> QED
    BY <2>4, <2>5
<1>5. n \in P
  <2> HIDE DEF P
  <2> QED
    BY <1>1, <1>3, <1>4, SetInduction
<1> QED
  BY <1>1, <1>2, <1>5

-----------------------------------------------------------------------------
(* The chunks that the schedulers decide on *)

\* The chunked scheduler's budgets start with what is free and never run below zero.
LEMMA ChunkedBudgetType ==
  ASSUME NEW w \in Workload, NEW line \in Seq(RequestId),
         NEW running, IsFiniteSet(running), NEW free_blocks \in Nat
  PROVE  /\ ChunkedBudget(w, line, running, free_blocks)[0] =
              [tokens |-> SatSub(MaxBatchTokens, Cardinality(running)),
               blocks |-> free_blocks]
         /\ \A i \in 0 .. Len(line) :
              ChunkedBudget(w, line, running, free_blocks)[i]
                \in [tokens : Nat, blocks : Nat]
<1> DEFINE Base == [tokens |-> SatSub(MaxBatchTokens, Cardinality(running)),
                    blocks |-> free_blocks]
           Turn(l, r) == IF ChunkedFits(w, r, l)
                         THEN [l EXCEPT !.tokens = @ - FirstChunk(w, r, @),
                                        !.blocks = @ - BlocksFor(w[r].prompt)]
                         ELSE l
           B == [tokens : Nat, blocks : Nat]
<1>1. Len(line) \in Nat /\ \A i \in 1 .. Len(line) : line[i] \in RequestId
  BY LenProperties, ElementOfSeq
<1>2. Base \in B
  <2>1. Cardinality(running) \in Nat /\ MaxBatchTokens \in Nat
    BY FS_CardinalityType, SimulatorAssumption
  <2> QED
    BY <2>1 DEF SatSub
<1>3. ASSUME NEW l \in B, NEW r \in RequestId PROVE Turn(l, r) \in B
  <2>1. w[r].prompt \in Nat /\ ChunkSize \in Nat
    BY SimulatorAssumption DEF Workload
  <2>2. FirstChunk(w, r, l.tokens) \in 0 .. l.tokens
    BY <2>1 DEF FirstChunk, Least
  <2>3. BlocksFor(w[r].prompt) \in Nat
    BY <2>1, BlocksForHolds
  <2>4. CASE ChunkedFits(w, r, l)
    <3> DEFINE a == l.tokens - FirstChunk(w, r, l.tokens)
               b == l.blocks - BlocksFor(w[r].prompt)
    <3>1. a \in Nat /\ b \in Nat
      BY <2>2, <2>3, <2>4 DEF ChunkedFits
    <3>2. Turn(l, r) = [tokens |-> a, blocks |-> b]
      BY <2>4
    <3> HIDE DEF a, b
    <3> QED
      BY <3>1, <3>2
  <2>5. CASE ~ ChunkedFits(w, r, l)
    BY <2>5
  <2> QED
    BY <2>4, <2>5
<1> HIDE DEF Base, Turn, B
<1> DEFINE P == {m \in Nat : \E f :
                   f = [i \in 0 .. m |-> IF i = 0 THEN Base ELSE Turn(f[i - 1], line[i])]}
<1>4. 0 \in P
  <2> DEFINE f == [i \in 0 .. 0 |-> Base]
  <2>1. f = [i \in 0 .. 0 |-> IF i = 0 THEN Base ELSE Turn(f[i - 1], line[i])]
    OBVIOUS
  <2> QED
    BY <2>1
<1>5. ASSUME NEW m \in Nat, m \in P PROVE m + 1 \in P
  <2>1. PICK f : f = [i \in 0 .. m |-> IF i = 0 THEN Base ELSE Turn(f[i - 1], line[i])]
    BY <1>5
  <2> DEFINE g == [i \in 0 .. m + 1 |->
                     IF i = m + 1 THEN Turn(f[m], line[i]) ELSE f[i]]
             h == [i \in 0 .. m + 1 |->
                     IF i = 0 THEN Base ELSE Turn(g[i - 1], line[i])]
  <2>2. \A i \in 0 .. m : f[i] = IF i = 0 THEN Base ELSE Turn(f[i - 1], line[i])
    BY <2>1
  <2>3. \A i \in 0 .. m : g[i] = f[i]
    OBVIOUS
  <2>4. ASSUME NEW i \in 0 .. m + 1 PROVE g[i] = h[i]
    <3>1. CASE i = 0
      BY <2>2, <2>3, <3>1
    <3>2. CASE i \in 1 .. m
      <4>1. i - 1 \in 0 .. m /\ i \in 0 .. m /\ i # 0
        BY <3>2
      <4> QED
        BY <2>2, <2>3, <4>1
    <3>3. CASE i = m + 1
      <4>1. i - 1 = m /\ m \in 0 .. m /\ i # 0
        BY <3>3
      <4> QED
        BY <2>3, <3>3, <4>1
    <3> QED
      BY <3>1, <3>2, <3>3
  <2>5. g = h
    BY <2>4
  <2>6. m + 1 \in Nat
    OBVIOUS
  <2> HIDE DEF g
  <2> QED
    BY <2>5, <2>6, Zenon
<1>6. Len(line) \in P
  <2> HIDE DEF P
  <2> QED
    BY <1>1, <1>4, <1>5, SetInduction
<1> DEFINE
  budget[i \in 0 .. Len(line)] ==
    IF i = 0
    THEN [tokens |-> SatSub(MaxBatchTokens, Cardinality(running)),
          blocks |-> free_blocks]
    ELSE LET r == line[i]
         IN  IF ChunkedFits(w, r, budget[i - 1])
             THEN [budget[i - 1] EXCEPT !.tokens = @ - FirstChunk(w, r, @),
                                        !.blocks = @ - BlocksFor(w[r].prompt)]
             ELSE budget[i - 1]
<1>7. \E f : f = [i \in 0 .. Len(line) |->
                   IF i = 0 THEN Base ELSE Turn(f[i - 1], line[i])]
  BY <1>6
<1>8. budget = [i \in 0 .. Len(line) |->
                 IF i = 0 THEN Base ELSE Turn(budget[i - 1], line[i])]
  BY <1>7, Zenon DEF Base, Turn
<1>9. ChunkedBudget(w, line, running, free_blocks) = budget
  BY Zenon DEF ChunkedBudget
<1> HIDE DEF budget
<1>10. /\ budget[0] = Base
       /\ \A i \in 1 .. Len(line) : budget[i] = Turn(budget[i - 1], line[i])
  BY <1>1, <1>8
<1> DEFINE Q == {i \in Nat : i <= Len(line) => budget[i] \in B}
<1>11. 0 \in Q
  BY <1>2, <1>10
<1>12. ASSUME NEW m \in Nat, m \in Q PROVE m + 1 \in Q
  <2> SUFFICES ASSUME m + 1 <= Len(line) PROVE budget[m + 1] \in B
    OBVIOUS
  <2>1. m + 1 \in 1 .. Len(line) /\ (m + 1) - 1 = m /\ budget[m] \in B
    BY <1>1, <1>12
  <2> QED
    BY <1>1, <1>3, <1>10, <2>1
<1>13. ASSUME NEW i \in 0 .. Len(line) PROVE budget[i] \in B
  <2> HIDE DEF Q
  <2>1. i \in Q
    BY <1>1, <1>11, <1>12, SetInduction
  <2> QED
    BY <1>1, <2>1 DEF Q
<1> QED
  BY <1>9, <1>10, <1>13 DEF B, Base

\* Either scheduler gives every request it admits a chunk.
LEMMA AdmittedType ==
  ASSUME workload \in Workload, Line(waiting), Running \subseteq RequestId,
         kv.free_blocks \in Nat
  PROVE  \A i \in DOMAIN Admitted : Admitted[i] \in Nat
<1>1. DOMAIN waiting = 1 .. Len(waiting) /\ Len(waiting) \in Nat
      /\ \A i \in 1 .. Len(waiting) : waiting[i] \in RequestId
  BY LineShape
<1>2. \A r \in RequestId : workload[r].prompt \in Nat
  BY DEF Workload
<1>3. CASE config.scheduler = "continuous"
  <2>1. ContinuousAdmit(workload, waiting, Running, kv.free_blocks)
          \subseteq DOMAIN waiting
    BY DEF ContinuousAdmit
  <2> QED
    BY <1>1, <1>2, <1>3, <2>1 DEF Admitted
<1>4. CASE config.scheduler # "continuous"
  <2> DEFINE budget == ChunkedBudget(workload, waiting, Running, kv.free_blocks)
  <2>1. IsFiniteSet(Running)
    BY KvAssumption, FS_Subset
  <2>2. waiting \in Seq(RequestId)
    BY DEF Line
  <2>3. \A i \in 0 .. Len(waiting) : budget[i] \in [tokens : Nat, blocks : Nat]
    BY <2>1, <2>2, ChunkedBudgetType
  <2>4. Admitted = [i \in {i \in DOMAIN waiting :
                            ChunkedFits(workload, waiting[i], budget[i - 1])} |->
                      FirstChunk(workload, waiting[i], budget[i - 1].tokens)]
    BY <1>4 DEF Admitted, ChunkedAdmit
  <2> HIDE DEF budget
  <2>5. ASSUME NEW i \in 1 .. Len(waiting)
        PROVE  FirstChunk(workload, waiting[i], budget[i - 1].tokens) \in Nat
    <3>1. i - 1 \in 0 .. Len(waiting)
      BY <1>1
    <3>2. budget[i - 1].tokens \in Nat
      BY <2>3, <3>1
    <3>3. workload[waiting[i]].prompt \in Nat /\ ChunkSize \in Nat
      BY <1>1, <1>2, SimulatorAssumption
    <3> QED
      BY <3>2, <3>3 DEF FirstChunk, Least
  <2> QED
    BY <1>1, <2>4, <2>5
<1> QED
  BY <1>3, <1>4

-----------------------------------------------------------------------------
(* The invariant *)

Gpus == {"prefill", "decode"}

\* The parts that every step types on their own.
Typed ==
  /\ config \in Configs /\ workload \in Workloads
  /\ left \in Nat \cup {Forever} /\ ended \in BOOLEAN
  /\ busy \in [Gpus -> Nat]
  /\ decode_scheduled \in BOOLEAN

\* Where requests are, and what they hold there.
Placed ==
  /\ Line(waiting)
  /\ prefilling \subseteq RequestId /\ transferring \subseteq RequestId
  /\ DOMAIN decoding \subseteq RequestId /\ done \subseteq RequestId
  /\ InLine \cap Running = {} /\ InLine \cap done = {} /\ Running \cap done = {}
  /\ prefilling \cap transferring = {}
  /\ prefilling \cap DOMAIN decoding = {}
  /\ transferring \cap DOMAIN decoding = {}
  /\ DOMAIN prefill_progress = prefilling
  /\ \A r \in prefilling : prefill_progress[r] \in Nat
  /\ \A r \in DOMAIN decoding : decoding[r] \in Nat
  /\ Shares(kv, Running)

\* What is pending: until the horizon, exactly what the phases call for.
Books == Ledger(queue, RequestId \ Gone, prefilling, transferring,
                One(decode_scheduled))

SimInv ==
  /\ Typed
  /\ Placed
  /\ queue \in Seq(SimEvents) /\ Ordered(queue)
  /\ ~ ended => Books /\ (DOMAIN decoding # {} => decode_scheduled)
  /\ ended => \A r \in Anyone : Count(queue, Arr(r)) <= One(r \in RequestId \ Gone)

-----------------------------------------------------------------------------
(* One turn of the loop *)

\* A workload asks for numbers of tokens.
LEMMA WorkloadsTyped ==
  ASSUME Typed
  PROVE  /\ workload \in Workload
         /\ \A r \in RequestId : /\ workload[r].prompt \in Nat
                                 /\ workload[r].output \in Nat
BY SimulatorAssumption DEF Typed, Workload

\* What the loop hands to a handler: a pending event of its kind, struck from
\* the books, the clock moved to the event's time.
LEMMA Popped ==
  ASSUME SimInv, NEW kind, Pops(kind)
  PROVE  /\ ~ ended /\ ended' = ended
         /\ config' = config /\ workload' = workload
         /\ left' \in Nat \cup {Forever}
         /\ BusyNow \in [Gpus -> Nat]
         /\ Event0 \in SimEvents /\ Event0.kind = kind
         /\ kind = "SchedulerTick" =>
              Ledger(Rest, RequestId \ Gone, prefilling, transferring,
                     One(decode_scheduled))
         /\ kind = "RequestArrival" =>
              /\ Event0.req \in RequestId \ Gone
              /\ Ledger(Rest, (RequestId \ Gone) \ {Event0.req}, prefilling,
                        transferring, One(decode_scheduled))
         /\ kind \in {"PrefillStart", "PrefillDone"} =>
              /\ Event0.req \in prefilling
              /\ Ledger(Rest, RequestId \ Gone, prefilling \ {Event0.req},
                        transferring, One(decode_scheduled))
         /\ kind = "KvTransfer" =>
              /\ Event0.req \in transferring
              /\ Ledger(Rest, RequestId \ Gone, prefilling,
                        transferring \ {Event0.req}, One(decode_scheduled))
         /\ kind = "BatchDecodeStep" =>
              /\ decode_scheduled
              /\ Ledger(Rest, RequestId \ Gone, prefilling, transferring, 0)
<1>1. /\ ~ ended /\ ended' = ended
      /\ config' = config /\ workload' = workload
      /\ queue # <<>> /\ Event0.kind = kind /\ ~ PastHorizon
      /\ left' = IF left = Forever THEN left ELSE left - Event0.time
  BY DEF Pops
<1>2. /\ One(decode_scheduled) \in Nat /\ decode_scheduled \in BOOLEAN
      /\ left \in Nat \cup {Forever} /\ busy \in [Gpus -> Nat]
  BY DEF One, SimInv, Typed
<1>3. Ledger(queue, RequestId \ Gone, prefilling, transferring,
             One(decode_scheduled))
  BY <1>1 DEF SimInv, Books
<1> DEFINE e == Event0
           arr == RequestId \ Gone
           n == One(decode_scheduled)
<1> HIDE DEF arr, n
<1>4. /\ e \in SimEvents
      /\ e.kind = "SchedulerTick" => Ledger(Rest, arr, prefilling, transferring, n)
      /\ e.kind = "RequestArrival" =>
           /\ e.req \in arr
           /\ Ledger(Rest, arr \ {e.req}, prefilling, transferring, n)
      /\ e.kind \in {"PrefillStart", "PrefillDone"} =>
           /\ e.req \in prefilling
           /\ Ledger(Rest, arr, prefilling \ {e.req}, transferring, n)
      /\ e.kind = "KvTransfer" =>
           /\ e.req \in transferring
           /\ Ledger(Rest, arr, prefilling, transferring \ {e.req}, n)
      /\ e.kind = "BatchDecodeStep" =>
           n > 0 /\ Ledger(Rest, arr, prefilling, transferring, n - 1)
  <2>1. Ledger(queue, arr, prefilling, transferring, n) /\ n \in Nat
    BY <1>2, <1>3 DEF arr, n
  <2> QED
    BY <1>1, <2>1, PopEntry DEF Event0, Rest
<1>5. e.time \in Nat
  BY <1>4, Accounts
<1>6. left' \in Nat \cup {Forever}
  BY <1>1, <1>2, <1>5 DEF PastHorizon
<1>7. BusyNow \in [Gpus -> Nat]
  BY <1>2, <1>5 DEF BusyNow, SatSub
<1>8. n > 0 => n = 1 /\ decode_scheduled
  BY <1>2 DEF n, One
<1>9. kind = "BatchDecodeStep" =>
        decode_scheduled /\ Ledger(Rest, arr, prefilling, transferring, 0)
  <2> SUFFICES ASSUME kind = "BatchDecodeStep"
               PROVE  decode_scheduled /\ Ledger(Rest, arr, prefilling, transferring, 0)
    OBVIOUS
  <2>1. n = 1 /\ decode_scheduled /\ Ledger(Rest, arr, prefilling, transferring, n - 1)
    BY <1>1, <1>4, <1>8
  <2>2. n - 1 = 0
    BY <2>1
  <2> QED
    BY <2>1, <2>2
<1> QED
  BY <1>1, <1>4, <1>6, <1>7, <1>9 DEF arr, n

\* A turn of the loop keeps the invariant when its handler keeps the books and
\* everybody's place.
LEMMA TurnKeeps ==
  ASSUME SimInv, NEW kind, Pops(kind),
         busy' \in [Gpus -> Nat], decode_scheduled' \in BOOLEAN, Placed',
         Books', DOMAIN decoding' # {} => decode_scheduled'
  PROVE  SimInv'
<1>1. Typed'
  BY Popped DEF SimInv, Typed
<1>2. queue' \in Seq(SimEvents) /\ Ordered(queue')
  BY DEF Books, Ledger
<1> QED
  BY <1>1, <1>2, Popped DEF SimInv

\* An arriving request joins the line, and its arrival leaves the books.
LEMMA ArrivalKeeps == SimInv /\ HandleArrival => SimInv'
<1> SUFFICES ASSUME SimInv, HandleArrival PROVE SimInv'
  OBVIOUS
<1> DEFINE r == Event0.req
<1>1. /\ Pops("RequestArrival") /\ waiting' = Append(waiting, r)
      /\ queue' = Push(Rest, Tick(0)) /\ busy' = BusyNow
      /\ prefilling' = prefilling /\ prefill_progress' = prefill_progress
      /\ transferring' = transferring /\ decoding' = decoding /\ done' = done
      /\ decode_scheduled' = decode_scheduled /\ kv' = kv
  BY DEF HandleArrival
<1>2. /\ r \in RequestId \ Gone /\ workload' = workload /\ ~ ended
      /\ Ledger(Rest, (RequestId \ Gone) \ {r}, prefilling, transferring,
                One(decode_scheduled))
      /\ BusyNow \in [Gpus -> Nat]
  BY <1>1, Popped
<1>3. Placed /\ decode_scheduled \in BOOLEAN
      /\ (DOMAIN decoding # {} => decode_scheduled)
  BY <1>2 DEF SimInv, Typed
<1> HIDE DEF r
<1>4. Line(waiting)' /\ InLine' = InLine \cup {r}
  <2>1. InLine = Ids(waiting) /\ InLine' = Ids(waiting')
    BY DEF InLine, Ids
  <2>2. Line(waiting) /\ r \in RequestId \ Ids(waiting)
    BY <1>2, <1>3, <2>1 DEF Placed, Gone
  <2>3. Line(waiting') /\ Ids(waiting') = Ids(waiting) \cup {r}
    BY <1>1, <2>2, JoinBack
  <2> QED
    BY <2>1, <2>3
<1>5. Running' = Running /\ Gone' = Gone \cup {r}
  BY <1>1, <1>4 DEF Running, Gone
<1>6. Shares(kv, Running)'
  BY <1>1, <1>2, <1>3, <1>5 DEF Placed, Shares
<1>7. Placed'
  BY <1>1, <1>2, <1>3, <1>4, <1>5, <1>6 DEF Placed, Gone
<1>8. Books'
  <2>1. One(decode_scheduled) \in Nat
    BY DEF One
  <2>2. Ledger(queue', (RequestId \ Gone) \ {r}, prefilling, transferring,
               One(decode_scheduled))
    BY <1>1, <1>2, <2>1, Pushes
  <2>3. (RequestId \ Gone) \ {r} = RequestId \ Gone'
    BY <1>5
  <2> QED
    BY <1>1, <2>2, <2>3 DEF Books
<1> QED
  BY <1>1, <1>2, <1>3, <1>7, <1>8, TurnKeeps

\* The victim goes from the batch to the front of the line, its blocks to the pool.
LEMMA PreemptionKeeps == SimInv /\ TickPreempts => SimInv'
<1> SUFFICES ASSUME SimInv, TickPreempts PROVE SimInv'
  OBVIOUS
<1>1. PICK r \in CandidateVictims :
        /\ decoding' = Without(decoding, r)
        /\ kv' = Free(kv, {r})
        /\ waiting' = <<r>> \o waiting
  BY DEF TickPreempts
<1>2. /\ Pops("SchedulerTick") /\ queue' = Push(Rest, Tick(0)) /\ busy' = BusyNow
      /\ prefilling' = prefilling /\ prefill_progress' = prefill_progress
      /\ transferring' = transferring /\ done' = done
      /\ decode_scheduled' = decode_scheduled
  BY DEF TickPreempts
<1>3. /\ workload' = workload /\ ~ ended /\ BusyNow \in [Gpus -> Nat]
      /\ Ledger(Rest, RequestId \ Gone, prefilling, transferring,
                One(decode_scheduled))
  BY <1>2, Popped
<1>4. Placed /\ decode_scheduled \in BOOLEAN
      /\ (DOMAIN decoding # {} => decode_scheduled)
  BY <1>3 DEF SimInv, Typed
<1>5. r \in DOMAIN decoding
  BY DEF CandidateVictims, Victims
<1>6. /\ DOMAIN decoding' = DOMAIN decoding \ {r}
      /\ \A q \in DOMAIN decoding' : decoding'[q] \in Nat
  BY <1>1, <1>4 DEF Without, Placed
<1>7. Line(waiting)' /\ InLine' = InLine \cup {r}
  <2>1. InLine = Ids(waiting) /\ InLine' = Ids(waiting')
    BY DEF InLine, Ids
  <2>2. Line(waiting) /\ r \in RequestId \ Ids(waiting)
    BY <1>4, <1>5, <2>1 DEF Placed, Running
  <2>3. Line(waiting') /\ Ids(waiting') = Ids(waiting) \cup {r}
    BY <1>1, <2>2, JoinFront
  <2> QED
    BY <2>1, <2>3
<1>8. Running' = Running \ {r} /\ Gone' = Gone
  BY <1>2, <1>4, <1>5, <1>6, <1>7 DEF Running, Gone, Placed
<1>9. Shares(kv, Running)'
  <2>1. /\ Balanced(kv) /\ DOMAIN kv.allocated = Running
        /\ \A q \in Running : kv.allocated[q] = BlocksFor(Tokens(workload, q))
    BY <1>4 DEF Placed, Shares
  <2>2. /\ Balanced(kv') /\ DOMAIN kv'.allocated = Running \ {r}
        /\ \A q \in Running \ {r} : kv'.allocated[q] = kv.allocated[q]
    BY <1>1, <2>1, FreeBalanced
  <2> QED
    BY <1>3, <1>8, <2>1, <2>2 DEF Shares
<1>10. Placed'
  BY <1>2, <1>4, <1>5, <1>6, <1>7, <1>8, <1>9 DEF Placed, Running
<1>11. Books'
  <2>1. One(decode_scheduled) \in Nat
    BY DEF One
  <2>2. Ledger(queue', RequestId \ Gone, prefilling, transferring,
               One(decode_scheduled))
    BY <1>2, <1>3, <1>5, <2>1, Pushes, RequestsNumbered, <1>4 DEF Placed
  <2> QED
    BY <1>2, <1>8, <2>2 DEF Books
<1> QED
  BY <1>2, <1>3, <1>4, <1>6, <1>10, <1>11, TurnKeeps

\* The loop over a tick's admissions starts with the books in order ...
LEMMA LoopAdmitting ==
  ASSUME SimInv, Pops("SchedulerTick")
  PROVE  Admitting(LoopStart)
<1>1. Ledger(Rest, RequestId \ Gone, prefilling, transferring, One(decode_scheduled))
  BY Popped
<1>2. Placed /\ workload \in Workload
  BY WorkloadsTyped DEF SimInv
<1>3. InLine = Ids(waiting)
  BY DEF InLine, Ids
<1> DEFINE t == LoopStart
<1>4. /\ DOMAIN t = {"waiting", "kv", "prefilling", "progress", "queue"}
      /\ t.waiting = waiting /\ t.kv = kv /\ t.prefilling = prefilling
      /\ t.progress = prefill_progress /\ t.queue = Rest
  BY DEF LoopStart
<1> HIDE DEF t
<1>5. /\ Line(waiting) /\ Ids(waiting) \cap prefilling = {}
      /\ DOMAIN prefill_progress = prefilling
      /\ \A r \in prefilling : prefill_progress[r] \in Nat
      /\ Shares(kv, prefilling \cup transferring \cup DOMAIN decoding)
  BY <1>2, <1>3 DEF Placed, Running
<1>6. Line(t.waiting) /\ DOMAIN t.progress = t.prefilling
      /\ \A r \in t.prefilling : t.progress[r] \in Nat
  BY <1>4, <1>5
<1>7. /\ Ids(t.waiting) \cap t.prefilling = {}
      /\ Ids(t.waiting) \cup t.prefilling = InLine \cup prefilling
  BY <1>3, <1>4, <1>5
<1>8. Shares(t.kv, t.prefilling \cup transferring \cup DOMAIN decoding)
  BY <1>4, <1>5
<1>9. Ledger(t.queue, RequestId \ Gone, t.prefilling, transferring,
             One(decode_scheduled))
  BY <1>1, <1>4
<1>10. Admitting(t)
  BY <1>4, <1>6, <1>7, <1>8, <1>9 DEF Admitting
<1> QED
  BY <1>10 DEF t

\* ... and keeps them in order.
LEMMA TickAdmitting ==
  ASSUME SimInv, Pops("SchedulerTick")
  PROVE  Admitting(AdmitAll(Admitted))
<1>1. Placed /\ workload \in Workload
  BY WorkloadsTyped DEF SimInv
<1>2. \A i \in DOMAIN Admitted : Admitted[i] \in Nat
  BY <1>1, AdmittedType DEF Placed, Shares, Balanced
<1>3. /\ Line(waiting) /\ prefilling \subseteq RequestId
      /\ (InLine \cup prefilling) \cap (transferring \cup DOMAIN decoding) = {}
  BY <1>1 DEF Placed, Running
<1> QED
  BY <1>1, <1>2, <1>3, LoopAdmitting, AdmitAllKeeps

\* Whoever a tick admits or refuses ends up in one place, with its blocks and event.
LEMMA AdmissionKeeps == SimInv /\ TickAdmits => SimInv'
<1> SUFFICES ASSUME SimInv, TickAdmits PROVE SimInv'
  OBVIOUS
<1>1. PICK s : /\ s = AdmitAll(Admitted)
               /\ waiting' = s.waiting /\ kv' = s.kv
               /\ prefilling' = s.prefilling /\ prefill_progress' = s.progress
               /\ queue' = s.queue
  BY DEF TickAdmits
<1>2. /\ Pops("SchedulerTick") /\ busy' = BusyNow
      /\ transferring' = transferring /\ decoding' = decoding /\ done' = done
      /\ decode_scheduled' = decode_scheduled
  BY DEF TickAdmits
<1>3. /\ workload' = workload /\ ~ ended /\ BusyNow \in [Gpus -> Nat]
      /\ Ledger(Rest, RequestId \ Gone, prefilling, transferring,
                One(decode_scheduled))
  BY <1>2, Popped
<1>4. Placed /\ decode_scheduled \in BOOLEAN
      /\ (DOMAIN decoding # {} => decode_scheduled)
  BY <1>3 DEF SimInv, Typed
<1>5. InLine = Ids(waiting) /\ InLine' = Ids(waiting')
  BY DEF InLine, Ids
<1>6. Admitting(s)
  BY <1>1, <1>2, TickAdmitting
<1>7. /\ Line(waiting') /\ InLine' \cap prefilling' = {}
      /\ InLine' \cup prefilling' = InLine \cup prefilling
      /\ DOMAIN prefill_progress' = prefilling'
      /\ \A r \in prefilling' : prefill_progress'[r] \in Nat
      /\ Shares(kv', prefilling' \cup transferring \cup DOMAIN decoding)
      /\ Ledger(queue', RequestId \ Gone, prefilling', transferring,
                One(decode_scheduled))
  BY <1>1, <1>5, <1>6 DEF Admitting
<1>8. /\ Running' = prefilling' \cup transferring \cup DOMAIN decoding
      /\ Gone' = Gone
  BY <1>2, <1>7 DEF Running, Gone
<1>9. Shares(kv, Running)'
  BY <1>3, <1>7, <1>8 DEF Shares
<1>10. InLine \subseteq RequestId
  BY <1>4, <1>5, LineShape DEF Placed
<1>11. Placed'
  BY <1>2, <1>4, <1>7, <1>8, <1>9, <1>10 DEF Placed, Running
<1>12. Books'
  BY <1>2, <1>7, <1>8 DEF Books
<1> QED
  BY <1>2, <1>3, <1>4, <1>11, <1>12, TurnKeeps

\* What the phases of prefill leave in place when no request moves.
LEMMA PrefillStays ==
  ASSUME Placed, NEW r \in prefilling, NEW v \in Nat,
         prefill_progress' = With(prefill_progress, r, v),
         UNCHANGED <<workload, waiting, prefilling, transferring, decoding, done, kv>>
  PROVE  Placed' /\ Gone' = Gone
<1>1. /\ DOMAIN prefill_progress' = prefilling
      /\ \A q \in prefilling : prefill_progress'[q] \in Nat
  BY DEF Placed, With
<1>2. InLine' = InLine /\ Running' = Running /\ Gone' = Gone
  BY DEF InLine, Running, Gone
<1>3. Shares(kv, Running)'
  BY <1>2 DEF Placed, Shares
<1> QED
  BY <1>1, <1>2, <1>3 DEF Placed

\* How far the prefill of a request has come, and what is left of it.
LEMMA ProgressType ==
  ASSUME Typed, Placed, NEW r \in prefilling
  PROVE  Progress(r) \in Nat /\ Remaining(r) \in Nat
<1>1. Progress(r) \in Nat
  BY DEF Placed, Progress
<1>2. workload[r].prompt \in Nat
  BY WorkloadsTyped DEF Placed
<1> QED
  BY <1>1, <1>2 DEF Remaining, SatSub

\* A chunk that starts trades its start event for its end event.
LEMMA PrefillStartKeeps == SimInv /\ HandlePrefillStart => SimInv'
<1> SUFFICES ASSUME SimInv, HandlePrefillStart PROVE SimInv'
  OBVIOUS
<1> DEFINE r == Event0.req
           v == Progress(r) + Event0.chunk
<1>1. PICK latency \in PrefillLatencies :
        /\ busy' = [BusyNow EXCEPT !["prefill"] = PrefillEnd(latency)]
        /\ queue' = Push(Rest, EndPrefill(PrefillEnd(latency), r))
  BY DEF HandlePrefillStart
<1>2. /\ Pops("PrefillStart")
      /\ prefill_progress' = With(prefill_progress, r, v)
      /\ UNCHANGED <<waiting, prefilling, transferring, decoding, done,
                     decode_scheduled, kv>>
  BY DEF HandlePrefillStart
<1>3. /\ workload' = workload /\ ~ ended /\ BusyNow \in [Gpus -> Nat]
      /\ r \in prefilling /\ Event0 \in SimEvents
      /\ Ledger(Rest, RequestId \ Gone, prefilling \ {r}, transferring,
                One(decode_scheduled))
  BY <1>2, Popped
<1>4. Typed /\ Placed /\ decode_scheduled \in BOOLEAN
      /\ (DOMAIN decoding # {} => decode_scheduled)
  BY <1>3 DEF SimInv, Typed
<1>5. r \in RequestId
  BY <1>3, <1>4 DEF Placed
<1>6. v \in Nat
  BY <1>3, <1>4, ProgressType DEF SimEvents, Events
<1>7. PrefillEnd(latency) \in Nat
  BY <1>3, SimulatorAssumption DEF PrefillEnd, Gpus
<1> HIDE DEF r, v
<1>8. Placed' /\ Gone' = Gone
  BY <1>2, <1>3, <1>4, <1>6, PrefillStays
<1>9. busy' \in [Gpus -> Nat]
  BY <1>1, <1>3, <1>7
<1>10. Books'
  <2>1. One(decode_scheduled) \in Nat
    BY DEF One
  <2>2. Ledger(queue', RequestId \ Gone, (prefilling \ {r}) \cup {r}, transferring,
               One(decode_scheduled))
    BY <1>1, <1>3, <1>5, <1>7, <2>1, Pushes
  <2>3. (prefilling \ {r}) \cup {r} = prefilling
    BY <1>3
  <2> QED
    BY <1>2, <1>8, <2>2, <2>3 DEF Books
<1> QED
  BY <1>2, <1>4, <1>8, <1>9, <1>10, TurnKeeps

\* A prompt with more to do trades the end event for the next start.
LEMMA ContinuationKeeps == SimInv /\ PrefillContinues => SimInv'
<1> SUFFICES ASSUME SimInv, PrefillContinues PROVE SimInv'
  OBVIOUS
<1> DEFINE r == Event0.req
           chunk == IF config.scheduler = "chunked" THEN Least(Remaining(r), ChunkSize)
                                                    ELSE Remaining(r)
           v == Progress(r) + chunk
<1>1. /\ Pops("PrefillDone")
      /\ prefill_progress' = With(prefill_progress, r, v)
      /\ queue' = Push(Rest, StartPrefill(0, r, chunk))
      /\ busy' = BusyNow
      /\ UNCHANGED <<waiting, prefilling, transferring, decoding, done,
                     decode_scheduled, kv>>
  BY DEF PrefillContinues
<1>2. /\ workload' = workload /\ ~ ended /\ BusyNow \in [Gpus -> Nat]
      /\ r \in prefilling
      /\ Ledger(Rest, RequestId \ Gone, prefilling \ {r}, transferring,
                One(decode_scheduled))
  BY <1>1, Popped
<1>3. Typed /\ Placed /\ decode_scheduled \in BOOLEAN
      /\ (DOMAIN decoding # {} => decode_scheduled)
  BY <1>2 DEF SimInv, Typed
<1>4. r \in RequestId
  BY <1>2, <1>3 DEF Placed
<1>5. chunk \in Nat /\ v \in Nat
  <2>1. Progress(r) \in Nat /\ Remaining(r) \in Nat /\ ChunkSize \in Nat
    BY <1>2, <1>3, ProgressType, SimulatorAssumption
  <2> QED
    BY <2>1 DEF Least
<1> HIDE DEF r, chunk, v
<1>6. Placed' /\ Gone' = Gone
  BY <1>1, <1>2, <1>3, <1>5, PrefillStays
<1>7. Books'
  <2>1. One(decode_scheduled) \in Nat
    BY DEF One
  <2>2. Ledger(queue', RequestId \ Gone, (prefilling \ {r}) \cup {r}, transferring,
               One(decode_scheduled))
    BY <1>1, <1>2, <1>4, <1>5, <2>1, Pushes
  <2>3. (prefilling \ {r}) \cup {r} = prefilling
    BY <1>2
  <2> QED
    BY <1>1, <1>6, <2>2, <2>3 DEF Books
<1> QED
  BY <1>1, <1>2, <1>3, <1>6, <1>7, TurnKeeps

\* The decode batch's next step is pending afterwards, once.
LEMMA Scheduled ==
  ASSUME NEW arr, NEW pre, NEW xfer, NEW q, NEW t \in Nat,
         decode_scheduled \in BOOLEAN, RequestId # {},
         Ledger(q, arr, pre, xfer, One(decode_scheduled)), ScheduleDecode(q, t)
  PROVE  decode_scheduled' = TRUE /\ Ledger(queue', arr, pre, xfer, 1)
<1>1. decode_scheduled' = TRUE
  BY DEF ScheduleDecode
<1>2. CASE decode_scheduled
  BY <1>1, <1>2 DEF ScheduleDecode, One
<1>3. CASE ~ decode_scheduled
  <2>1. queue' = Push(q, StepDecode(t)) /\ Ledger(q, arr, pre, xfer, 0)
    BY <1>3 DEF ScheduleDecode, One
  <2>2. Ledger(queue', arr, pre, xfer, 0 + 1)
    BY <2>1, Pushes
  <2> QED
    BY <1>1, <2>2
<1> QED
  BY <1>2, <1>3

\* A prefilled request enters the batch, and the batch has a step pending.
LEMMA CoupledEndKeeps == SimInv /\ PrefillEndsCoupled => SimInv'
<1> SUFFICES ASSUME SimInv, PrefillEndsCoupled PROVE SimInv'
  OBVIOUS
<1> DEFINE r == Event0.req
<1>1. /\ Pops("PrefillDone")
      /\ prefill_progress' = Without(prefill_progress, r)
      /\ prefilling' = prefilling \ {r}
      /\ decoding' = IF r \in prefilling THEN With(decoding, r, 0) ELSE decoding
      /\ ScheduleDecode(Rest, 0)
      /\ busy' = BusyNow
      /\ UNCHANGED <<waiting, transferring, done, kv>>
  BY DEF PrefillEndsCoupled
<1>2. /\ workload' = workload /\ ~ ended /\ BusyNow \in [Gpus -> Nat]
      /\ r \in prefilling
      /\ Ledger(Rest, RequestId \ Gone, prefilling \ {r}, transferring,
                One(decode_scheduled))
  BY <1>1, Popped
<1>3. Placed /\ decode_scheduled \in BOOLEAN
  BY <1>2 DEF SimInv, Typed
<1>4. r \in RequestId
  BY <1>2, <1>3 DEF Placed
<1> HIDE DEF r
<1>5. /\ DOMAIN decoding' = DOMAIN decoding \cup {r}
      /\ \A q \in DOMAIN decoding' : decoding'[q] \in Nat
      /\ DOMAIN prefill_progress' = prefilling'
      /\ \A q \in prefilling' : prefill_progress'[q] \in Nat
  BY <1>1, <1>2, <1>3 DEF Placed, With, Without
<1>6. InLine' = InLine /\ Running' = Running /\ Gone' = Gone
  BY <1>1, <1>2, <1>5 DEF InLine, Running, Gone
<1>7. Shares(kv, Running)'
  BY <1>1, <1>2, <1>3, <1>6 DEF Placed, Shares
<1>8. Placed'
  BY <1>1, <1>2, <1>3, <1>4, <1>5, <1>6, <1>7 DEF Placed
<1>9. decode_scheduled' = TRUE
      /\ Ledger(queue', RequestId \ Gone, prefilling \ {r}, transferring, 1)
  BY <1>1, <1>2, <1>3, <1>4, Scheduled
<1>10. Books'
  BY <1>1, <1>6, <1>9 DEF Books, One
<1> QED
  BY <1>1, <1>2, <1>8, <1>9, <1>10, TurnKeeps

\* A prefilled request trades its prefill event for a transfer.
LEMMA DisaggregatedEndKeeps == SimInv /\ PrefillEndsDisaggregated => SimInv'
<1> SUFFICES ASSUME SimInv, PrefillEndsDisaggregated PROVE SimInv'
  OBVIOUS
<1> DEFINE r == Event0.req
<1>1. /\ Pops("PrefillDone")
      /\ prefill_progress' = Without(prefill_progress, r)
      /\ busy' = BusyNow
      /\ UNCHANGED <<waiting, decoding, done, decode_scheduled, kv>>
  BY DEF PrefillEndsDisaggregated
<1>2. /\ workload' = workload /\ ~ ended /\ BusyNow \in [Gpus -> Nat]
      /\ r \in prefilling
      /\ Ledger(Rest, RequestId \ Gone, prefilling \ {r}, transferring,
                One(decode_scheduled))
  BY <1>1, Popped
<1>3. /\ prefilling' = prefilling \ {r}
      /\ transferring' = transferring \cup {r}
      /\ queue' = Push(Rest, TransferKv(0, r))
  BY <1>2 DEF PrefillEndsDisaggregated
<1>4. Placed /\ decode_scheduled \in BOOLEAN
      /\ (DOMAIN decoding # {} => decode_scheduled)
  BY <1>2 DEF SimInv, Typed
<1>5. r \in RequestId /\ r \notin transferring
  BY <1>2, <1>4 DEF Placed
<1> HIDE DEF r
<1>6. /\ DOMAIN prefill_progress' = prefilling'
      /\ \A q \in prefilling' : prefill_progress'[q] \in Nat
  BY <1>1, <1>3, <1>4 DEF Placed, Without
<1>7. InLine' = InLine /\ Running' = Running /\ Gone' = Gone
  BY <1>1, <1>2, <1>3 DEF InLine, Running, Gone
<1>8. Shares(kv, Running)'
  BY <1>1, <1>2, <1>4, <1>7 DEF Placed, Shares
<1>9. Placed'
  BY <1>1, <1>2, <1>3, <1>4, <1>5, <1>6, <1>7, <1>8 DEF Placed
<1>10. Books'
  <2>1. One(decode_scheduled) \in Nat
    BY DEF One
  <2>2. Ledger(queue', RequestId \ Gone, prefilling \ {r}, transferring \cup {r},
               One(decode_scheduled))
    BY <1>2, <1>3, <1>5, <2>1, Pushes
  <2> QED
    BY <1>1, <1>3, <1>7, <2>2 DEF Books
<1> QED
  BY <1>1, <1>2, <1>4, <1>9, <1>10, TurnKeeps

\* A transferred request enters the batch, and the batch has a step pending.
LEMMA TransferKeeps ==
  ASSUME SimInv, NEW latency \in TransferLatencies, HandleKvTransfer(latency)
  PROVE  SimInv'
<1> DEFINE r == Event0.req
<1>1. /\ Pops("KvTransfer")
      /\ transferring' = transferring \ {r}
      /\ decoding' = IF r \in transferring THEN With(decoding, r, 0) ELSE decoding
      /\ ScheduleDecode(Rest, latency)
      /\ busy' = BusyNow
      /\ UNCHANGED <<waiting, prefilling, prefill_progress, done, kv>>
  BY DEF HandleKvTransfer
<1>2. /\ workload' = workload /\ ~ ended /\ BusyNow \in [Gpus -> Nat]
      /\ r \in transferring
      /\ Ledger(Rest, RequestId \ Gone, prefilling, transferring \ {r},
                One(decode_scheduled))
  BY <1>1, Popped
<1>3. Placed /\ decode_scheduled \in BOOLEAN
  BY <1>2 DEF SimInv, Typed
<1>4. r \in RequestId /\ latency \in Nat
  BY <1>2, <1>3, SimulatorAssumption DEF Placed
<1> HIDE DEF r
<1>5. /\ DOMAIN decoding' = DOMAIN decoding \cup {r}
      /\ \A q \in DOMAIN decoding' : decoding'[q] \in Nat
  BY <1>1, <1>2, <1>3 DEF Placed, With
<1>6. InLine' = InLine /\ Running' = Running /\ Gone' = Gone
  BY <1>1, <1>2, <1>5 DEF InLine, Running, Gone
<1>7. Shares(kv, Running)'
  BY <1>1, <1>2, <1>3, <1>6 DEF Placed, Shares
<1>8. Placed'
  BY <1>1, <1>2, <1>3, <1>4, <1>5, <1>6, <1>7 DEF Placed
<1>9. decode_scheduled' = TRUE
      /\ Ledger(queue', RequestId \ Gone, prefilling, transferring \ {r}, 1)
  BY <1>1, <1>2, <1>3, <1>4, Scheduled
<1>10. Books'
  BY <1>1, <1>6, <1>9 DEF Books, One
<1> QED
  BY <1>1, <1>2, <1>8, <1>9, <1>10, TurnKeeps

\* A step that finds the batch empty leaves none pending.
LEMMA EmptyStepKeeps == SimInv /\ DecodeNothing => SimInv'
<1> SUFFICES ASSUME SimInv, DecodeNothing PROVE SimInv'
  OBVIOUS
<1>1. /\ Pops("BatchDecodeStep") /\ DOMAIN decoding = {}
      /\ decode_scheduled' = FALSE /\ queue' = Rest /\ busy' = BusyNow
      /\ UNCHANGED <<requests, kv>>
  BY DEF DecodeNothing
<1>2. /\ workload' = workload /\ ~ ended /\ BusyNow \in [Gpus -> Nat]
      /\ Ledger(Rest, RequestId \ Gone, prefilling, transferring, 0)
  BY <1>1, Popped
<1>3. Placed
  BY DEF SimInv
<1>4. InLine' = InLine /\ Running' = Running /\ Gone' = Gone
  BY <1>1 DEF InLine, Running, Gone, requests
<1>5. Shares(kv, Running)'
  BY <1>1, <1>2, <1>3, <1>4 DEF Placed, Shares
<1>6. Placed'
  BY <1>1, <1>3, <1>4, <1>5 DEF Placed, requests
<1>7. Books'
  BY <1>1, <1>2, <1>4 DEF Books, One, requests
<1> QED
  BY <1>1, <1>2, <1>6, <1>7, TurnKeeps DEF requests

\* A step takes out whom it completes, with their blocks, and goes on for the others.
LEMMA StepKeeps == SimInv /\ DecodeStep => SimInv'
<1> SUFFICES ASSUME SimInv, DecodeStep PROVE SimInv'
  OBVIOUS
<1>1. PICK latency \in DecodeLatencies :
        /\ busy' = [BusyNow EXCEPT ![DecodeGpu] = BusyNow[DecodeGpu] + latency]
        /\ queue' = AfterStep(BusyNow[DecodeGpu] + latency)
  BY DEF DecodeStep, StepEnd
<1> DEFINE D == DOMAIN decoding
           t == BusyNow[DecodeGpu] + latency
<1>2. /\ Pops("BatchDecodeStep") /\ D # {}
      /\ decoding' = [r \in D \ Completed |-> NextStep(r)]
      /\ done' = done \cup Completed
      /\ kv' = Free(kv, Completed)
      /\ decode_scheduled' = (D # Completed)
      /\ UNCHANGED <<waiting, prefilling, prefill_progress, transferring>>
  BY DEF DecodeStep
<1>3. /\ workload' = workload /\ ~ ended /\ BusyNow \in [Gpus -> Nat]
      /\ Ledger(Rest, RequestId \ Gone, prefilling, transferring, 0)
  BY <1>2, Popped
<1>4. Typed /\ Placed
  BY DEF SimInv
<1>5. Completed \subseteq D /\ D \subseteq RequestId
  BY <1>4 DEF Completed, Placed
<1>6. \A r \in D : NextStep(r) \in Nat
  BY <1>4, <1>5, WorkloadsTyped, SimulatorAssumption DEF NextStep, Least, Placed
<1>7. t \in Nat /\ DecodeGpu \in Gpus
  BY <1>3, SimulatorAssumption DEF DecodeGpu, Gpus
<1>8. /\ DOMAIN decoding' = D \ Completed
      /\ \A r \in DOMAIN decoding' : decoding'[r] \in Nat
  BY <1>2, <1>6
<1> HIDE DEF D, t
<1>9. /\ InLine' = InLine
      /\ Running' = Running \ Completed
      /\ Gone' = Gone
  BY <1>2, <1>4, <1>5, <1>8 DEF InLine, Running, Gone, Placed, D
<1>10. Shares(kv, Running)'
  <2>1. /\ Balanced(kv) /\ DOMAIN kv.allocated = Running
        /\ \A q \in Running : kv.allocated[q] = BlocksFor(Tokens(workload, q))
    BY <1>4 DEF Placed, Shares
  <2>2. /\ Balanced(kv') /\ DOMAIN kv'.allocated = Running \ Completed
        /\ \A q \in Running \ Completed : kv'.allocated[q] = kv.allocated[q]
    BY <1>2, <2>1, FreeBalanced
  <2> QED
    BY <1>3, <1>9, <2>1, <2>2 DEF Shares
<1>11. Completed \subseteq Running
  BY <1>5 DEF Running, D
<1>12. Placed'
  BY <1>2, <1>4, <1>5, <1>8, <1>9, <1>10, <1>11 DEF Placed, D
<1>13. Ledger(queue', RequestId \ Gone, prefilling, transferring,
              One(decode_scheduled'))
  <2>1. PICK r \in RequestId : TRUE
    BY <1>2, <1>5
  <2>2. CASE D = Completed
    <3>1. decode_scheduled' = FALSE
      BY <1>2, <2>2 DEF D
    <3>2. queue' = Push(Rest, Tick(t))
      BY <1>1, <2>2 DEF AfterStep, D, t
    <3>3. Ledger(queue', RequestId \ Gone, prefilling, transferring, 0)
      BY <1>3, <1>7, <2>1, <3>2, Pushes
    <3> QED
      BY <3>1, <3>3 DEF One
  <2>3. CASE D # Completed
    <3>1. decode_scheduled' = TRUE
      BY <1>2, <2>3 DEF D
    <3>2. queue' = Push(Push(Rest, StepDecode(t)), Tick(t))
      BY <1>1, <2>3 DEF AfterStep, D, t
    <3>3. Ledger(Push(Rest, StepDecode(t)), RequestId \ Gone, prefilling,
                 transferring, 0 + 1)
      BY <1>3, <1>7, <2>1, Pushes
    <3>4. Ledger(Push(Rest, StepDecode(t)), RequestId \ Gone, prefilling,
                 transferring, 1)
      BY <3>3
    <3>5. Ledger(queue', RequestId \ Gone, prefilling, transferring, 1)
      BY <1>7, <2>1, <3>2, <3>4, Pushes
    <3> QED
      BY <3>1, <3>5 DEF One
  <2> QED
    BY <2>2, <2>3
<1>14. Books'
  BY <1>2, <1>9, <1>13 DEF Books
<1>15. busy' \in [Gpus -> Nat]
  BY <1>1, <1>3, <1>7 DEF t
<1> QED
  BY <1>2, <1>8, <1>12, <1>14, <1>15, TurnKeeps DEF D

-----------------------------------------------------------------------------
(* The start and the end of a run *)

\* Simulator::new books every arrival, and a tick.
LEMMA ArrivalsBooked ==
  ASSUME workload \in Workloads
  PROVE  Ledger([r \in RequestId |-> Arrival(workload[r].arrival, r)],
                RequestId, {}, {}, 0)
<1> DEFINE q == [r \in RequestId |-> Arrival(workload[r].arrival, r)]
           n == NumRequests
<1>1. RequestId = 1 .. n /\ n \in Nat
  BY SimulatorAssumption, KvAssumption, FS_CardinalityType DEF NumRequests
<1>2. /\ \A r \in RequestId : workload[r].arrival \in Nat
      /\ \A r, s \in RequestId : r <= s => workload[r].arrival <= workload[s].arrival
  BY SimulatorAssumption DEF Workload
<1>3. /\ DOMAIN q = RequestId
      /\ \A r \in RequestId : /\ q[r] \in SimEvents
                              /\ q[r].time = workload[r].arrival
                              /\ q[r].kind = "RequestArrival" /\ q[r].req = r
  BY <1>2 DEF Arrival, Event, SimEvents, Events, Anyone, Kinds
<1> HIDE DEF n
<1>4. q \in Seq(SimEvents)
  <2>1. q \in [1 .. n -> SimEvents]
    BY <1>1, <1>3
  <2> HIDE DEF q
  <2> QED
    BY <1>1, <2>1, SequenceShape
<1> HIDE DEF q
<1>5. Ordered(q)
  BY <1>2, <1>3 DEF Ordered
<1>6. ASSUME NEW r \in Anyone PROVE Count(q, Arr(r)) = One(r \in RequestId)
  <2>1. Matching(q, Arr(r)) = IF r \in RequestId THEN {r} ELSE {}
    BY <1>3 DEF Matching, Arr
  <2> QED
    BY <2>1, FS_Singleton, FS_EmptySet DEF Count, One
<1>7. ASSUME NEW r \in Anyone
      PROVE  Count(q, Pre(r)) = 0 /\ Count(q, Xfer(r)) = 0
  <2>1. Matching(q, Pre(r)) = {} /\ Matching(q, Xfer(r)) = {}
    BY <1>3 DEF Matching, Pre, Xfer
  <2> QED
    BY <2>1, FS_EmptySet DEF Count
<1>8. Count(q, Steps) = 0
  <2>1. Matching(q, Steps) = {}
    BY <1>3 DEF Matching, Steps
  <2> QED
    BY <2>1, FS_EmptySet DEF Count
<1>9. Ledger(q, RequestId, {}, {}, 0)
  BY <1>4, <1>5, <1>6, <1>7, <1>8 DEF Ledger, One
<1> QED
  BY <1>9 DEF q

\* The invariant holds when the simulator has been built ...
LEMMA SimInvInit == Init => SimInv
<1> SUFFICES ASSUME Init PROVE SimInv
  OBVIOUS
<1>1. /\ workload \in Workloads /\ config \in Configs /\ left \in Horizons
      /\ queue = Push([r \in RequestId |-> Arrival(workload[r].arrival, r)], Tick(0))
      /\ ended = FALSE /\ busy = [g \in Gpus |-> 0]
      /\ waiting = <<>> /\ prefilling = {} /\ prefill_progress = Empty
      /\ transferring = {} /\ decoding = Empty /\ decode_scheduled = FALSE
      /\ kv = NewKvCache /\ done = {}
  BY DEF Init, Gpus
<1>2. Typed
  BY <1>1, SimulatorAssumption DEF Typed
<1>3. DOMAIN decoding = {} /\ DOMAIN prefill_progress = {}
  BY <1>1 DEF Empty
<1>4. InLine = {} /\ Running = {} /\ Gone = {}
  BY <1>1, <1>3 DEF InLine, Running, Gone
<1>5. Shares(kv, Running)
  BY <1>1, <1>4, NewBalanced DEF Shares, NewKvCache, Empty
<1>6. Line(waiting)
  BY <1>1, EmptySeq DEF Line
<1>7. Placed
  BY <1>1, <1>3, <1>4, <1>5, <1>6 DEF Placed
<1>8. Books
  <2> DEFINE e == Tick(0)
             q == [r \in RequestId |-> Arrival(workload[r].arrival, r)]
  <2>1. e \in SimEvents /\ e.kind = "SchedulerTick"
    BY DEF SimEvents, Events, Tick, Event, Anyone, Kinds
  <2>2. Ledger(q, RequestId, {}, {}, 0) /\ queue = Push(q, e)
    BY <1>1, ArrivalsBooked
  <2> HIDE DEF e, q
  <2>3. Ledger(queue, RequestId, {}, {}, 0)
    BY <2>1, <2>2, PushEntry
  <2>4. RequestId \ Gone = RequestId /\ One(decode_scheduled) = 0
    BY <1>1, <1>4 DEF One
  <2> QED
    BY <1>1, <2>3, <2>4 DEF Books
<1>9. queue \in Seq(SimEvents) /\ Ordered(queue)
  BY <1>8 DEF Books, Ledger
<1> QED
  BY <1>1, <1>2, <1>3, <1>7, <1>8, <1>9 DEF SimInv

\* The event dropped at the horizon may leave a gap in the books, no more.
LEMMA HorizonKeeps == SimInv /\ PassesHorizon => SimInv'
<1> SUFFICES ASSUME SimInv, PassesHorizon PROVE SimInv'
  OBVIOUS
<1>1. /\ ~ ended /\ queue # <<>> /\ ended' = TRUE /\ queue' = Tail(queue)
      /\ UNCHANGED <<config, workload, left, busy, requests, decode_scheduled, kv>>
  BY DEF PassesHorizon
<1>2. Typed'
  BY <1>1 DEF SimInv, Typed
<1>3. InLine' = InLine /\ Running' = Running /\ Gone' = Gone
  BY <1>1 DEF InLine, Running, Gone, requests
<1>4. Placed'
  <2>1. Shares(kv, Running)'
    BY <1>1, <1>3 DEF SimInv, Placed, Shares
  <2> QED
    BY <1>1, <1>3, <2>1 DEF SimInv, Placed, requests
<1>5. queue \in Seq(Events(Anyone, Kinds)) /\ Ordered(queue)
  BY DEF SimInv, SimEvents
<1>6. /\ queue' \in Seq(Events(Anyone, Kinds)) /\ Ordered(queue')
      /\ \A P : Count(queue, P) =
                Count(queue', P) + IF Matches(Head(queue), P) THEN 1 ELSE 0
  BY <1>1, <1>5, TailEffect
<1>7. ASSUME NEW r \in Anyone
      PROVE  Count(queue', Arr(r)) <= One(r \in RequestId \ Gone)
  <2>1. Count(queue, Arr(r)) = One(r \in RequestId \ Gone)
    BY <1>1 DEF SimInv, Books, Ledger
  <2>2. Count(queue', Arr(r)) \in Nat
    BY <1>6, MatchingFinite
  <2> QED
    BY <1>6, <2>1, <2>2 DEF One
<1> QED
  BY <1>1, <1>2, <1>3, <1>4, <1>6, <1>7 DEF SimInv, SimEvents

\* ... and as long as nothing happens ...
LEMMA StutterKeeps == SimInv /\ UNCHANGED vars => SimInv'
<1> SUFFICES ASSUME SimInv, UNCHANGED vars PROVE SimInv'
  OBVIOUS
<1>1. UNCHANGED <<config, workload, queue, left, ended, busy, waiting, prefilling,
                  prefill_progress, transferring, decoding, done,
                  decode_scheduled, kv>>
  BY DEF vars, requests
<1>2. InLine' = InLine /\ Running' = Running /\ Gone' = Gone
  BY <1>1 DEF InLine, Running, Gone
<1>3. Typed' /\ Shares(kv, Running)'
  BY <1>1, <1>2 DEF SimInv, Typed, Placed, Shares
<1>4. Placed'
  BY <1>1, <1>2, <1>3 DEF SimInv, Placed
<1>5. Books' <=> Books
  BY <1>1, <1>2 DEF Books
<1> QED
  BY <1>1, <1>2, <1>3, <1>4, <1>5 DEF SimInv

\* ... and every turn of the loop keeps it.
LEMMA SimInvNext == SimInv /\ [Next]_vars => SimInv'
<1> SUFFICES ASSUME SimInv, [Next]_vars PROVE SimInv'
  OBVIOUS
<1>1. CASE HandleArrival
  BY <1>1, ArrivalKeeps
<1>2. CASE TickPreempts
  BY <1>2, PreemptionKeeps
<1>3. CASE TickAdmits
  BY <1>3, AdmissionKeeps
<1>4. CASE HandlePrefillStart
  BY <1>4, PrefillStartKeeps
<1>5. CASE PrefillContinues
  BY <1>5, ContinuationKeeps
<1>6. CASE PrefillEndsCoupled
  BY <1>6, CoupledEndKeeps
<1>7. CASE PrefillEndsDisaggregated
  BY <1>7, DisaggregatedEndKeeps
<1>8. CASE \E latency \in TransferLatencies : HandleKvTransfer(latency)
  BY <1>8, TransferKeeps
<1>9. CASE DecodeNothing
  BY <1>9, EmptyStepKeeps
<1>10. CASE DecodeStep
  BY <1>10, StepKeeps
<1>11. CASE PassesHorizon
  BY <1>11, HorizonKeeps
<1>12. CASE UNCHANGED vars
  BY <1>12, StutterKeeps
<1> QED
  BY <1>1, <1>2, <1>3, <1>4, <1>5, <1>6, <1>7, <1>8, <1>9, <1>10, <1>11, <1>12
     DEF Next, Dispatch, Returned

\* Requests, events and memory agree in every state of every run.
THEOREM SimulatorInvariant == Spec => []SimInv
BY SimInvInit, SimInvNext, PTL DEF Spec

-----------------------------------------------------------------------------
(* What follows *)

\* At most one position matches an account that holds at most one event.
LEMMA AtMostOne ==
  ASSUME NEW S, NEW q \in Seq(S), NEW P, Count(q, P) <= 1,
         NEW i \in Matching(q, P), NEW j \in Matching(q, P)
  PROVE  i = j
<1> SUFFICES ASSUME i # j PROVE FALSE
  OBVIOUS
<1>1. IsFiniteSet(Matching(q, P)) /\ Count(q, P) \in Nat
  BY MatchingFinite
<1>2. Cardinality({i} \cup {j}) = 2
  <2>1. IsFiniteSet({i}) /\ Cardinality({i}) = 1
    BY FS_Singleton
  <2>2. Cardinality({i} \cup {j}) = Cardinality({i}) + 1
    BY <2>1, FS_AddElement
  <2> QED
    BY <2>1, <2>2
<1>3. {i} \cup {j} \subseteq Matching(q, P)
  OBVIOUS
<1>4. Cardinality({i} \cup {j}) <= Count(q, P)
  BY <1>1, <1>3, FS_Subset DEF Count
<1> DEFINE k == Count(q, P)
<1>5. k \in Nat /\ k <= 1 /\ 2 <= k
  BY <1>1, <1>2, <1>4
<1> HIDE DEF k
<1> QED
  BY <1>5

\* Every part of the state keeps its type, and the queue stays in pop order.
THEOREM SimTypeCorrect == Spec => []TypeOK
<1>1. SimInv => TypeOK
  <2> SUFFICES ASSUME SimInv PROVE TypeOK
    OBVIOUS
  <2>1. queue \in Seq([time : Nat, req : RequestId \cup {NoRequest}, chunk : Nat,
                       kind : {"RequestArrival", "PrefillStart", "PrefillDone",
                               "KvTransfer", "BatchDecodeStep", "SchedulerTick"}])
        /\ Ordered(queue)
    BY DEF SimInv, SimEvents, Events, Anyone, Kinds
  <2>2. Running \subseteq RequestId
    BY DEF SimInv, Placed, Running
  <2>3. /\ kv.free_blocks \in Nat /\ DOMAIN kv.allocated \subseteq RequestId
        /\ \A r \in DOMAIN kv.allocated : kv.allocated[r] \in Nat
    BY DEF SimInv, Placed, Shares, Balanced
  <2> QED
    BY <2>1, <2>3 DEF TypeOK, SimInv, Typed, Placed, Line, Gpus
<1> QED
  BY <1>1, SimulatorInvariant, PTL

\* Memory follows the phases of the requests, and nothing is lost of the pool.
THEOREM SimBlocksMatchPhases == Spec => []BlocksMatchPhases
<1>1. SimInv => BlocksMatchPhases
  BY DEF SimInv, Placed, Shares, Balanced, BlocksMatchPhases
<1> QED
  BY <1>1, SimulatorInvariant, PTL

\* No handler runs on a stale event.
THEOREM SimOneEventPerRequest == Spec => []OneEventPerRequest
<1>1. SimInv => OneEventPerRequest
  <2> SUFFICES ASSUME SimInv, ~ ended, NEW r \in RequestId
               PROVE  /\ Cardinality(PendingFor({"PrefillStart", "PrefillDone"}, r))
                           = IF r \in prefilling THEN 1 ELSE 0
                      /\ Cardinality(PendingFor({"KvTransfer"}, r))
                           = IF r \in transferring THEN 1 ELSE 0
    BY DEF OneEventPerRequest
  <2>1. /\ PendingFor({"PrefillStart", "PrefillDone"}, r) = Matching(queue, Pre(r))
        /\ PendingFor({"KvTransfer"}, r) = Matching(queue, Xfer(r))
    BY DEF PendingFor, Matching, Pre, Xfer
  <2>2. /\ Count(queue, Pre(r)) = One(r \in prefilling)
        /\ Count(queue, Xfer(r)) = One(r \in transferring)
    BY DEF SimInv, Books, Ledger, Anyone
  <2> QED
    BY <2>1, <2>2 DEF Count, One
<1> QED
  BY <1>1, SimulatorInvariant, PTL

\* The decode batch neither stops nor runs twice.
THEOREM SimOneDecodeStep == Spec => []OneDecodeStep
<1>1. SimInv => OneDecodeStep
  <2> SUFFICES ASSUME SimInv, ~ ended PROVE OneDecodeStep
    BY DEF OneDecodeStep
  <2>1. queue \in Seq(SimEvents) /\ Count(queue, Steps) = One(decode_scheduled)
        /\ (DOMAIN decoding # {} => decode_scheduled)
    BY DEF SimInv, Books, Ledger
  <2>2. \A i \in DOMAIN queue : queue[i] \in SimEvents
    BY <2>1, LenProperties, ElementOfSeq
  <2>3. \A i \in DOMAIN queue : <<queue[i].kind, queue[i].req>> \in Steps
                                  <=> queue[i].kind = "BatchDecodeStep"
    BY <2>2, Accounts DEF Matches
  <2>4. Pending("BatchDecodeStep") = Matching(queue, Steps)
    BY <2>3 DEF Pending, Matching
  <2> QED
    BY <2>1, <2>4 DEF OneDecodeStep, Count, One
<1> QED
  BY <1>1, SimulatorInvariant, PTL

\* No handler loses, duplicates or resurrects a request.
THEOREM SimOnePlace == Spec => []OnePlace
<1>1. SimInv => OnePlace
  <2> SUFFICES ASSUME SimInv PROVE OnePlace
    OBVIOUS
  <2> DEFINE A == Pending("RequestArrival")
  <2>1. queue \in Seq(SimEvents) /\ Placed
    BY DEF SimInv
  <2>2. \A r \in Anyone : /\ Count(queue, Arr(r)) <= One(r \in RequestId \ Gone)
                          /\ ~ ended => Count(queue, Arr(r)) = One(r \in RequestId \ Gone)
    BY DEF SimInv, Books, Ledger, One, Typed
  <2>3. \A i \in A : queue[i].req \in Anyone /\ i \in Matching(queue, Arr(queue[i].req))
    <3>1. \A i \in DOMAIN queue : queue[i] \in SimEvents
      BY <2>1, LenProperties, ElementOfSeq
    <3> QED
      BY <3>1, Accounts DEF Pending, Matching, Arr
  <2>4. ASSUME NEW i \in A
        PROVE  queue[i].req \in RequestId \ Gone /\ Count(queue, Arr(queue[i].req)) <= 1
    <3> DEFINE P == Arr(queue[i].req)
    <3>1. Count(queue, P) \in Nat /\ Count(queue, P) # 0
      BY <2>1, <2>3, CountPositive
    <3> QED
      BY <2>2, <2>3, <3>1 DEF One
  <2>5. \A i, j \in A : queue[i].req = queue[j].req => i = j
    BY <2>1, <2>3, <2>4, AtMostOne
  <2>6. Arriving \subseteq RequestId \ Gone
    BY <2>4 DEF Arriving
  <2>7. ASSUME ~ ended, NEW r \in RequestId \ Gone PROVE r \in Arriving
    <3>1. Count(queue, Arr(r)) = 1
      BY <2>2, <2>7 DEF Anyone, One
    <3>2. PICK i : i \in Matching(queue, Arr(r))
      BY <2>1, <3>1, CountPositive
    <3> QED
      BY <3>2 DEF Matching, Arr, Arriving, Pending
  <2>8. \A i, j \in DOMAIN waiting : waiting[i] = waiting[j] => i = j
    BY <2>1 DEF Placed, Line
  <2>9. DOMAIN prefill_progress = prefilling
    BY <2>1 DEF Placed
  <2>10. \A i, j \in DOMAIN Places : i # j => Places[i] \cap Places[j] = {}
    <3>1. /\ InLine \cap Running = {} /\ InLine \cap done = {}
          /\ Running \cap done = {} /\ prefilling \cap transferring = {}
          /\ prefilling \cap DOMAIN decoding = {}
          /\ transferring \cap DOMAIN decoding = {}
      BY <2>1 DEF Placed
    <3> QED
      BY <2>6, <3>1 DEF Places, Gone, Running
  <2>11. ~ ended => RequestId \subseteq UNION {Places[i] : i \in DOMAIN Places}
    <3> SUFFICES ASSUME ~ ended, NEW r \in RequestId
                 PROVE  \E i \in DOMAIN Places : r \in Places[i]
      OBVIOUS
    <3>1. \/ r \in Arriving \/ r \in InLine \/ r \in prefilling
          \/ r \in transferring \/ r \in DOMAIN decoding \/ r \in done
      BY <2>7 DEF Gone, Running
    <3> QED
      BY <3>1 DEF Places
  <2> QED
    BY <2>5, <2>8, <2>9, <2>10, <2>11 DEF OnePlace
<1> QED
  BY <1>1, SimulatorInvariant, PTL

-----------------------------------------------------------------------------
(* KV lengths *)

\* A request in decode has produced no more than it was asked for.
DecodeLengths == \A r \in DOMAIN decoding : decoding[r] <= workload[r].output

\* Nothing is decoded when the simulator has been built ...
LEMMA LengthsInit == Init => DecodeLengths
BY DEF Init, Empty, DecodeLengths

\* ... and no handler moves a request past its last token.
LEMMA LengthsNext == SimInv /\ DecodeLengths /\ [Next]_vars => DecodeLengths'
<1> SUFFICES ASSUME SimInv, DecodeLengths, [Next]_vars PROVE DecodeLengths'
  OBVIOUS
<1>1. workload' = workload
  BY DEF Next, Dispatch, Returned, PassesHorizon, vars, HandleArrival, TickPreempts,
         TickAdmits, HandlePrefillStart, PrefillContinues, PrefillEndsCoupled,
         PrefillEndsDisaggregated, HandleKvTransfer, DecodeNothing, DecodeStep, Pops
<1>2. \A r \in RequestId : workload[r].output \in Nat
  BY WorkloadsTyped DEF SimInv
<1>3. prefilling \cup transferring \subseteq RequestId /\ DOMAIN decoding \subseteq RequestId
  BY DEF SimInv, Placed
<1>4. CASE decoding' = decoding
  BY <1>1, <1>4 DEF DecodeLengths
<1>5. ASSUME NEW r \in RequestId, decoding' = With(decoding, r, 0)
      PROVE  DecodeLengths'
  BY <1>1, <1>2, <1>5 DEF DecodeLengths, With
<1>6. CASE TickPreempts
  <2>1. PICK r : decoding' = Without(decoding, r)
    BY <1>6 DEF TickPreempts
  <2> QED
    BY <1>1, <2>1 DEF DecodeLengths, Without
<1>7. CASE PrefillEndsCoupled
  <2>1. \/ decoding' = decoding
        \/ Event0.req \in prefilling /\ decoding' = With(decoding, Event0.req, 0)
    BY <1>7 DEF PrefillEndsCoupled
  <2> QED
    BY <1>3, <1>4, <1>5, <2>1
<1>8. CASE \E latency \in TransferLatencies : HandleKvTransfer(latency)
  <2>1. \/ decoding' = decoding
        \/ Event0.req \in transferring /\ decoding' = With(decoding, Event0.req, 0)
    BY <1>8 DEF HandleKvTransfer
  <2> QED
    BY <1>3, <1>4, <1>5, <2>1
<1>9. CASE DecodeStep
  <2>1. decoding' = [r \in DOMAIN decoding \ Completed |-> NextStep(r)]
    BY <1>9 DEF DecodeStep
  <2>2. ASSUME NEW r \in DOMAIN decoding PROVE NextStep(r) <= workload[r].output
    <3>1. workload[r].output \in Nat /\ decoding[r] \in Nat /\ Advance \in Nat
      BY <1>2, <1>3, SimulatorAssumption DEF SimInv, Placed
    <3> QED
      BY <3>1 DEF NextStep, Least
  <2> QED
    BY <1>1, <2>1, <2>2 DEF DecodeLengths
<1>10. \/ decoding' = decoding \/ TickPreempts \/ PrefillEndsCoupled \/ DecodeStep
       \/ \E latency \in TransferLatencies : HandleKvTransfer(latency)
  BY DEF Next, Dispatch, Returned, PassesHorizon, vars, requests, HandleArrival,
         TickAdmits, HandlePrefillStart, PrefillContinues,
         PrefillEndsDisaggregated, DecodeNothing
<1> QED
  BY <1>4, <1>6, <1>7, <1>8, <1>9, <1>10

\* What is decoded fits the blocks held, block by block, hence the pool.
LEMMA LengthsFit == SimInv /\ DecodeLengths => KvLengthsFit
<1> SUFFICES ASSUME SimInv, DecodeLengths PROVE KvLengthsFit
  OBVIOUS
<1> DEFINE D == DOMAIN decoding
           f == kv.allocated
           g == [r \in D |-> workload[r].prompt + decoding[r]]
<1>1. /\ Balanced(kv) /\ DOMAIN f = Running /\ D \subseteq Running /\ D \subseteq RequestId
      /\ \A r \in Running : f[r] = BlocksFor(Tokens(workload, r))
      /\ \A r \in D : decoding[r] \in Nat
  BY DEF SimInv, Placed, Shares, Running
<1>2. IsFiniteSet(Running) /\ IsFiniteSet(D)
  BY <1>1, HoldersFinite, FS_Subset
<1>3. BlockSize \in Nat /\ TotalBlocks \in Nat
  BY KvAssumption
<1>4. \A r \in Running : f[r] \in Nat
  BY <1>1 DEF Balanced
<1>5. ASSUME NEW r \in D
      PROVE  f[r] \in Nat /\ g[r] \in Nat /\ g[r] <= f[r] * BlockSize
  <2>1. /\ workload[r].prompt \in Nat /\ workload[r].output \in Nat
        /\ decoding[r] \in Nat /\ decoding[r] <= workload[r].output
    BY <1>1, WorkloadsTyped DEF SimInv, DecodeLengths
  <2>2. g[r] \in Nat /\ g[r] <= Tokens(workload, r) /\ Tokens(workload, r) \in Nat
    BY <2>1 DEF Tokens
  <2>3. f[r] \in Nat /\ Tokens(workload, r) <= f[r] * BlockSize
    BY <1>1, <2>2, BlocksForHolds
  <2>4. f[r] * BlockSize \in Nat
    BY <1>3, <2>3
  <2> HIDE DEF f, g
  <2> QED
    BY <2>2, <2>3, <2>4
<1>6. Total(Running, f) <= TotalBlocks
  <2>1. Total(Running, f) \in Nat
    BY <1>2, <1>4, TotalType
  <2> QED
    BY <1>1, <1>3, <2>1 DEF Balanced
<1> HIDE DEF D, f, g
<1>7. Total(D, g) <= Total(D, f) * BlockSize
  BY <1>2, <1>3, <1>5, TotalScaled
<1>8. Total(D, f) <= Total(Running, f)
  BY <1>1, <1>2, <1>4, TotalWithin
<1>9. Total(D, f) \in Nat /\ Total(Running, f) \in Nat /\ Total(D, g) \in Nat
  BY <1>2, <1>4, <1>5, TotalType
<1>10. Total(D, f) <= TotalBlocks
  BY <1>3, <1>6, <1>8, <1>9
<1>11. Total(D, f) * BlockSize <= TotalBlocks * BlockSize
  BY <1>3, <1>9, <1>10, ProductGrows
<1>12. Total(D, f) * BlockSize \in Nat /\ TotalBlocks * BlockSize \in Nat
  BY <1>3, <1>9
<1>13. Total(D, g) <= TotalBlocks * BlockSize
  BY <1>7, <1>9, <1>11, <1>12
<1> QED
  BY <1>13 DEF KvLengthsFit, D, g

\* The KV lengths of a decode batch never come to more than the pool has room
\* for (handle_batch_decode_step), whoever joined, finished or was preempted.
THEOREM SimKvLengthsFit == Spec => []KvLengthsFit
BY SimInvInit, SimInvNext, LengthsInit, LengthsNext, LengthsFit, PTL DEF Spec

-----------------------------------------------------------------------------
(* The token budget *)

\* What the continuous scheduler charges for the requests of R.
Charge(R) == Total(R, [r \in R |-> Tokens(workload, r)])

\* A charge is a number, a smaller batch is charged less, and one more request
\* adds at most its own tokens.
LEMMA ChargeType ==
  ASSUME workload \in Workload, NEW R, R \subseteq RequestId
  PROVE  /\ IsFiniteSet(R) /\ Charge(R) \in Nat
         /\ \A Q \in SUBSET R : Charge(Q) <= Charge(R)
         /\ \A r \in RequestId : Charge(R \cup {r}) <= Charge(R) + Tokens(workload, r)
<1> DEFINE f == [r \in RequestId |-> Tokens(workload, r)]
<1>1. \A r \in RequestId : f[r] \in Nat /\ f[r] = Tokens(workload, r)
  BY TokensType
<1>2. \A Q \in SUBSET RequestId : IsFiniteSet(Q)
  BY KvAssumption, FS_Subset
<1>3. ASSUME NEW Q \in SUBSET RequestId PROVE Charge(Q) = Total(Q, f)
  <2> DEFINE g == [r \in Q |-> Tokens(workload, r)]
  <2>1. \A r \in Q : g[r] = f[r]
    OBVIOUS
  <2> HIDE DEF f, g
  <2>2. Total(Q, g) = Total(Q, f)
    BY <2>1, TotalSame
  <2> QED
    BY <2>2 DEF Charge, g
<1> HIDE DEF f
<1>4. \A Q \in SUBSET RequestId : Charge(Q) \in Nat
  BY <1>1, <1>2, <1>3, TotalType
<1>5. ASSUME NEW Q \in SUBSET R PROVE Charge(Q) <= Charge(R)
  <2>1. Total(Q, f) <= Total(R, f)
    BY <1>1, <1>2, TotalWithin
  <2> QED
    BY <1>3, <2>1
<1>6. ASSUME NEW r \in RequestId
      PROVE  Charge(R \cup {r}) <= Charge(R) + Tokens(workload, r)
  <2>1. CASE r \in R
    <3>1. R \cup {r} = R
      BY <2>1
    <3> QED
      BY <1>1, <1>4, <3>1
  <2>2. CASE r \notin R
    <3> DEFINE Q == R \cup {r}
    <3>1. Q \in SUBSET RequestId /\ r \in Q /\ Q \ {r} = R /\ IsFiniteSet(Q)
      BY <1>2, <2>2
    <3>2. Total(Q, f) = Total(Q \ {r}, f) + f[r]
      BY <1>1, <3>1, TotalRemove
    <3>3. Charge(Q) = Charge(R) + Tokens(workload, r)
      BY <1>1, <1>3, <3>1, <3>2
    <3> QED
      BY <1>1, <1>4, <3>1, <3>3
  <2> QED
    BY <2>1, <2>2
<1> QED
  BY <1>2, <1>4, <1>5, <1>6

\* A newcomer adds exactly its own tokens.
LEMMA ChargeAdds ==
  ASSUME workload \in Workload, NEW R, R \subseteq RequestId,
         NEW r \in RequestId, r \notin R
  PROVE  Charge(R \cup {r}) = Charge(R) + Tokens(workload, r)
<1> DEFINE Q == R \cup {r}
           f == [q \in Q |-> Tokens(workload, q)]
           g == [q \in R |-> Tokens(workload, q)]
<1>1. \A q \in Q : f[q] \in Nat /\ f[q] = Tokens(workload, q)
  BY TokensType
<1>2. IsFiniteSet(Q) /\ r \in Q /\ Q \ {r} = R
  BY KvAssumption, FS_Subset
<1>3. \A q \in R : f[q] = g[q]
  OBVIOUS
<1>4. Charge(Q) = Total(Q, f) /\ Charge(R) = Total(R, g)
  BY DEF Charge
<1> HIDE DEF Q, f, g
<1>5. Total(Q, f) = Total(R, f) + f[r]
  BY <1>1, <1>2, TotalRemove
<1>6. Total(R, f) = Total(R, g)
  BY <1>3, TotalSame
<1> QED
  BY <1>1, <1>2, <1>4, <1>5, <1>6 DEF Q

\* The continuous scheduler's budget, request by request.
LEMMA ContinuousBudgetTurns ==
  ASSUME waiting \in Seq(RequestId)
  PROVE  LET b == ContinuousBudget(workload, waiting, Running, kv.free_blocks)
         IN  /\ b[0] = [tokens |-> SatSub(MaxBatchTokens, Charge(Running)),
                        blocks |-> kv.free_blocks]
             /\ \A i \in 1 .. Len(waiting) :
                  b[i] = IF ContinuousFits(workload, waiting[i], b[i - 1])
                         THEN [b[i - 1] EXCEPT
                                 !.tokens = @ - Tokens(workload, waiting[i]),
                                 !.blocks = @ - BlocksFor(Tokens(workload, waiting[i]))]
                         ELSE b[i - 1]
<1> DEFINE in_flight == Total(Running, [r \in Running |-> Tokens(workload, r)])
           Base == [tokens |-> SatSub(MaxBatchTokens, in_flight),
                    blocks |-> kv.free_blocks]
           Turn(l, r) == IF ContinuousFits(workload, r, l)
                         THEN [l EXCEPT !.tokens = @ - Tokens(workload, r),
                                        !.blocks = @ - BlocksFor(Tokens(workload, r))]
                         ELSE l
<1> HIDE DEF Base, Turn
<1> DEFINE P == {m \in Nat : \E f :
                   f = [i \in 0 .. m |-> IF i = 0 THEN Base ELSE Turn(f[i - 1], waiting[i])]}
<1>1. Len(waiting) \in Nat
  BY LenProperties
<1>2. 0 \in P
  <2> DEFINE f == [i \in 0 .. 0 |-> Base]
  <2>1. f = [i \in 0 .. 0 |-> IF i = 0 THEN Base ELSE Turn(f[i - 1], waiting[i])]
    OBVIOUS
  <2> QED
    BY <2>1
<1>3. ASSUME NEW m \in Nat, m \in P PROVE m + 1 \in P
  <2>1. PICK f : f = [i \in 0 .. m |-> IF i = 0 THEN Base ELSE Turn(f[i - 1], waiting[i])]
    BY <1>3
  <2> DEFINE g == [i \in 0 .. m + 1 |->
                     IF i = m + 1 THEN Turn(f[m], waiting[i]) ELSE f[i]]
             h == [i \in 0 .. m + 1 |->
                     IF i = 0 THEN Base ELSE Turn(g[i - 1], waiting[i])]
  <2>2. \A i \in 0 .. m : f[i] = IF i = 0 THEN Base ELSE Turn(f[i - 1], waiting[i])
    BY <2>1
  <2>3. \A i \in 0 .. m : g[i] = f[i]
    OBVIOUS
  <2>4. ASSUME NEW i \in 0 .. m + 1 PROVE g[i] = h[i]
    <3>1. CASE i = 0
      BY <2>2, <2>3, <3>1
    <3>2. CASE i \in 1 .. m
      <4>1. i - 1 \in 0 .. m /\ i \in 0 .. m /\ i # 0
        BY <3>2
      <4> QED
        BY <2>2, <2>3, <4>1
    <3>3. CASE i = m + 1
      <4>1. i - 1 = m /\ m \in 0 .. m /\ i # 0
        BY <3>3
      <4> QED
        BY <2>3, <3>3, <4>1
    <3> QED
      BY <3>1, <3>2, <3>3
  <2>5. g = h
    BY <2>4
  <2>6. m + 1 \in Nat
    OBVIOUS
  <2> HIDE DEF g
  <2> QED
    BY <2>5, <2>6, Zenon
<1>4. Len(waiting) \in P
  <2> HIDE DEF P
  <2> QED
    BY <1>1, <1>2, <1>3, SetInduction
<1> DEFINE
  budget[i \in 0 .. Len(waiting)] ==
    IF i = 0
    THEN [tokens |-> SatSub(MaxBatchTokens, in_flight),
          blocks |-> kv.free_blocks]
    ELSE LET r == waiting[i]
         IN  IF ContinuousFits(workload, r, budget[i - 1])
             THEN [budget[i - 1] EXCEPT !.tokens = @ - Tokens(workload, r),
                                        !.blocks = @ - BlocksFor(Tokens(workload, r))]
             ELSE budget[i - 1]
<1>5. \E f : f = [i \in 0 .. Len(waiting) |->
                   IF i = 0 THEN Base ELSE Turn(f[i - 1], waiting[i])]
  BY <1>4
<1>6. budget = [i \in 0 .. Len(waiting) |->
                 IF i = 0 THEN Base ELSE Turn(budget[i - 1], waiting[i])]
  BY <1>5, Zenon DEF Base, Turn
<1>7. ContinuousBudget(workload, waiting, Running, kv.free_blocks) = budget
  BY Zenon DEF ContinuousBudget
<1> HIDE DEF budget
<1>8. /\ budget[0] = Base
      /\ \A i \in 1 .. Len(waiting) : budget[i] = Turn(budget[i - 1], waiting[i])
  BY <1>1, <1>6
<1>9. in_flight = Charge(Running)
  BY DEF Charge
<1> HIDE DEF in_flight
<1>10. Base = [tokens |-> SatSub(MaxBatchTokens, Charge(Running)),
               blocks |-> kv.free_blocks]
  BY <1>9 DEF Base
<1> QED
  BY <1>7, <1>8, <1>10 DEF Turn

\* The loop admits no more than the decision has taken out of the budget,
\* whomever it then refuses for want of blocks.
LEMMA AdmitWithinBudget ==
  ASSUME SimInv, config.scheduler = "continuous", Charge(Running) <= MaxBatchTokens
  PROVE  LET t == AdmitAll(Admitted)
         IN  /\ t.prefilling \subseteq RequestId
             /\ Charge(t.prefilling \cup transferring \cup DOMAIN decoding)
                  <= MaxBatchTokens
<1> DEFINE n == Len(waiting)
           b == ContinuousBudget(workload, waiting, Running, kv.free_blocks)
           others == transferring \cup DOMAIN decoding
<1>1. /\ n \in Nat /\ DOMAIN waiting = 1 .. n /\ \A i \in 1 .. n : waiting[i] \in RequestId
      /\ waiting \in Seq(RequestId) /\ workload \in Workload
      /\ prefilling \subseteq RequestId /\ others \subseteq RequestId
      /\ Running = prefilling \cup others
  <2>1. Line(waiting) /\ workload \in Workload
    BY WorkloadsTyped DEF SimInv, Placed
  <2> QED
    BY <2>1, LineShape DEF SimInv, Placed, Running, Line
<1>2. /\ MaxBatchTokens \in Nat /\ Running \subseteq RequestId
      /\ Charge(Running) \in Nat
  BY <1>1, ChargeType, SimulatorAssumption
<1>3. \A i \in 1 .. n :
        b[i] = IF ContinuousFits(workload, waiting[i], b[i - 1])
               THEN [b[i - 1] EXCEPT
                       !.tokens = @ - Tokens(workload, waiting[i]),
                       !.blocks = @ - BlocksFor(Tokens(workload, waiting[i]))]
               ELSE b[i - 1]
  BY <1>1, ContinuousBudgetTurns
<1>4. b[0] = [tokens |-> SatSub(MaxBatchTokens, Charge(Running)),
               blocks |-> kv.free_blocks]
  BY <1>1, ContinuousBudgetTurns
<1>5. /\ DOMAIN Admitted \subseteq DOMAIN waiting
      /\ \A i \in 1 .. n : i \in DOMAIN Admitted <=>
                           ContinuousFits(workload, waiting[i], b[i - 1])
  <2>1. DOMAIN Admitted =
          ContinuousAdmit(workload, waiting, Running, kv.free_blocks)
    BY DEF Admitted
  <2> QED
    BY <1>1, <2>1 DEF ContinuousAdmit
<1>6. PICK s : /\ s[0] = LoopStart
               /\ \A i \in 1 .. n :
                    s[i] = IF i \in DOMAIN Admitted
                           THEN AdmitRequest(s[i - 1], waiting[i], Admitted[i])
                           ELSE s[i - 1]
               /\ AdmitAll(Admitted) = s[n]
  BY <1>1, LoopTurns
<1> HIDE DEF n, b, others
<1> DEFINE Keeps(t, l) ==
             /\ DOMAIN t = LoopParts /\ t.prefilling \subseteq RequestId
             /\ DOMAIN l = {"tokens", "blocks"} /\ l.tokens \in Nat
             /\ Charge(t.prefilling \cup others) + l.tokens <= MaxBatchTokens
           P == {i \in Nat : i <= n => Keeps(s[i], b[i])}
<1>7. 0 \in P
  <2>1. DOMAIN s[0] = LoopParts /\ s[0].prefilling = prefilling
    BY <1>6 DEF LoopStart, LoopParts
  <2>2. b[0].tokens \in Nat /\ Charge(Running) + b[0].tokens <= MaxBatchTokens
    <3> DEFINE c == Charge(Running)
    <3>1. c \in Nat /\ MaxBatchTokens \in Nat /\ c <= MaxBatchTokens
      BY <1>2
    <3>2. b[0].tokens = SatSub(MaxBatchTokens, c)
      BY <1>4
    <3> HIDE DEF c
    <3>3. SatSub(MaxBatchTokens, c) \in Nat /\ c + SatSub(MaxBatchTokens, c) <= MaxBatchTokens
      BY <3>1 DEF SatSub
    <3> QED
      BY <3>2, <3>3 DEF c
  <2>3. DOMAIN b[0] = {"tokens", "blocks"}
    BY <1>4
  <2> QED
    BY <1>1, <2>1, <2>2, <2>3
<1>8. ASSUME NEW m \in Nat, m \in P PROVE m + 1 \in P
  <2> SUFFICES ASSUME m + 1 <= n PROVE Keeps(s[m + 1], b[m + 1])
    OBVIOUS
  <2>1. m + 1 \in 1 .. n /\ (m + 1) - 1 = m /\ Keeps(s[m], b[m])
    BY <1>1, <1>8
  <2> DEFINE r == waiting[m + 1]
             k == Tokens(workload, r)
             t == s[m + 1]
  <2>2. r \in RequestId /\ k \in Nat
    BY <1>1, <2>1, TokensType
  <2>3. CASE m + 1 \notin DOMAIN Admitted
    <3>1. t = s[m] /\ b[m + 1] = b[m]
      BY <1>3, <1>5, <1>6, <2>1, <2>3
    <3> QED
      BY <2>1, <3>1
  <2>4. CASE m + 1 \in DOMAIN Admitted
    <3>1. ContinuousFits(workload, r, b[m])
      BY <1>5, <2>1, <2>4
    <3>2. b[m + 1] = [b[m] EXCEPT !.tokens = @ - k, !.blocks = @ - BlocksFor(k)]
      BY <1>3, <2>1, <3>1
    <3>3. /\ DOMAIN b[m + 1] = {"tokens", "blocks"}
          /\ b[m + 1].tokens = b[m].tokens - k /\ k <= b[m].tokens
      BY <2>1, <3>1, <3>2 DEF ContinuousFits
    <3>4. t = AdmitRequest(s[m], r, Admitted[m + 1])
      BY <1>6, <2>1, <2>4
    <3> HIDE DEF r, t, k
    <3>5. /\ DOMAIN t = LoopParts
          /\ t.prefilling = s[m].prefilling \/ t.prefilling = s[m].prefilling \cup {r}
      BY <2>1, <3>4, AdmitEffect
    <3> DEFINE R == s[m].prefilling \cup others
               Q == t.prefilling \cup others
    <3>6. R \subseteq RequestId /\ Q \subseteq RequestId /\ t.prefilling \subseteq RequestId
          /\ (Q = R \/ Q = R \cup {r})
      BY <1>1, <2>1, <2>2, <3>5
    <3>7. Charge(R) \in Nat /\ Charge(Q) \in Nat /\ Charge(Q) <= Charge(R) + k
      <4> HIDE DEF R, Q
      <4>1. Charge(R) \in Nat /\ Charge(Q) \in Nat
            /\ Charge(R \cup {r}) <= Charge(R) + k
        BY <1>1, <2>2, <3>6, ChargeType DEF k
      <4>2. CASE Q = R
        BY <2>2, <4>1, <4>2
      <4>3. CASE Q = R \cup {r}
        BY <4>1, <4>3
      <4> QED
        BY <3>6, <4>1, <4>2, <4>3
    <3>8. Charge(R) + b[m].tokens <= MaxBatchTokens /\ b[m].tokens \in Nat
      BY <2>1
    <3> HIDE DEF R, Q
    <3>9. b[m + 1].tokens \in Nat /\ Charge(Q) + b[m + 1].tokens <= MaxBatchTokens
      BY <1>2, <2>2, <3>3, <3>7, <3>8
    <3> QED
      BY <3>3, <3>5, <3>6, <3>9 DEF Q, t
  <2> QED
    BY <2>3, <2>4
<1>9. n \in P
  <2> HIDE DEF P
  <2> QED
    BY <1>1, <1>7, <1>8, SetInduction
<1>10. Keeps(s[n], b[n])
  BY <1>1, <1>9
<1>11. /\ s[n].prefilling \subseteq RequestId
       /\ Charge(s[n].prefilling \cup others) <= MaxBatchTokens
  <2>1. Charge(s[n].prefilling \cup others) \in Nat
    BY <1>1, <1>10, ChargeType
  <2> QED
    BY <1>2, <1>10, <2>1
<1>12. s[n].prefilling \cup transferring \cup DOMAIN decoding = s[n].prefilling \cup others
  BY DEF others
<1> QED
  BY <1>6, <1>11, <1>12

\* Nothing is in flight when the simulator has been built.
LEMMA BudgetInit == Init => BatchWithinBudget
<1> SUFFICES ASSUME Init PROVE BatchWithinBudget
  OBVIOUS
<1>1. Running = {}
  BY DEF Init, Running, Empty
<1>2. Total(Running, [r \in Running |-> Tokens(workload, r)]) = 0
  BY <1>1, TotalEmpty
<1> QED
  BY <1>2, SimulatorAssumption DEF BatchWithinBudget

\* Only a tick that admits adds to the batch.
LEMMA BudgetNext == SimInv /\ BatchWithinBudget /\ [Next]_vars => BatchWithinBudget'
<1> SUFFICES ASSUME SimInv, BatchWithinBudget, [Next]_vars,
                    config'.scheduler = "continuous"
             PROVE  (Charge(Running) <= MaxBatchTokens)'
  BY DEF BatchWithinBudget, Charge
<1>1. workload' = workload /\ config' = config
  BY DEF Next, Dispatch, Returned, PassesHorizon, vars, HandleArrival, TickPreempts,
         TickAdmits, HandlePrefillStart, PrefillContinues, PrefillEndsCoupled,
         PrefillEndsDisaggregated, HandleKvTransfer, DecodeNothing, DecodeStep, Pops
<1>2. /\ workload \in Workload /\ Running \subseteq RequestId
      /\ MaxBatchTokens \in Nat
  BY WorkloadsTyped, SimulatorAssumption DEF SimInv, Placed, Running
<1>3. Charge(Running) <= MaxBatchTokens
  BY <1>1 DEF BatchWithinBudget, Charge
<1>4. (Charge(Running))' = Charge(Running')
  BY <1>1 DEF Charge
<1>5. CASE TickAdmits
  <2>1. /\ prefilling' = AdmitAll(Admitted).prefilling
        /\ transferring' = transferring /\ decoding' = decoding
    BY <1>5 DEF TickAdmits
  <2>2. Charge(prefilling' \cup transferring \cup DOMAIN decoding) <= MaxBatchTokens
    BY <1>1, <1>3, <2>1, AdmitWithinBudget
  <2>3. Running' = prefilling' \cup transferring \cup DOMAIN decoding
    BY <2>1 DEF Running
  <2> QED
    BY <1>4, <2>2, <2>3
<1>6. ASSUME Running' \subseteq Running
      PROVE  (Charge(Running) <= MaxBatchTokens)'
  <2>1. /\ Charge(Running') <= Charge(Running)
        /\ Charge(Running) \in Nat /\ Charge(Running') \in Nat
    <3>1. Running' \subseteq RequestId
      BY <1>2, <1>6
    <3> QED
      BY <1>2, <1>6, <3>1, ChargeType
  <2> QED
    BY <1>2, <1>3, <1>4, <2>1
<1>7. CASE UNCHANGED <<prefilling, transferring, decoding>>
  BY <1>6, <1>7 DEF Running
<1>8. CASE TickPreempts
  <2>1. prefilling' = prefilling /\ transferring' = transferring
        /\ DOMAIN decoding' \subseteq DOMAIN decoding
    BY <1>8 DEF TickPreempts, Without
  <2> QED
    BY <1>6, <2>1 DEF Running
<1>9. CASE PrefillEndsCoupled
  <2>1. /\ prefilling' = prefilling \ {Event0.req} /\ transferring' = transferring
        /\ decoding' = IF Event0.req \in prefilling
                       THEN With(decoding, Event0.req, 0) ELSE decoding
    BY <1>9 DEF PrefillEndsCoupled
  <2> QED
    BY <1>6, <2>1 DEF Running, With
<1>10. CASE PrefillEndsDisaggregated
  <2>1. /\ decoding' = decoding
        /\ IF Event0.req \in prefilling
           THEN /\ prefilling' = prefilling \ {Event0.req}
                /\ transferring' = transferring \cup {Event0.req}
           ELSE prefilling' = prefilling /\ transferring' = transferring
    BY <1>10 DEF PrefillEndsDisaggregated
  <2> QED
    BY <1>6, <2>1 DEF Running
<1>11. CASE \E latency \in TransferLatencies : HandleKvTransfer(latency)
  <2>1. /\ prefilling' = prefilling /\ transferring' = transferring \ {Event0.req}
        /\ decoding' = IF Event0.req \in transferring
                       THEN With(decoding, Event0.req, 0) ELSE decoding
    BY <1>11 DEF HandleKvTransfer
  <2> QED
    BY <1>6, <2>1 DEF Running, With
<1>12. CASE DecodeStep
  <2>1. /\ prefilling' = prefilling /\ transferring' = transferring
        /\ DOMAIN decoding' \subseteq DOMAIN decoding
    BY <1>12 DEF DecodeStep
  <2> QED
    BY <1>6, <2>1 DEF Running
<1>13. \/ TickAdmits \/ TickPreempts \/ PrefillEndsCoupled
       \/ PrefillEndsDisaggregated \/ DecodeStep
       \/ \E latency \in TransferLatencies : HandleKvTransfer(latency)
       \/ UNCHANGED <<prefilling, transferring, decoding>>
  BY DEF Next, Dispatch, Returned, PassesHorizon, vars, requests, HandleArrival,
         HandlePrefillStart, PrefillContinues, DecodeNothing
<1> QED
  BY <1>5, <1>7, <1>8, <1>9, <1>10, <1>11, <1>12, <1>13

\* --max-batch-tokens: under the continuous scheduler the requests in flight
\* never ask for more tokens than the budget (ContinuousBatchScheduler::schedule).
THEOREM SimBatchWithinBudget == Spec => []BatchWithinBudget
BY SimInvInit, SimInvNext, BudgetInit, BudgetNext, PTL DEF Spec

\* A tick that admits takes out of both budgets what the requests it admits take
\* out of the machine, and leaves in line nobody who fits what is left.
LEMMA RoomTaken ==
  ASSUME SimInv, config.scheduler = "continuous", Pops("SchedulerTick")
  PROVE  LET t == AdmitAll(Admitted)
         IN  \A r \in Ids(t.waiting) :
               \/ Charge(t.prefilling \cup transferring \cup DOMAIN decoding)
                    + Tokens(workload, r) > MaxBatchTokens
               \/ BlocksFor(Tokens(workload, r)) > t.kv.free_blocks
<1> DEFINE n == Len(waiting)
           b == ContinuousBudget(workload, waiting, Running, kv.free_blocks)
           others == transferring \cup DOMAIN decoding
<1>1. /\ n \in Nat /\ DOMAIN waiting = 1 .. n /\ \A i \in 1 .. n : waiting[i] \in RequestId
      /\ Line(waiting) /\ waiting \in Seq(RequestId) /\ workload \in Workload
      /\ prefilling \subseteq RequestId /\ others \subseteq RequestId
      /\ Running = prefilling \cup others /\ InLine = Ids(waiting)
      /\ InLine \cup prefilling \subseteq RequestId
      /\ (InLine \cup prefilling) \cap others = {}
      /\ kv.free_blocks \in Nat
  <2>1. /\ Line(waiting) /\ workload \in Workload /\ InLine = Ids(waiting)
        /\ kv.free_blocks \in Nat
    BY WorkloadsTyped DEF SimInv, Placed, InLine, Ids, Shares, Balanced
  <2> QED
    BY <2>1, LineShape DEF SimInv, Placed, Running, Line
<1>2. /\ MaxBatchTokens \in Nat /\ Charge(Running) \in Nat
  <2>1. Running \subseteq RequestId
    BY <1>1
  <2> QED
    BY <1>1, <2>1, ChargeType, SimulatorAssumption
<1>3. \A i \in 1 .. n :
        b[i] = IF ContinuousFits(workload, waiting[i], b[i - 1])
               THEN [b[i - 1] EXCEPT
                       !.tokens = @ - Tokens(workload, waiting[i]),
                       !.blocks = @ - BlocksFor(Tokens(workload, waiting[i]))]
               ELSE b[i - 1]
  BY <1>1, ContinuousBudgetTurns
<1>4. b[0] = [tokens |-> SatSub(MaxBatchTokens, Charge(Running)),
              blocks |-> kv.free_blocks]
  BY <1>1, ContinuousBudgetTurns
<1>5. /\ \A i \in DOMAIN Admitted : Admitted[i] \in Nat
      /\ \A i \in 1 .. n : i \in DOMAIN Admitted <=>
                           ContinuousFits(workload, waiting[i], b[i - 1])
  <2>1. DOMAIN Admitted =
          ContinuousAdmit(workload, waiting, Running, kv.free_blocks)
    BY DEF Admitted
  <2>2. Running \subseteq RequestId
    BY <1>1
  <2>3. \A i \in DOMAIN Admitted : Admitted[i] \in Nat
    BY <1>1, <2>2, AdmittedType
  <2> QED
    BY <1>1, <2>1, <2>3 DEF ContinuousAdmit
<1>6. PICK s : /\ s[0] = LoopStart
               /\ \A i \in 1 .. n :
                    s[i] = IF i \in DOMAIN Admitted
                           THEN AdmitRequest(s[i - 1], waiting[i], Admitted[i])
                           ELSE s[i - 1]
               /\ AdmitAll(Admitted) = s[n]
  BY <1>1, LoopTurns
<1> DEFINE Fits(q, l) == /\ Tokens(workload, q) <= l.tokens
                         /\ BlocksFor(Tokens(workload, q)) <= l.blocks
           Budget(t, l) ==
             /\ DOMAIN l = {"tokens", "blocks"} /\ l.tokens \in Nat /\ l.blocks \in Nat
             /\ t.kv.free_blocks = l.blocks
             /\ MaxBatchTokens <= Charge(t.prefilling \cup others) + l.tokens
           Keeps(t, l, i) ==
             /\ Admitting(t) /\ Budget(t, l)
             /\ \A j \in i + 1 .. n : waiting[j] \in Ids(t.waiting)
             /\ \A q \in Ids(t.waiting) :
                  (\E j \in i + 1 .. n : q = waiting[j]) \/ ~ Fits(q, l)
           P == {i \in Nat : i <= n => Keeps(s[i], b[i], i)}
<1> HIDE DEF n, b, others
<1>7. 0 \in P
  <2>1. /\ s[0].waiting = waiting /\ s[0].prefilling = prefilling /\ s[0].kv = kv
    BY <1>6 DEF LoopStart
  <2>2. Admitting(s[0])
    BY <1>6, LoopAdmitting
  <2>3. Budget(s[0], b[0])
    <3> DEFINE c == Charge(Running)
               k == SatSub(MaxBatchTokens, c)
    <3>1. k \in Nat /\ MaxBatchTokens <= c + k
      <4>1. c \in Nat /\ MaxBatchTokens \in Nat
        BY <1>2
      <4> HIDE DEF c
      <4> QED
        BY <4>1 DEF SatSub
    <3>2. b[0] = [tokens |-> k, blocks |-> kv.free_blocks]
      BY <1>4
    <3> HIDE DEF k
    <3> QED
      BY <1>1, <2>1, <3>1, <3>2
  <2>4. \A j \in 0 + 1 .. n : waiting[j] \in Ids(s[0].waiting)
    BY <1>1, <2>1 DEF Ids
  <2>5. \A q \in Ids(s[0].waiting) : \E j \in 0 + 1 .. n : q = waiting[j]
    BY <1>1, <2>1 DEF Ids
  <2> QED
    BY <2>2, <2>3, <2>4, <2>5
<1>8. ASSUME NEW m \in Nat, m \in P PROVE m + 1 \in P
  <2> SUFFICES ASSUME m + 1 <= n PROVE Keeps(s[m + 1], b[m + 1], m + 1)
    OBVIOUS
  <2> DEFINE r == waiting[m + 1]
             k == Tokens(workload, r)
             t == s[m]
             u == s[m + 1]
  <2>1. m + 1 \in 1 .. n /\ (m + 1) - 1 = m /\ Keeps(t, b[m], m)
    BY <1>1, <1>8
  <2>2. r \in RequestId /\ k \in Nat /\ BlocksFor(k) \in Nat /\ r \in Ids(t.waiting)
        /\ \A j \in m + 2 .. n : waiting[j] \in Ids(t.waiting) /\ waiting[j] # r
    <3>1. \A j \in m + 2 .. n : j \in m + 1 .. n /\ j # m + 1 /\ j \in DOMAIN waiting
      BY <1>1
    <3>2. m + 1 \in m + 1 .. n /\ m + 1 \in DOMAIN waiting
      BY <1>1, <2>1
    <3> QED
      BY <1>1, <2>1, <3>1, <3>2, TokensType DEF Line
  <2>3. \A j \in m + 1 .. n : j = m + 1 \/ j \in m + 2 .. n
    BY <1>1
  <2>4. CASE m + 1 \notin DOMAIN Admitted
    <3>1. u = t /\ b[m + 1] = b[m] /\ ~ ContinuousFits(workload, r, b[m])
      BY <1>3, <1>5, <1>6, <2>1, <2>4
    <3>2. ~ Fits(r, b[m])
      BY <3>1 DEF ContinuousFits
    <3>3. \A q \in Ids(t.waiting) :
            (\E j \in m + 2 .. n : q = waiting[j]) \/ ~ Fits(q, b[m])
      BY <2>1, <2>3, <3>2
    <3> QED
      BY <2>1, <2>2, <3>1, <3>3
  <2>5. CASE m + 1 \in DOMAIN Admitted
    <3> DEFINE l == b[m]
               h == b[m + 1]
    <3>1. ContinuousFits(workload, r, l)
      BY <1>5, <2>1, <2>5
    <3>2. h = [l EXCEPT !.tokens = @ - k, !.blocks = @ - BlocksFor(k)]
      BY <1>3, <2>1, <3>1
    <3>3. k <= l.tokens /\ BlocksFor(k) <= l.blocks
      BY <3>1 DEF ContinuousFits
    <3>4. /\ DOMAIN h = {"tokens", "blocks"}
          /\ h.tokens = l.tokens - k /\ h.blocks = l.blocks - BlocksFor(k)
          /\ l.tokens \in Nat /\ l.blocks \in Nat
          /\ h.tokens \in Nat /\ h.blocks \in Nat
      BY <2>1, <2>2, <3>2, <3>3
    <3>5. u = AdmitRequest(t, r, Admitted[m + 1]) /\ Admitted[m + 1] \in Nat
      BY <1>5, <1>6, <2>1, <2>5
    <3>6. u = Accept(t, r, Admitted[m + 1])
      BY <2>1, <3>3, <3>5 DEF AdmitRequest, CanFit
    <3>7. Admitting(u)
      <4> DEFINE c == Admitted[m + 1]
      <4>1. /\ workload \in Workload /\ InLine \cup prefilling \subseteq RequestId
            /\ (InLine \cup prefilling) \cap (transferring \cup DOMAIN decoding) = {}
        BY <1>1 DEF others
      <4>2. Admitting(t) /\ r \in Ids(t.waiting) /\ c \in Nat
        BY <2>1, <2>2, <3>5
      <4>3. u = AdmitRequest(t, r, c)
        BY <3>5
      <4> HIDE DEF r, t, u, c
      <4> QED
        BY <4>1, <4>2, <4>3, AdmitOne
    <3>8. /\ u.waiting = Leave(t.waiting, r) /\ u.prefilling = t.prefilling \cup {r}
          /\ u.kv = Take(t.kv, r, BlocksFor(k))
      <4>1. DOMAIN t = LoopParts
        BY <2>1 DEF Admitting, LoopParts
      <4>2. u.kv = Allocate(t.kv, r, k)
        BY <3>6, <4>1 DEF Accept, LoopParts
      <4>3. CanFit(t.kv, k)
        BY <2>1, <3>3 DEF CanFit
      <4> QED
        BY <3>6, <4>1, <4>2, <4>3 DEF Accept, LoopParts, Allocate
    <3>9. Ids(u.waiting) = Ids(t.waiting) \ {r}
      BY <2>1, <2>2, <3>8, LeaveLine DEF Admitting
    <3>10. u.kv.free_blocks = h.blocks
      BY <2>1, <3>4, <3>8 DEF Take
    <3>11. MaxBatchTokens <= Charge(u.prefilling \cup others) + h.tokens
      <4> DEFINE R == t.prefilling \cup others
      <4>1. /\ R \subseteq RequestId /\ r \notin R
            /\ u.prefilling \cup others = R \cup {r}
        BY <1>1, <2>1, <2>2, <3>8 DEF Admitting
      <4> HIDE DEF R
      <4>2. Charge(R \cup {r}) = Charge(R) + k /\ Charge(R) \in Nat
        BY <1>1, <2>2, <4>1, ChargeAdds, ChargeType
      <4>3. MaxBatchTokens <= Charge(R) + l.tokens
        BY <2>1 DEF R
      <4>4. MaxBatchTokens <= (Charge(R) + k) + h.tokens
        BY <1>2, <2>2, <3>4, <4>2, <4>3
      <4> QED
        BY <4>1, <4>2, <4>4
    <3>12. ASSUME NEW q \in Ids(u.waiting)
           PROVE  (\E j \in m + 2 .. n : q = waiting[j]) \/ ~ Fits(q, h)
      <4>1. q \in Ids(t.waiting) /\ q # r /\ q \in RequestId
        BY <1>1, <2>1, <3>9 DEF Admitting
      <4>2. Tokens(workload, q) \in Nat /\ BlocksFor(Tokens(workload, q)) \in Nat
        BY <1>1, <4>1, TokensType
      <4>3. (\E j \in m + 2 .. n : q = waiting[j]) \/ ~ Fits(q, l)
        BY <2>1, <2>3, <4>1
      <4> HIDE DEF l, h
      <4>4. ~ Fits(q, l) => ~ Fits(q, h)
        BY <2>2, <3>4, <4>2
      <4> QED
        BY <4>3, <4>4
    <3>13. \A j \in m + 2 .. n : waiting[j] \in Ids(u.waiting)
      BY <2>2, <3>9
    <3>14. Budget(u, h)
      BY <3>4, <3>10, <3>11
    <3> QED
      BY <3>7, <3>12, <3>13, <3>14
  <2> QED
    BY <2>4, <2>5
<1>9. n \in P
  <2> HIDE DEF P
  <2> QED
    BY <1>1, <1>7, <1>8, SetInduction
<1>10. Keeps(s[n], b[n], n)
  BY <1>1, <1>9
<1> SUFFICES ASSUME NEW r \in Ids(s[n].waiting)
             PROVE  \/ Charge(s[n].prefilling \cup others) + Tokens(workload, r)
                         > MaxBatchTokens
                    \/ BlocksFor(Tokens(workload, r)) > s[n].kv.free_blocks
  <2>1. s[n].prefilling \cup transferring \cup DOMAIN decoding = s[n].prefilling \cup others
    BY DEF others
  <2> QED
    BY <1>6, <2>1
<1>11. ~ Fits(r, b[n]) /\ Budget(s[n], b[n])
  <2>1. \A j \in n + 1 .. n : FALSE
    BY <1>1
  <2> QED
    BY <1>10, <2>1
<1>12. /\ Tokens(workload, r) \in Nat /\ BlocksFor(Tokens(workload, r)) \in Nat
       /\ Charge(s[n].prefilling \cup others) \in Nat
  <2>1. r \in RequestId /\ s[n].prefilling \cup others \subseteq RequestId
    BY <1>1, <1>10 DEF Admitting
  <2> QED
    BY <1>1, <2>1, TokensType, ChargeType
<1> QED
  BY <1>2, <1>11, <1>12

\* A continuous tick that preempts nobody leaves nobody in line for whom there
\* is room in both budgets (ContinuousBatchScheduler::schedule, admit_request).
THEOREM SimTickLeavesNoRoom == Spec => TickLeavesNoRoom
<1>1. ASSUME SimInv, TickAdmits, config.scheduler = "continuous"
      PROVE  LET used == Total(Running', [r \in Running' |-> Tokens(workload, r)])
             IN  \A i \in DOMAIN waiting' :
                   \/ used + Tokens(workload, waiting'[i]) > MaxBatchTokens
                   \/ BlocksFor(Tokens(workload, waiting'[i])) > kv'.free_blocks
  <2>1. /\ Pops("SchedulerTick") /\ UNCHANGED <<transferring, decoding>>
        /\ prefilling' = AdmitAll(Admitted).prefilling
        /\ waiting' = AdmitAll(Admitted).waiting
        /\ kv' = AdmitAll(Admitted).kv
    BY <1>1 DEF TickAdmits
  <2>2. Running' = prefilling' \cup transferring \cup DOMAIN decoding
    BY <2>1 DEF Running
  <2>3. \A r \in Ids(waiting') :
          \/ Charge(Running') + Tokens(workload, r) > MaxBatchTokens
          \/ BlocksFor(Tokens(workload, r)) > kv'.free_blocks
    BY <1>1, <2>1, <2>2, RoomTaken
  <2> QED
    BY <2>3 DEF Charge, Ids
<1> QED
  BY <1>1, SimulatorInvariant, PTL DEF TickLeavesNoRoom

-----------------------------------------------------------------------------
(* Nobody is forgotten *)

Ticks == {<<"SchedulerTick", NoRequest>>}

\* Somebody is in line whom the scheduler promises to serve.
Hopeful ==
  /\ config.scheduler = "chunked" => \A r \in RequestId : Feasible(r)
  /\ \E r \in InLine : Feasible(r)

\* There is a tick to come for them, or somebody in flight who will bring one.
Awake == ~ ended /\ Hopeful => Running # {} \/ Count(queue, Ticks) > 0

\* A tick pushed is pending.
LEMMA TickPushed ==
  ASSUME NEW q \in Seq(SimEvents), NEW t \in Nat
  PROVE  Count(Push(q, Tick(t)), Ticks) > 0
<1>1. Tick(t) \in SimEvents /\ Matches(Tick(t), Ticks)
  BY DEF Tick, Event, SimEvents, Events, Anyone, Kinds, Matches, Ticks
<1>2. Count(Push(q, Tick(t)), Ticks) = Count(q, Ticks) + 1 /\ Count(q, Ticks) \in Nat
  BY <1>1, PushCount, CountPositive
<1> QED
  BY <1>2

\* A machine that stands idle has its whole pool free.
LEMMA IdlePool ==
  ASSUME Placed, Running = {}
  PROVE  kv.free_blocks = TotalBlocks
<1>1. Balanced(kv) /\ DOMAIN kv.allocated = {}
  BY DEF Placed, Shares
<1>2. kv.free_blocks + Total({}, kv.allocated) = TotalBlocks /\ kv.free_blocks \in Nat
  BY <1>1 DEF Balanced
<1> QED
  BY <1>2, TotalEmpty

\* The loop over the admissions takes nobody out of prefill.
LEMMA LoopGrows ==
  ASSUME NEW admit, NEW n \in Nat, NEW s, s[0] = LoopStart,
         \A i \in 1 .. n : s[i] = IF i \in DOMAIN admit
                                  THEN AdmitRequest(s[i - 1], waiting[i], admit[i])
                                  ELSE s[i - 1],
         NEW j \in 0 .. n
  PROVE  DOMAIN s[j] = LoopParts /\ s[j].prefilling \subseteq s[n].prefilling
<1>1. DOMAIN s[0] = LoopParts
  BY DEF LoopStart, LoopParts
<1>2. ASSUME NEW m \in Nat, m + 1 <= n, DOMAIN s[m] = LoopParts
      PROVE  DOMAIN s[m + 1] = LoopParts /\ s[m].prefilling \subseteq s[m + 1].prefilling
  <2>1. m + 1 \in 1 .. n /\ (m + 1) - 1 = m
    BY <1>2
  <2>2. \/ s[m + 1] = AdmitRequest(s[m], waiting[m + 1], admit[m + 1])
        \/ s[m + 1] = s[m]
    BY <2>1
  <2> QED
    BY <1>2, <2>2, AdmitEffect
<1> DEFINE P == {i \in Nat : i <= n =>
                   /\ DOMAIN s[i] = LoopParts
                   /\ j <= i => DOMAIN s[j] = LoopParts
                                /\ s[j].prefilling \subseteq s[i].prefilling}
<1>3. 0 \in P
  BY <1>1
<1>4. ASSUME NEW m \in Nat, m \in P PROVE m + 1 \in P
  <2> SUFFICES ASSUME m + 1 <= n
               PROVE  /\ DOMAIN s[m + 1] = LoopParts
                      /\ j <= m + 1 => DOMAIN s[j] = LoopParts
                                       /\ s[j].prefilling \subseteq s[m + 1].prefilling
    OBVIOUS
  <2>1. /\ DOMAIN s[m] = LoopParts
        /\ j <= m => DOMAIN s[j] = LoopParts /\ s[j].prefilling \subseteq s[m].prefilling
    BY <1>4
  <2>2. DOMAIN s[m + 1] = LoopParts /\ s[m].prefilling \subseteq s[m + 1].prefilling
    BY <1>2, <2>1
  <2>3. j <= m + 1 => j <= m \/ j = m + 1
    OBVIOUS
  <2> QED
    BY <2>1, <2>2, <2>3
<1>5. n \in P
  <2> HIDE DEF P
  <2> QED
    BY <1>3, <1>4, SetInduction
<1> QED
  BY <1>5

\* The chunked scheduler, on an idle machine, admits the first in line if
\* everybody fits, and it is not refused.
LEMMA FirstAdmitted ==
  ASSUME SimInv, Pops("SchedulerTick"), config.scheduler = "chunked", Running = {},
         waiting # <<>>, \A r \in RequestId : Feasible(r)
  PROVE  AdmitAll(Admitted).prefilling # {}
<1> DEFINE n == Len(waiting)
           r == waiting[1]
           b == ChunkedBudget(workload, waiting, Running, kv.free_blocks)
<1>1. /\ n \in Nat /\ DOMAIN waiting = 1 .. n /\ waiting \in Seq(RequestId)
      /\ 1 \in 1 .. n /\ r \in RequestId
  <2>1. Line(waiting)
    BY DEF SimInv, Placed
  <2>2. n \in Nat /\ n # 0
    BY <2>1, LineShape, EmptySeq DEF Line
  <2> QED
    BY <2>1, <2>2, LineShape DEF Line
<1>2. kv.free_blocks = TotalBlocks /\ TotalBlocks \in Nat /\ workload \in Workload
  BY IdlePool, WorkloadsTyped, KvAssumption DEF SimInv
<1>3. /\ Tokens(workload, r) \in Nat /\ workload[r].prompt \in Nat
      /\ workload[r].prompt <= Tokens(workload, r)
      /\ BlocksFor(Tokens(workload, r)) \in Nat /\ BlocksFor(workload[r].prompt) \in Nat
      /\ BlocksFor(workload[r].prompt) <= BlocksFor(Tokens(workload, r))
  <2>1. workload[r].prompt \in Nat /\ workload[r].output \in Nat
    BY <1>1, WorkloadsTyped DEF SimInv
  <2>2. Tokens(workload, r) \in Nat /\ workload[r].prompt <= Tokens(workload, r)
    BY <2>1 DEF Tokens
  <2> QED
    BY <2>1, <2>2, BlocksForHolds, BlocksForGrow
<1>4. BlocksFor(Tokens(workload, r)) <= TotalBlocks /\ MaxBatchTokens > 0
  BY <1>1 DEF Feasible
<1>5. b[0] = [tokens |-> MaxBatchTokens, blocks |-> TotalBlocks]
  <2>1. b[0] = [tokens |-> SatSub(MaxBatchTokens, Cardinality(Running)),
                blocks |-> kv.free_blocks]
    BY <1>1, <1>2, FS_EmptySet, ChunkedBudgetType
  <2>2. SatSub(MaxBatchTokens, Cardinality(Running)) = MaxBatchTokens
    BY <1>4, FS_EmptySet, SimulatorAssumption DEF SatSub
  <2> QED
    BY <1>2, <2>1, <2>2
<1>6. ChunkedFits(workload, r, b[0])
  BY <1>2, <1>3, <1>4, <1>5 DEF ChunkedFits
<1>7. 1 \in DOMAIN Admitted
  <2>1. DOMAIN ChunkedAdmit(workload, waiting, Running, kv.free_blocks) =
          {i \in DOMAIN waiting : ChunkedFits(workload, waiting[i], b[i - 1])}
    BY DEF ChunkedAdmit
  <2> QED
    BY <1>1, <1>6, <2>1 DEF Admitted
<1>8. PICK s : /\ s[0] = LoopStart
               /\ \A i \in 1 .. n :
                    s[i] = IF i \in DOMAIN Admitted
                           THEN AdmitRequest(s[i - 1], waiting[i], Admitted[i])
                           ELSE s[i - 1]
               /\ AdmitAll(Admitted) = s[n]
  BY <1>1, LoopTurns
<1>9. DOMAIN LoopStart = LoopParts /\ LoopStart.kv = kv
  BY DEF LoopStart, LoopParts
<1>10. DOMAIN s[1] = LoopParts /\ r \in s[1].prefilling
  <2>1. s[1] = AdmitRequest(LoopStart, r, Admitted[1])
    BY <1>1, <1>7, <1>8
  <2>2. CanFit(LoopStart.kv, Tokens(workload, r))
    BY <1>2, <1>3, <1>4, <1>9 DEF CanFit
  <2> QED
    BY <1>9, <2>1, <2>2 DEF AdmitRequest, Accept, LoopParts
<1> HIDE DEF r, b, n
<1>11. s[1].prefilling \subseteq s[n].prefilling
  <2>1. /\ n \in Nat /\ 1 \in 0 .. n /\ s[0] = LoopStart
        /\ \A i \in 1 .. n : s[i] = IF i \in DOMAIN Admitted
                                    THEN AdmitRequest(s[i - 1], waiting[i], Admitted[i])
                                    ELSE s[i - 1]
    BY <1>1, <1>8
  <2> QED
    BY <2>1, LoopGrows
<1> QED
  BY <1>8, <1>10, <1>11

\* Nobody waits when the simulator has been built ...
LEMMA AwakeInit == Init => Awake
BY DEF Init, Awake, Hopeful, InLine

\* ... and no handler forgets those who do: who leaves the machine idle pushes a
\* tick, and a tick that finds it idle admits somebody.
LEMMA AwakeNext == SimInv /\ Awake /\ [Next]_vars => Awake'
<1> SUFFICES ASSUME SimInv, Awake, [Next]_vars, ~ ended', Hopeful'
             PROVE  (Running # {})' \/ Count(queue', Ticks) > 0
  BY DEF Awake
<1>1. Placed
  BY DEF SimInv
<1>2. workload' = workload /\ config' = config /\ (Hopeful' /\ InLine' = InLine => Hopeful)
  <2>1. workload' = workload /\ config' = config
    BY DEF Next, Dispatch, Returned, PassesHorizon, vars, HandleArrival, TickPreempts,
           TickAdmits, HandlePrefillStart, PrefillContinues, PrefillEndsCoupled,
           PrefillEndsDisaggregated, HandleKvTransfer, DecodeNothing, DecodeStep, Pops
  <2>2. \A r \in RequestId : Feasible(r)' <=> Feasible(r)
    BY <2>1 DEF Feasible
  <2>3. InLine \subseteq RequestId
    BY <1>1, LineShape DEF Placed, InLine
  <2> QED
    BY <2>1, <2>2, <2>3 DEF Hopeful
<1>3. CASE HandleArrival
  <2>1. Pops("RequestArrival") /\ queue' = Push(Rest, Tick(0))
    BY <1>3 DEF HandleArrival
  <2> QED
    BY <2>1, Popped, TickPushed DEF Ledger
<1>4. CASE TickPreempts
  <2>1. Pops("SchedulerTick") /\ queue' = Push(Rest, Tick(0))
    BY <1>4 DEF TickPreempts
  <2> QED
    BY <2>1, Popped, TickPushed DEF Ledger
<1>5. CASE TickAdmits
  <2>1. /\ Pops("SchedulerTick") /\ UNCHANGED <<transferring, decoding>>
        /\ prefilling' = AdmitAll(Admitted).prefilling
        /\ waiting' = AdmitAll(Admitted).waiting
        /\ kv' = AdmitAll(Admitted).kv
    BY <1>5 DEF TickAdmits
  <2>2. SUFFICES ASSUME Running' = {} PROVE FALSE
    OBVIOUS
  <2>3. Running' = prefilling' \cup transferring \cup DOMAIN decoding
    BY <2>1 DEF Running
  <2>4. Placed'
    BY <1>5, AdmissionKeeps DEF SimInv
  <2>5. PICK r \in InLine' : Feasible(r)'
    BY DEF Hopeful
  <2>6. r \in Ids(AdmitAll(Admitted).waiting) /\ r \in RequestId /\ Feasible(r)
    <3>1. InLine' = Ids(waiting') /\ Line(waiting')
      BY <2>4 DEF InLine, Ids, Placed
    <3>2. Ids(waiting') \subseteq RequestId
      BY <3>1, LineShape
    <3> QED
      BY <1>2, <2>1, <2>5, <3>1, <3>2 DEF Feasible
  <2>7. CASE config.scheduler = "continuous"
    <3>1. \/ Charge({}) + Tokens(workload, r) > MaxBatchTokens
          \/ BlocksFor(Tokens(workload, r)) > kv'.free_blocks
      BY <2>1, <2>2, <2>3, <2>6, <2>7, RoomTaken
    <3>2. kv'.free_blocks = TotalBlocks
      <4>1. Balanced(kv') /\ DOMAIN kv'.allocated = {}
        BY <2>2, <2>4 DEF Placed, Shares
      <4>2. kv'.free_blocks + Total({}, kv'.allocated) = TotalBlocks
            /\ kv'.free_blocks \in Nat
        BY <4>1 DEF Balanced
      <4> QED
        BY <4>2, TotalEmpty
    <3>3. Charge({}) = 0
      BY TotalEmpty DEF Charge
    <3>4. /\ Tokens(workload, r) \in Nat /\ BlocksFor(Tokens(workload, r)) \in Nat
          /\ Tokens(workload, r) <= MaxBatchTokens
          /\ BlocksFor(Tokens(workload, r)) <= TotalBlocks
      BY <2>6, <2>7, WorkloadsTyped, TokensType DEF SimInv, Feasible
    <3> QED
      BY <3>1, <3>2, <3>3, <3>4, KvAssumption, SimulatorAssumption
  <2>8. CASE config.scheduler # "continuous"
    <3>1. config.scheduler = "chunked" /\ \A q \in RequestId : Feasible(q)
      <4>1. config.scheduler = "chunked"
        BY <2>8, SimulatorAssumption DEF SimInv, Typed, Config
      <4>2. \A q \in RequestId : Feasible(q)'
        BY <1>2, <4>1 DEF Hopeful
      <4> QED
        BY <1>2, <4>1, <4>2 DEF Feasible
    <3>2. Admitting(AdmitAll(Admitted)) /\ prefilling' = {}
      BY <2>1, <2>2, <2>3, TickAdmitting
    <3>3. r \in InLine \cup prefilling
      BY <2>6, <3>2 DEF Admitting
    <3>4. prefilling \subseteq AdmitAll(Admitted).prefilling
      <4> DEFINE n == Len(waiting)
      <4>1. n \in Nat /\ 0 \in 0 .. n
        BY <1>1, LineShape DEF Placed
      <4>2. PICK s : /\ s[0] = LoopStart
                     /\ \A i \in 1 .. n :
                          s[i] = IF i \in DOMAIN Admitted
                                 THEN AdmitRequest(s[i - 1], waiting[i], Admitted[i])
                                 ELSE s[i - 1]
                     /\ AdmitAll(Admitted) = s[n]
        BY <4>1, LoopTurns
      <4> HIDE DEF n
      <4>3. s[0].prefilling \subseteq s[n].prefilling
        BY <4>1, <4>2, LoopGrows
      <4> QED
        BY <4>2, <4>3 DEF LoopStart
    <3>5. Running = {} /\ waiting # <<>>
      BY <2>1, <2>2, <2>3, <3>2, <3>3, <3>4 DEF Running, InLine
    <3> QED
      BY <2>1, <3>1, <3>2, <3>5, FirstAdmitted
  <2> QED
    BY <2>7, <2>8
<1>6. CASE HandlePrefillStart \/ PrefillContinues
  <2>1. /\ Pops("PrefillStart") \/ Pops("PrefillDone")
        /\ prefilling' = prefilling
    BY <1>6 DEF HandlePrefillStart, PrefillContinues
  <2>2. Event0.req \in prefilling
    BY <2>1, Popped
  <2> QED
    BY <2>1, <2>2 DEF Running
<1>7. CASE PrefillEndsCoupled
  <2>1. Pops("PrefillDone") /\ Event0.req \in prefilling
    BY <1>7, Popped DEF PrefillEndsCoupled
  <2>2. decoding' = With(decoding, Event0.req, 0)
    BY <1>7, <2>1 DEF PrefillEndsCoupled
  <2>3. Event0.req \in DOMAIN decoding'
    BY <2>2 DEF With
  <2> QED
    BY <2>3 DEF Running
<1>8. CASE PrefillEndsDisaggregated
  <2>1. Pops("PrefillDone") /\ Event0.req \in prefilling
    BY <1>8, Popped DEF PrefillEndsDisaggregated
  <2>2. Event0.req \in transferring'
    BY <1>8, <2>1 DEF PrefillEndsDisaggregated
  <2> QED
    BY <2>2 DEF Running
<1>9. CASE \E latency \in TransferLatencies : HandleKvTransfer(latency)
  <2>1. Pops("KvTransfer") /\ Event0.req \in transferring
    BY <1>9, Popped DEF HandleKvTransfer
  <2>2. decoding' = With(decoding, Event0.req, 0)
    BY <1>9, <2>1 DEF HandleKvTransfer
  <2>3. Event0.req \in DOMAIN decoding'
    BY <2>2 DEF With
  <2> QED
    BY <2>3 DEF Running
<1>10. CASE DecodeNothing
  <2>1. /\ Pops("BatchDecodeStep") /\ queue' = Rest /\ UNCHANGED requests
    BY <1>10 DEF DecodeNothing
  <2>2. InLine' = InLine /\ Running' = Running
    BY <2>1 DEF requests, InLine, Running
  <2>3. queue \in Seq(SimEvents) /\ Ordered(queue) /\ queue # <<>>
        /\ ~ ended /\ Head(queue).kind = "BatchDecodeStep"
    BY <2>1 DEF SimInv, Pops, Event0
  <2>4. Count(queue, Ticks) = Count(Rest, Ticks)
    <3>1. ~ Matches(Head(queue), Ticks)
      BY <2>3 DEF Matches, Ticks
    <3>2. Rest \in Seq(SimEvents)
          /\ Count(queue, Ticks) =
               Count(Rest, Ticks) + IF Matches(Head(queue), Ticks) THEN 1 ELSE 0
      BY <2>3, PopEffect DEF SimEvents, Rest
    <3> QED
      BY <3>1, <3>2, CountPositive
  <2> QED
    BY <1>2, <2>1, <2>2, <2>3, <2>4 DEF Awake
<1>11. CASE DecodeStep
  <2>1. PICK latency \in DecodeLatencies :
          queue' = AfterStep(BusyNow[DecodeGpu] + latency)
    BY <1>11 DEF DecodeStep, StepEnd
  <2> DEFINE t == BusyNow[DecodeGpu] + latency
             q == IF DOMAIN decoding = Completed THEN Rest ELSE Push(Rest, StepDecode(t))
  <2>2. Pops("BatchDecodeStep") /\ BusyNow \in [Gpus -> Nat]
        /\ Ledger(Rest, RequestId \ Gone, prefilling, transferring, 0)
    BY <1>11, Popped DEF DecodeStep
  <2>3. t \in Nat
    BY <2>2, SimulatorAssumption DEF DecodeGpu, Gpus
  <2>4. q \in Seq(SimEvents)
    <3>1. StepDecode(t) \in SimEvents
      BY <2>3 DEF StepDecode, Event, SimEvents, Events, Anyone, Kinds
    <3> QED
      BY <2>2, <3>1, PushShape DEF Ledger
  <2>5. queue' = Push(q, Tick(t))
    BY <2>1 DEF AfterStep
  <2> HIDE DEF q, t
  <2> QED
    BY <2>3, <2>4, <2>5, TickPushed
<1>12. CASE PassesHorizon
  BY <1>12 DEF PassesHorizon
<1>13. CASE UNCHANGED vars
  <2>1. InLine' = InLine /\ Running' = Running /\ queue' = queue /\ ended' = ended
    BY <1>13 DEF vars, requests, InLine, Running
  <2> QED
    BY <1>2, <2>1 DEF Awake
<1> QED
  BY <1>3, <1>4, <1>5, <1>6, <1>7, <1>8, <1>9, <1>10, <1>11, <1>12, <1>13
  DEF Next, Dispatch, Returned

\* A run that has run dry has nobody in flight and nobody still to arrive.
LEMMA DryRun ==
  ASSUME SimInv, queue = <<>>, ~ ended
  PROVE  Running = {} /\ RequestId \subseteq InLine \cup done /\ Count(queue, Ticks) = 0
<1>1. \A P : Count(queue, P) = 0
  <2>1. \A P : Matching(queue, P) = {}
    BY DEF Matching
  <2> QED
    BY <2>1, FS_EmptySet DEF Count
<1>2. /\ Ledger(queue, RequestId \ Gone, prefilling, transferring, One(decode_scheduled))
      /\ DOMAIN decoding # {} => decode_scheduled
      /\ prefilling \subseteq RequestId /\ transferring \subseteq RequestId
  BY DEF SimInv, Books, Placed
<1>3. \A r \in RequestId : One(r \in RequestId \ Gone) = 0 /\ One(r \in prefilling) = 0
                           /\ One(r \in transferring) = 0
  BY <1>1, <1>2 DEF Ledger, Anyone
<1>4. RequestId \subseteq Gone /\ prefilling = {} /\ transferring = {}
  BY <1>2, <1>3 DEF One
<1>5. ~ decode_scheduled
  BY <1>1, <1>2 DEF Ledger, One
<1> QED
  BY <1>1, <1>2, <1>4, <1>5 DEF Running, Gone

\* The simulation runs dry only when all that could be served has been: no
\* completion, preemption or refusal forgets the tick that admits those left
\* (handle_scheduler_tick, handle_batch_decode_step, admit_request).
THEOREM SimNobodyStranded == Spec => []NobodyStranded
<1>1. SimInv /\ Awake => NobodyStranded
  <2> SUFFICES ASSUME SimInv, Awake, queue = <<>>, ~ ended,
                      config.scheduler = "chunked" => \A r \in RequestId : Feasible(r),
                      NEW r \in RequestId, Feasible(r), r \notin done
               PROVE  FALSE
    BY DEF NobodyStranded
  <2>1. Running = {} /\ r \in InLine /\ Count(queue, Ticks) = 0
    BY DryRun
  <2>2. Hopeful
    BY <2>1 DEF Hopeful
  <2> QED
    BY <2>1, <2>2 DEF Awake
<1> QED
  BY <1>1, SimInvInit, SimInvNext, AwakeInit, AwakeNext, PTL DEF Spec

-----------------------------------------------------------------------------
(* The requests' life cycle *)

\* The life cycle's memory, from the simulator's.
Need == [r \in RequestId |-> BlocksFor(Tokens(workload, r))]
Phase == [r \in RequestId |-> PhaseOf(r)]

\* Both specifications count blocks the same way.
LEMMA SameTotal == \A S, f : Lifecycle!Total(S, f) = Total(S, f)
<1> TAKE S, f
<1>1. Lifecycle!Units(S, f) = Units(S, f)
  BY Zenon DEF Lifecycle!Units, Units
<1> QED
  BY <1>1, Zenon DEF Lifecycle!Total, Total, Lifecycle!Cardinality, Cardinality

\* A request's phase says where it is, because it is in one place.
LEMMA PhaseIs ==
  ASSUME Placed, NEW r \in RequestId
  PROVE  /\ PhaseOf(r) = "waiting" <=> r \in InLine
         /\ PhaseOf(r) = "prefilling" <=> r \in prefilling
         /\ PhaseOf(r) = "transferring" <=> r \in transferring
         /\ PhaseOf(r) = "decoding" <=> r \in DOMAIN decoding
         /\ PhaseOf(r) = "done" <=> r \in done
         /\ PhaseOf(r) = "unarrived" <=> r \notin Gone
<1>1. /\ InLine \cap Running = {} /\ InLine \cap done = {} /\ Running \cap done = {}
      /\ prefilling \cap transferring = {}
      /\ prefilling \cap DOMAIN decoding = {}
      /\ transferring \cap DOMAIN decoding = {}
      /\ Running = prefilling \cup transferring \cup DOMAIN decoding
      /\ Gone = InLine \cup Running \cup done
  BY DEF Placed, Running, Gone
<1> QED
  BY <1>1 DEF PhaseOf

\* Who is in which phase.
LEMMA PhaseSets ==
  ASSUME Placed
  PROVE  /\ Lifecycle!In("waiting") = InLine
         /\ Lifecycle!In("prefilling") = prefilling
         /\ Lifecycle!In("transferring") = transferring
         /\ Lifecycle!In("decoding") = DOMAIN decoding
         /\ Lifecycle!In("unarrived") = RequestId \ Gone
         /\ Lifecycle!InFlight = Running
<1>1. /\ InLine \subseteq RequestId /\ prefilling \subseteq RequestId
      /\ transferring \subseteq RequestId /\ DOMAIN decoding \subseteq RequestId
  <2>1. InLine = Ids(waiting)
    BY DEF InLine, Ids
  <2> QED
    BY <2>1, LineShape DEF Placed
<1>2. \A p : Lifecycle!In(p) = {r \in RequestId : PhaseOf(r) = p}
  BY DEF Lifecycle!In
<1>3. /\ Lifecycle!In("waiting") = InLine
      /\ Lifecycle!In("prefilling") = prefilling
      /\ Lifecycle!In("transferring") = transferring
      /\ Lifecycle!In("decoding") = DOMAIN decoding
      /\ Lifecycle!In("unarrived") = RequestId \ Gone
  BY <1>1, <1>2, PhaseIs
<1> QED
  BY <1>3 DEF Lifecycle!InFlight, Running

\* Requests that go from one phase to another while all others stay.
LEMMA MoveBy ==
  ASSUME Placed, Placed', workload' = workload, config' = config,
         NEW S, NEW from, NEW to, S \subseteq Lifecycle!In(from),
         \A r \in S : (PhaseOf(r))' = to,
         \A r \in RequestId \ S : (PhaseOf(r))' = PhaseOf(r)
  PROVE  Lifecycle!Move(S, from, to)
<1>1. (Need)' = Need /\ (config.disaggregate)' = config.disaggregate
  BY DEF Need
<1>2. (Phase)' = [r \in RequestId |-> IF r \in S THEN to ELSE Phase[r]]
  BY DEF Phase
<1> QED
  BY <1>1, <1>2 DEF Lifecycle!Move, Need, Phase

-----------------------------------------------------------------------------
(* One turn of the loop *)

\* Where a request stays.
Stays(r) == /\ r \in InLine' <=> r \in InLine
            /\ r \in prefilling' <=> r \in prefilling
            /\ r \in transferring' <=> r \in transferring
            /\ r \in DOMAIN decoding' <=> r \in DOMAIN decoding
            /\ r \in done' <=> r \in done

\* The phase of a request that moved, or stayed.
LEMMA PhaseThen ==
  ASSUME Placed', NEW r \in RequestId
  PROVE  /\ r \in InLine' => (PhaseOf(r))' = "waiting"
         /\ r \in prefilling' => (PhaseOf(r))' = "prefilling"
         /\ r \in transferring' => (PhaseOf(r))' = "transferring"
         /\ r \in DOMAIN decoding' => (PhaseOf(r))' = "decoding"
         /\ r \in done' => (PhaseOf(r))' = "done"
         /\ Stays(r) => (PhaseOf(r))' = PhaseOf(r)
<1>1. /\ InLine' \cap Running' = {} /\ InLine' \cap done' = {}
      /\ Running' \cap done' = {}
      /\ prefilling' \cap transferring' = {}
      /\ prefilling' \cap DOMAIN decoding' = {}
      /\ transferring' \cap DOMAIN decoding' = {}
      /\ Running' = prefilling' \cup transferring' \cup DOMAIN decoding'
  BY DEF Placed, Running
<1>2. Stays(r) => (PhaseOf(r))' = PhaseOf(r)
  BY DEF PhaseOf, Stays
<1> QED
  BY <1>1, <1>2 DEF PhaseOf

\* What a turn of the loop that pops an event starts from and ends in.
LEMMA Turn ==
  ASSUME SimInv, Next
  PROVE  Placed /\ Placed' /\ workload' = workload /\ config' = config
<1>1. SimInv'
  BY SimInvNext
<1>2. workload' = workload /\ config' = config
  BY DEF Next, Dispatch, Returned, PassesHorizon, vars, HandleArrival, TickPreempts,
         TickAdmits, HandlePrefillStart, PrefillContinues, PrefillEndsCoupled,
         PrefillEndsDisaggregated, HandleKvTransfer, DecodeNothing, DecodeStep, Pops
<1> QED
  BY <1>1, <1>2 DEF SimInv

\* An arrival makes its request wait.
LEMMA ArrivalArrives == SimInv /\ HandleArrival => Lifecycle!Next
<1> SUFFICES ASSUME SimInv, HandleArrival PROVE Lifecycle!Next
  OBVIOUS
<1> DEFINE r == Event0.req
<1>1. Placed /\ Placed' /\ workload' = workload /\ config' = config
  BY Turn DEF Next, Dispatch
<1>2. /\ Pops("RequestArrival") /\ waiting' = Append(waiting, r)
      /\ UNCHANGED <<prefilling, transferring, decoding, done>>
  BY DEF HandleArrival
<1>3. r \in RequestId \ Gone
  BY <1>2, Popped
<1> HIDE DEF r
<1>4. InLine' = InLine \cup {r}
  <2>1. InLine = Ids(waiting) /\ InLine' = Ids(waiting')
    BY DEF InLine, Ids
  <2>2. Line(waiting) /\ r \in RequestId \ Ids(waiting)
    BY <1>1, <1>3, <2>1 DEF Placed, Gone
  <2> QED
    BY <1>2, <2>1, <2>2, JoinBack
<1>5. {r} \subseteq Lifecycle!In("unarrived")
  BY <1>1, <1>3, PhaseSets
<1>6. \A q \in {r} : (PhaseOf(q))' = "waiting"
  BY <1>1, <1>3, <1>4, PhaseThen
<1>7. \A q \in RequestId \ {r} : (PhaseOf(q))' = PhaseOf(q)
  <2>1. \A q \in RequestId \ {r} : Stays(q)
    BY <1>2, <1>4 DEF Stays
  <2> QED
    BY <1>1, <2>1, PhaseThen
<1>8. Lifecycle!Move({r}, "unarrived", "waiting")
  BY <1>1, <1>5, <1>6, <1>7, MoveBy
<1> QED
  BY <1>3, <1>8 DEF Lifecycle!Next, Lifecycle!Arrive

\* The blocks held in flight are the blocks needed in flight.
LEMMA NeedHeld ==
  ASSUME NEW R, NEW k, Shares(k, R), R \subseteq RequestId
  PROVE  /\ Total(R, Need) = Total(R, k.allocated)
         /\ Total(R, Need) \in Nat /\ k.free_blocks \in Nat
         /\ k.free_blocks + Total(R, Need) = TotalBlocks
<1>1. /\ Balanced(k) /\ DOMAIN k.allocated = R
      /\ \A r \in R : Need[r] = k.allocated[r] /\ k.allocated[r] \in Nat
  BY DEF Shares, Balanced, Need
<1>2. Total(R, Need) = Total(R, k.allocated)
  BY <1>1, TotalSame
<1>3. Total(R, k.allocated) \in Nat
  BY <1>1, HoldersFinite, TotalType
<1> QED
  BY <1>1, <1>2, <1>3 DEF Balanced

\* Whoever is preempted needs most of those in decode, and its memory is all
\* that is missing to someone in line.
LEMMA PreemptionPreempts == SimInv /\ TickPreempts => Lifecycle!Next
<1> SUFFICES ASSUME SimInv, TickPreempts PROVE Lifecycle!Next
  OBVIOUS
<1>1. Placed /\ Placed' /\ workload' = workload /\ config' = config
  BY Turn DEF Next, Dispatch
<1>2. PICK r \in CandidateVictims :
        /\ decoding' = Without(decoding, r)
        /\ waiting' = <<r>> \o waiting
  BY DEF TickPreempts
<1>3. UNCHANGED <<prefilling, transferring, done>>
  BY DEF TickPreempts
<1>4. /\ r \in DOMAIN decoding /\ r \in RequestId
      /\ kv.free_blocks = 0 /\ waiting # <<>>
      /\ \A u \in DOMAIN decoding : Tokens(workload, u) <= Tokens(workload, r)
  BY <1>1 DEF CandidateVictims, Victims, Placed
<1>5. InLine' = InLine \cup {r} /\ DOMAIN decoding' = DOMAIN decoding \ {r}
  <2>1. InLine = Ids(waiting) /\ InLine' = Ids(waiting')
    BY DEF InLine, Ids
  <2>2. Line(waiting) /\ r \in RequestId \ Ids(waiting)
    BY <1>1, <1>4, <2>1 DEF Placed, Running
  <2> QED
    BY <1>2, <2>1, <2>2, JoinFront DEF Without
<1>6. {r} \subseteq Lifecycle!In("decoding")
  BY <1>1, <1>4, PhaseSets
<1>7. \A q \in {r} : (PhaseOf(q))' = "waiting"
  BY <1>1, <1>4, <1>5, PhaseThen
<1>8. \A q \in RequestId \ {r} : (PhaseOf(q))' = PhaseOf(q)
  <2>1. \A q \in RequestId \ {r} : Stays(q)
    BY <1>3, <1>5 DEF Stays
  <2> QED
    BY <1>1, <2>1, PhaseThen
<1>9. Lifecycle!Move({r}, "decoding", "waiting")
  BY <1>1, <1>6, <1>7, <1>8, MoveBy
<1>10. Lifecycle!In("waiting") # {}
  <2>1. Len(waiting) \in Nat /\ Len(waiting) # 0 /\ DOMAIN waiting = 1 .. Len(waiting)
    <3>1. waiting \in Seq(RequestId)
      BY <1>1 DEF Placed, Line
    <3> QED
      BY <1>4, <3>1, LenProperties, EmptySeq
  <2>2. waiting[1] \in InLine
    BY <2>1 DEF InLine
  <2> QED
    BY <1>1, <2>2, PhaseSets
<1>11. Total(Lifecycle!InFlight, Need) = TotalBlocks
  <2>1. Shares(kv, Running) /\ Running \subseteq RequestId
    BY <1>1 DEF Placed, Running
  <2>2. Total(Running, Need) = TotalBlocks
    BY <1>4, <2>1, NeedHeld
  <2> QED
    BY <1>1, <2>2, PhaseSets
<1>12. \A s \in Lifecycle!In("decoding") : Need[s] <= Need[r]
  <2> SUFFICES ASSUME NEW s \in DOMAIN decoding PROVE Need[s] <= Need[r]
    BY <1>1, PhaseSets
  <2>1. s \in RequestId /\ workload \in Workload
    BY <1>1, WorkloadsTyped DEF Placed, SimInv
  <2>2. Tokens(workload, s) \in Nat /\ Tokens(workload, r) \in Nat
    BY <1>4, <2>1, TokensType
  <2> QED
    BY <1>4, <2>1, <2>2, BlocksForGrow DEF Need
<1>13. Lifecycle!Preempt(r)
  BY <1>9, <1>10, <1>11, <1>12, SameTotal DEF Lifecycle!Preempt, Need
<1> QED
  BY <1>4, <1>13 DEF Lifecycle!Next

\* The loop takes nobody out of prefill.
LEMMA PrefillGrows ==
  ASSUME Len(waiting) \in Nat, NEW admit
  PROVE  prefilling \subseteq AdmitAll(admit).prefilling
<1> DEFINE n == Len(waiting)
<1>1. PICK s : /\ s[0] = LoopStart
               /\ \A i \in 1 .. n :
                    s[i] = IF i \in DOMAIN admit
                           THEN AdmitRequest(s[i - 1], waiting[i], admit[i])
                           ELSE s[i - 1]
               /\ AdmitAll(admit) = s[n]
  BY LoopTurns
<1> DEFINE Keeps(t) == DOMAIN t = LoopParts /\ prefilling \subseteq t.prefilling
           P == {i \in Nat : i <= n => Keeps(s[i])}
<1> HIDE DEF n
<1>2. 0 \in P
  BY <1>1 DEF LoopStart, LoopParts
<1>3. ASSUME NEW m \in Nat, m \in P PROVE m + 1 \in P
  <2> SUFFICES ASSUME m + 1 <= n PROVE Keeps(s[m + 1])
    OBVIOUS
  <2>1. m + 1 \in 1 .. n /\ (m + 1) - 1 = m /\ Keeps(s[m])
    BY <1>3 DEF n
  <2>2. \/ s[m + 1] = s[m]
        \/ s[m + 1] = AdmitRequest(s[m], waiting[m + 1], admit[m + 1])
    BY <1>1, <2>1
  <2> QED
    BY <2>1, <2>2, AdmitEffect
<1>4. n \in Nat
  BY DEF n
<1>5. n \in P
  <2> HIDE DEF P
  <2> QED
    BY <1>2, <1>3, <1>4, SetInduction
<1> QED
  BY <1>1, <1>4, <1>5

\* A tick admits only as many as there is memory for.
LEMMA AdmissionAdmits == SimInv /\ TickAdmits => Lifecycle!Next
<1> SUFFICES ASSUME SimInv, TickAdmits PROVE Lifecycle!Next
  OBVIOUS
<1> DEFINE S == prefilling' \ prefilling
<1>1. Placed /\ Placed' /\ workload' = workload /\ config' = config
  BY Turn DEF Next, Dispatch
<1>2. /\ Pops("SchedulerTick") /\ UNCHANGED <<transferring, decoding, done>>
      /\ prefilling' = AdmitAll(Admitted).prefilling
      /\ waiting' = AdmitAll(Admitted).waiting
  BY DEF TickAdmits
<1>3. /\ InLine' \cap prefilling' = {}
      /\ InLine' \cup prefilling' = InLine \cup prefilling
  <2>1. Admitting(AdmitAll(Admitted))
    BY <1>2, TickAdmitting
  <2>2. InLine' = Ids(waiting')
    BY DEF InLine, Ids
  <2> QED
    BY <1>2, <2>1, <2>2 DEF Admitting
<1>4. prefilling \subseteq prefilling'
  <2>1. Len(waiting) \in Nat
    BY <1>1, LineShape DEF Placed
  <2> QED
    BY <1>2, <2>1, PrefillGrows
<1>5. /\ InLine' = InLine \ S /\ S \subseteq InLine /\ prefilling' = prefilling \cup S
      /\ S \subseteq RequestId
  BY <1>1, <1>3, <1>4 DEF Placed, Running
<1> HIDE DEF S
<1>6. S \subseteq Lifecycle!In("waiting")
  BY <1>1, <1>5, PhaseSets
<1>7. \A q \in S : (PhaseOf(q))' = "prefilling"
  BY <1>1, <1>5, PhaseThen
<1>8. \A q \in RequestId \ S : (PhaseOf(q))' = PhaseOf(q)
  <2>1. \A q \in RequestId \ S : Stays(q)
    BY <1>2, <1>5 DEF Stays
  <2> QED
    BY <1>1, <2>1, PhaseThen
<1>9. Lifecycle!Move(S, "waiting", "prefilling")
  BY <1>1, <1>6, <1>7, <1>8, MoveBy
<1>10. Total(Lifecycle!InFlight \cup S, Need) <= TotalBlocks
  <2> DEFINE R == Running \cup S
  <2>1. Running' = R /\ R \subseteq RequestId
    BY <1>1, <1>2, <1>5 DEF Running, Placed
  <2>2. Shares(kv', R)
    BY <1>1, <2>1 DEF Placed, Shares
  <2> HIDE DEF R
  <2>3. Total(R, Need) \in Nat /\ kv'.free_blocks \in Nat
        /\ kv'.free_blocks + Total(R, Need) = TotalBlocks
    BY <2>1, <2>2, NeedHeld
  <2>4. Total(R, Need) <= TotalBlocks
    BY <2>3, KvAssumption
  <2> QED
    BY <1>1, <2>4, PhaseSets DEF R
<1>11. Lifecycle!Admit(S)
  BY <1>9, <1>10, SameTotal DEF Lifecycle!Admit, Need
<1> QED
  BY <1>5, <1>11 DEF Lifecycle!Next

\* A prompt that is through goes on to decode where prefill and decode share a machine ...
LEMMA CoupledEndEnds == SimInv /\ PrefillEndsCoupled => Lifecycle!Next
<1> SUFFICES ASSUME SimInv, PrefillEndsCoupled PROVE Lifecycle!Next
  OBVIOUS
<1> DEFINE r == Event0.req
<1>1. Placed /\ Placed' /\ workload' = workload /\ config' = config
  BY Turn DEF Next, Dispatch
<1>2. /\ Pops("PrefillDone") /\ UNCHANGED <<waiting, transferring, done>>
      /\ ~ config.disaggregate /\ prefilling' = prefilling \ {r}
      /\ decoding' = IF r \in prefilling THEN With(decoding, r, 0) ELSE decoding
  BY DEF PrefillEndsCoupled
<1>3. r \in prefilling /\ r \in RequestId
  BY <1>1, <1>2, Popped DEF Placed
<1> HIDE DEF r
<1>4. DOMAIN decoding' = DOMAIN decoding \cup {r} /\ InLine' = InLine
  BY <1>2, <1>3 DEF With, InLine
<1>5. {r} \subseteq Lifecycle!In("prefilling")
  BY <1>1, <1>3, PhaseSets
<1>6. \A q \in {r} : (PhaseOf(q))' = "decoding"
  BY <1>1, <1>3, <1>4, PhaseThen
<1>7. \A q \in RequestId \ {r} : (PhaseOf(q))' = PhaseOf(q)
  <2>1. \A q \in RequestId \ {r} : Stays(q)
    BY <1>2, <1>4 DEF Stays
  <2> QED
    BY <1>1, <2>1, PhaseThen
<1>8. Lifecycle!Move({r}, "prefilling", "decoding")
  BY <1>1, <1>5, <1>6, <1>7, MoveBy
<1> QED
  BY <1>2, <1>3, <1>8 DEF Lifecycle!Next, Lifecycle!EndPrefill

\* ... and to its transfer where they do not.
LEMMA DisaggregatedEndEnds == SimInv /\ PrefillEndsDisaggregated => Lifecycle!Next
<1> SUFFICES ASSUME SimInv, PrefillEndsDisaggregated PROVE Lifecycle!Next
  OBVIOUS
<1> DEFINE r == Event0.req
<1>1. Placed /\ Placed' /\ workload' = workload /\ config' = config
  BY Turn DEF Next, Dispatch
<1>2. /\ Pops("PrefillDone") /\ UNCHANGED <<waiting, decoding, done>>
      /\ config.disaggregate
  BY DEF PrefillEndsDisaggregated
<1>3. r \in prefilling /\ r \in RequestId
  BY <1>1, <1>2, Popped DEF Placed
<1>4. /\ prefilling' = prefilling \ {r} /\ transferring' = transferring \cup {r}
      /\ InLine' = InLine
  BY <1>2, <1>3 DEF PrefillEndsDisaggregated, InLine
<1> HIDE DEF r
<1>5. {r} \subseteq Lifecycle!In("prefilling")
  BY <1>1, <1>3, PhaseSets
<1>6. \A q \in {r} : (PhaseOf(q))' = "transferring"
  BY <1>1, <1>3, <1>4, PhaseThen
<1>7. \A q \in RequestId \ {r} : (PhaseOf(q))' = PhaseOf(q)
  <2>1. \A q \in RequestId \ {r} : Stays(q)
    BY <1>2, <1>4 DEF Stays
  <2> QED
    BY <1>1, <2>1, PhaseThen
<1>8. Lifecycle!Move({r}, "prefilling", "transferring")
  BY <1>1, <1>5, <1>6, <1>7, MoveBy
<1> QED
  BY <1>2, <1>3, <1>8 DEF Lifecycle!Next, Lifecycle!EndPrefill

\* ... and from its transfer to decode.
LEMMA TransferEnds ==
  SimInv /\ (\E latency \in TransferLatencies : HandleKvTransfer(latency))
    => Lifecycle!Next
<1> SUFFICES ASSUME SimInv, NEW latency \in TransferLatencies, HandleKvTransfer(latency)
             PROVE  Lifecycle!Next
  OBVIOUS
<1> DEFINE r == Event0.req
<1>1. Placed /\ Placed' /\ workload' = workload /\ config' = config
  BY Turn DEF Next, Dispatch
<1>2. /\ Pops("KvTransfer") /\ UNCHANGED <<waiting, prefilling, done>>
      /\ transferring' = transferring \ {r}
      /\ decoding' = IF r \in transferring THEN With(decoding, r, 0) ELSE decoding
  BY DEF HandleKvTransfer
<1>3. r \in transferring /\ r \in RequestId
  BY <1>1, <1>2, Popped DEF Placed
<1> HIDE DEF r
<1>4. DOMAIN decoding' = DOMAIN decoding \cup {r} /\ InLine' = InLine
  BY <1>2, <1>3 DEF With, InLine
<1>5. {r} \subseteq Lifecycle!In("transferring")
  BY <1>1, <1>3, PhaseSets
<1>6. \A q \in {r} : (PhaseOf(q))' = "decoding"
  BY <1>1, <1>3, <1>4, PhaseThen
<1>7. \A q \in RequestId \ {r} : (PhaseOf(q))' = PhaseOf(q)
  <2>1. \A q \in RequestId \ {r} : Stays(q)
    BY <1>2, <1>4 DEF Stays
  <2> QED
    BY <1>1, <2>1, PhaseThen
<1>8. Lifecycle!Move({r}, "transferring", "decoding")
  BY <1>1, <1>5, <1>6, <1>7, MoveBy
<1> QED
  BY <1>3, <1>8 DEF Lifecycle!Next, Lifecycle!EndTransfer

\* A decode step completes those who have all their tokens.
LEMMA StepCompletes == SimInv /\ DecodeStep => Lifecycle!Next
<1> SUFFICES ASSUME SimInv, DecodeStep PROVE Lifecycle!Next
  OBVIOUS
<1>1. Placed /\ Placed' /\ workload' = workload /\ config' = config
  BY Turn DEF Next, Dispatch
<1>2. /\ UNCHANGED <<waiting, prefilling, transferring>>
      /\ done' = done \cup Completed
      /\ DOMAIN decoding' = DOMAIN decoding \ Completed
  BY DEF DecodeStep
<1>3. Completed \subseteq DOMAIN decoding /\ Completed \subseteq RequestId
  BY <1>1 DEF Completed, Placed
<1>4. InLine' = InLine
  BY <1>2 DEF InLine
<1>5. Completed \subseteq Lifecycle!In("decoding")
  BY <1>1, <1>3, PhaseSets
<1>6. \A q \in Completed : (PhaseOf(q))' = "done"
  BY <1>1, <1>2, <1>3, PhaseThen
<1>7. \A q \in RequestId \ Completed : (PhaseOf(q))' = PhaseOf(q)
  <2>1. \A q \in RequestId \ Completed : Stays(q)
    BY <1>2, <1>4 DEF Stays
  <2> QED
    BY <1>1, <2>1, PhaseThen
<1>8. Lifecycle!Move(Completed, "decoding", "done")
  BY <1>1, <1>5, <1>6, <1>7, MoveBy
<1> QED
  BY <1>3, <1>8 DEF Lifecycle!Next, Lifecycle!Complete

\* Every other turn leaves every request where it is.
LEMMA OthersStutter ==
  ASSUME workload' = workload, config' = config,
         UNCHANGED <<waiting, prefilling, transferring, decoding, done>>
  PROVE  UNCHANGED Lifecycle!vars
<1>1. InLine' = InLine
  BY DEF InLine
<1>2. \A r \in RequestId : (PhaseOf(r))' = PhaseOf(r)
  BY <1>1 DEF PhaseOf
<1>3. (Phase)' = Phase /\ (Need)' = Need
  BY <1>2 DEF Phase, Need
<1> QED
  BY <1>3 DEF Lifecycle!vars, Phase, Need

\* A turn of the loop is a step of the life cycle, or none.
LEMMA LifecycleNext == SimInv /\ [Next]_vars => [Lifecycle!Next]_(Lifecycle!vars)
<1> SUFFICES ASSUME SimInv, [Next]_vars
             PROVE  Lifecycle!Next \/ UNCHANGED Lifecycle!vars
  OBVIOUS
<1>1. CASE HandleArrival
  BY <1>1, ArrivalArrives
<1>2. CASE TickPreempts
  BY <1>2, PreemptionPreempts
<1>3. CASE TickAdmits
  BY <1>3, AdmissionAdmits
<1>4. CASE PrefillEndsCoupled
  BY <1>4, CoupledEndEnds
<1>5. CASE PrefillEndsDisaggregated
  BY <1>5, DisaggregatedEndEnds
<1>6. CASE \E latency \in TransferLatencies : HandleKvTransfer(latency)
  BY <1>6, TransferEnds
<1>7. CASE DecodeStep
  BY <1>7, StepCompletes
<1>8. CASE \/ HandlePrefillStart \/ PrefillContinues \/ DecodeNothing
           \/ PassesHorizon \/ UNCHANGED vars
  <2>1. /\ workload' = workload /\ config' = config
        /\ UNCHANGED <<waiting, prefilling, transferring, decoding, done>>
    BY <1>8 DEF HandlePrefillStart, PrefillContinues, DecodeNothing, PassesHorizon,
                vars, requests, Pops
  <2> QED
    BY <2>1, OthersStutter
<1> QED
  BY <1>1, <1>2, <1>3, <1>4, <1>5, <1>6, <1>7, <1>8 DEF Next, Dispatch, Returned

\* When the simulator has been built, nobody has arrived.
LEMMA LifecycleInit == Init => Lifecycle!Init
<1> SUFFICES ASSUME Init PROVE Lifecycle!Init
  OBVIOUS
<1>1. /\ InLine = {} /\ prefilling = {} /\ transferring = {} /\ DOMAIN decoding = {}
      /\ done = {}
  BY DEF Init, InLine, Empty
<1>2. \A r \in RequestId : PhaseOf(r) = "unarrived"
  BY <1>1 DEF PhaseOf
<1>3. Phase = [r \in RequestId |-> "unarrived"]
  BY <1>2 DEF Phase
<1>4. workload \in Workload /\ config.disaggregate \in BOOLEAN
  BY SimulatorAssumption DEF Init, Config
<1>5. Need \in [RequestId -> Nat]
  BY <1>4, TokensType DEF Need
<1> QED
  BY <1>3, <1>4, <1>5 DEF Lifecycle!Init, Phase, Need

\* Every run of the simulator is a run of the requests' life cycle: requests move
\* through their phases in order and together, memory is never overcommitted, and
\* only exhausted memory that another request waits for sends one back.
THEOREM SimImplementsLifecycle == Spec => ImplementsLifecycle
<1>1. Init => Lifecycle!Init
  BY LifecycleInit
<1>2. SimInv /\ [Next]_vars => [Lifecycle!Next]_(Lifecycle!vars)
  BY LifecycleNext
<1> QED
  BY <1>1, <1>2, SimulatorInvariant, PTL DEF Spec, ImplementsLifecycle, Lifecycle!Spec
=============================================================================
