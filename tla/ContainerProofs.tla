-------------------------- MODULE ContainerProofs --------------------------
(***************************************************************************)
(* The two data structures of the simulator, the heap of events and the    *)
(* manager of KV blocks: proofs about SimQueue.tla and KvCacheCalls.tla.   *)
(*                                                                         *)
(* The heap with push numbers implements the stable queue of which the     *)
(* simulator is told, for every set of times and payloads and every number *)
(* of pushes.  What a behaviour keeps is that push numbers are told apart. *)
(* They make the comparison of events a strict total order, in which there *)
(* is one way to list the heap; so it is enough to see that a push inserts *)
(* into that list where the stable queue inserts, and a pop takes its head.*)
(*                                                                         *)
(* The block manager keeps its books, for every pool, block size and set   *)
(* of callers.                                                             *)
(***************************************************************************)
EXTENDS SimQueue, KvCacheCalls, OperatorProofs

-----------------------------------------------------------------------------
(* The heap *)

\* The events that a heap may hold, and heaps that tell their events apart.
HeapEvents == [time : Nat, seq : Nat, payload : Payload]
Heap(H) == /\ H \subseteq HeapEvents /\ IsFiniteSet(H)
           /\ \A e, f \in H : e.seq = f.seq => e = f

\* The events of H as the stable queue sees them.
Seen(e) == [time |-> e.time, payload |-> e.payload]
AllSeen(s) == [i \in DOMAIN s |-> Seen(s[i])]
Pending(H) == AllSeen(InOrder(H, PopOrder(H)))

\* Events with different push numbers are in one order or the other.
LEMMA PopOrderStrict ==
  ASSUME NEW H, Heap(H)
  PROVE  StrictOrder(H, PopOrder(H))
<1>1. \A e, f \in H : <<e, f>> \in PopOrder(H) <=> Greater(e, f)
  BY DEF PopOrder
<1>2. \A e \in H : e.time \in Nat /\ e.seq \in Nat
  BY DEF Heap, HeapEvents
<1>3. \A e \in H : <<e, e>> \notin PopOrder(H)
  BY <1>1, <1>2 DEF Greater
<1>4. \A e, f, g \in H : <<e, f>> \in PopOrder(H) /\ <<f, g>> \in PopOrder(H)
                           => <<e, g>> \in PopOrder(H)
  <2> TAKE e, f, g \in H
  <2>1. Greater(e, f) /\ Greater(f, g) => Greater(e, g)
    BY <1>2 DEF Greater
  <2> QED
    BY <1>1, <2>1
<1>5. \A e, f \in H : e = f \/ <<e, f>> \in PopOrder(H) \/ <<f, e>> \in PopOrder(H)
  <2> TAKE e, f \in H
  <2>1. e.seq = f.seq \/ Greater(e, f) \/ Greater(f, e)
    BY <1>2 DEF Greater
  <2> QED
    BY <1>1, <2>1 DEF Heap
<1> QED
  BY <1>3, <1>4, <1>5 DEF StrictOrder

\* s lists the n events of H, and p is what the stable queue sees of it.
Listed(H, s, n, p) ==
  /\ n \in Nat /\ DOMAIN s = 1 .. n /\ p = [i \in 1 .. n |-> Seen(s[i])]
  /\ \A x \in H : \E i \in 1 .. n : s[i] = x
  /\ \A i \in 1 .. n : s[i] \in H /\ s[i].time \in Nat /\ s[i].seq \in Nat
  /\ \A i, j \in 1 .. n : i < j => Greater(s[i], s[j])

\* The list of a heap, and what the stable queue sees of it.
LEMMA PendingShape ==
  ASSUME NEW H, Heap(H)
  PROVE  Listed(H, InOrder(H, PopOrder(H)), Cardinality(H), Pending(H))
<1> DEFINE s == InOrder(H, PopOrder(H))
           n == Cardinality(H)
           p == Pending(H)
<1>1. n \in Nat
  BY FS_CardinalityType DEF Heap
<1>2. Lists(s, H, PopOrder(H))
  BY PopOrderStrict, InOrderLists DEF Heap
<1>3. /\ DOMAIN s = 1 .. n /\ \A i \in 1 .. n : s[i] \in H
      /\ \A x \in H : \E i \in 1 .. n : s[i] = x
  BY <1>2 DEF Lists
<1>4. \A i, j \in 1 .. n : i < j => Greater(s[i], s[j])
  BY <1>2, <1>3 DEF Lists, PopOrder
<1>5. \A i \in 1 .. n : s[i].time \in Nat /\ s[i].seq \in Nat
  BY <1>3 DEF Heap, HeapEvents
<1>6. p = [i \in 1 .. n |-> Seen(s[i])]
  BY <1>3 DEF Pending, AllSeen
<1> HIDE DEF s, n, p
<1>7. Listed(H, s, n, p)
  BY <1>1, <1>3, <1>4, <1>5, <1>6 DEF Listed
<1> QED
  BY <1>7 DEF s, n, p

\* An event that is pushed last comes behind the events that are due no later.
LEMMA PushInserts ==
  ASSUME NEW H, Heap(H), NEW e \in HeapEvents, \A f \in H : f.seq < e.seq
  PROVE  Heap(H \cup {e}) /\ Pending(H \cup {e}) = Push(Pending(H), Seen(e))
<1> DEFINE G == H \cup {e}
           n == Cardinality(H)
           s == InOrder(H, PopOrder(H))
           p == Pending(H)
           k == DueBy(p, e.time)
           t == [i \in 1 .. n + 1 |-> IF i <= k THEN s[i]
                                      ELSE IF i = k + 1 THEN e ELSE s[i - 1]]
<1>1. e.time \in Nat /\ e.seq \in Nat /\ e \notin H
  BY DEF HeapEvents
<1>2. Heap(G)
  <2>1. IsFiniteSet(G)
    BY FS_AddElement DEF Heap
  <2>2. \A f, g \in G : f.seq = g.seq => f = g
    BY <1>1 DEF Heap, HeapEvents
  <2> QED
    BY <2>1, <2>2 DEF Heap
<1>3. n \in Nat /\ Cardinality(G) = n + 1
  BY <1>1, FS_AddElement, FS_CardinalityType DEF Heap
<1>4. /\ DOMAIN s = 1 .. n /\ DOMAIN p = 1 .. n
      /\ \A x \in H : \E i \in 1 .. n : s[i] = x
      /\ \A i \in 1 .. n : /\ s[i] \in H /\ s[i].time \in Nat /\ s[i].seq < e.seq
                           /\ s[i].seq \in Nat
                           /\ p[i] = Seen(s[i]) /\ p[i].time = s[i].time
      /\ \A i, j \in 1 .. n : i < j => Greater(s[i], s[j])
  <2> HIDE DEF s, p, n
  <2>1. /\ DOMAIN s = 1 .. n /\ p = [i \in 1 .. n |-> Seen(s[i])]
        /\ \A x \in H : \E i \in 1 .. n : s[i] = x
        /\ \A i \in 1 .. n : s[i] \in H /\ s[i].time \in Nat /\ s[i].seq \in Nat
        /\ \A i, j \in 1 .. n : i < j => Greater(s[i], s[j])
    <3>1. Listed(H, s, n, p)
      BY PendingShape DEF s, p, n
    <3> QED
      BY <3>1 DEF Listed
  <2> QED
    BY <2>1 DEF Seen
<1> HIDE DEF s, p, n
<1>5. /\ \A i \in 1 .. n : s[i].time <= e.time <=> i <= k
      /\ k \in 0 .. n
  <2>1. Ordered(p)
    BY <1>4 DEF Ordered, Greater
  <2>2. {i \in DOMAIN p : p[i].time <= e.time} = 1 .. k /\ k \in 0 .. n
    BY <1>1, <1>3, <1>4, <2>1, DuePrefix
  <2> HIDE DEF k
  <2> QED
    BY <1>3, <1>4, <2>2
<1> HIDE DEF k
<1>6. Lists(t, G, PopOrder(G))
  <2>1. t \in [1 .. n + 1 -> G]
    BY <1>3, <1>4, <1>5
  <2>2. ASSUME NEW x \in G PROVE \E i \in 1 .. n + 1 : t[i] = x
    <3>1. CASE x = e
      BY <1>3, <1>5, <3>1
    <3>2. CASE x \in H
      <4>1. PICK i \in 1 .. n : s[i] = x
        BY <1>4, <3>2
      <4>2. CASE i <= k
        BY <1>3, <4>1, <4>2
      <4>3. CASE i > k
        <5>1. i + 1 \in 1 .. n + 1 /\ t[i + 1] = x
          BY <1>3, <1>5, <4>1, <4>3
        <5> QED
          BY <5>1
      <4> QED
        BY <1>3, <1>5, <4>2, <4>3
    <3> QED
      BY <3>1, <3>2
  <2>3. ASSUME NEW i \in 1 .. n + 1, NEW j \in 1 .. n + 1, i < j
        PROVE  Greater(t[i], t[j])
    <3>1. CASE j <= k
      BY <1>3, <1>4, <1>5, <2>3, <3>1
    <3>2. CASE i <= k /\ j = k + 1
      <4>1. t[i] = s[i] /\ t[j] = e /\ i \in 1 .. n
        BY <1>3, <1>5, <2>3, <3>2
      <4>2. s[i].time <= e.time /\ s[i].seq < e.seq /\ s[i].time \in Nat
        BY <1>4, <1>5, <3>2, <4>1
      <4> QED
        BY <1>1, <4>1, <4>2 DEF Greater
    <3>3. CASE i <= k /\ j > k + 1
      <4>1. t[i] = s[i] /\ t[j] = s[j - 1] /\ i \in 1 .. n /\ j - 1 \in 1 .. n /\ i < j - 1
        BY <1>3, <1>5, <2>3, <3>3
      <4> QED
        BY <1>4, <4>1
    <3>4. CASE i = k + 1
      <4>1. t[i] = e /\ t[j] = s[j - 1] /\ j - 1 \in 1 .. n /\ j - 1 > k
        BY <1>3, <1>5, <2>3, <3>4
      <4>2. ~ (s[j - 1].time <= e.time)
        BY <1>5, <4>1
      <4> QED
        BY <1>1, <1>4, <4>1, <4>2 DEF Greater
    <3>5. CASE i > k + 1
      <4>1. /\ t[i] = s[i - 1] /\ t[j] = s[j - 1]
            /\ i - 1 \in 1 .. n /\ j - 1 \in 1 .. n /\ i - 1 < j - 1
        BY <1>3, <1>5, <2>3, <3>5
      <4> QED
        BY <1>4, <4>1
    <3> QED
      BY <1>3, <1>5, <2>3, <3>1, <3>2, <3>3, <3>4, <3>5
  <2> HIDE DEF t
  <2>4. \A i, j \in 1 .. n + 1 : i < j => <<t[i], t[j]>> \in PopOrder(G)
    BY <2>1, <2>3 DEF PopOrder
  <2> HIDE DEF G
  <2> QED
    BY <1>3, <2>1, <2>2, <2>4 DEF Lists
<1>7. t = InOrder(G, PopOrder(G))
  <2>1. IsFiniteSet(G) /\ StrictOrder(G, PopOrder(G))
    BY <1>2, PopOrderStrict DEF Heap
  <2> HIDE DEF t, G
  <2> QED
    BY <1>6, <2>1, ListsOnce
<1>8. Pending(G) = [i \in 1 .. n + 1 |-> Seen(t[i])]
  BY <1>7 DEF Pending, AllSeen
<1>9. Len(p) = n
  BY <1>3, <1>4
<1>10. Push(p, Seen(e)) = [i \in 1 .. n + 1 |-> IF i <= k THEN p[i]
                                               ELSE IF i = k + 1 THEN Seen(e)
                                               ELSE p[i - 1]]
  BY <1>9 DEF Push, Seen, k
<1>11. \A i \in 1 .. n + 1 : Seen(t[i]) = IF i <= k THEN p[i]
                                         ELSE IF i = k + 1 THEN Seen(e) ELSE p[i - 1]
  BY <1>3, <1>4, <1>5
<1> QED
  BY <1>2, <1>8, <1>10, <1>11 DEF p

\* An event that no other one is greater than is the first, and the others stay
\* as they are.
LEMMA PopTakesFirst ==
  ASSUME NEW H, Heap(H), NEW e \in H, \A f \in H : ~ Greater(f, e)
  PROVE  /\ Heap(H \ {e})
         /\ Pending(H) # <<>> /\ Head(Pending(H)).time = e.time
         /\ Pending(H \ {e}) = Tail(Pending(H))
<1> DEFINE G == H \ {e}
           n == Cardinality(H)
           s == InOrder(H, PopOrder(H))
           p == Pending(H)
           t == [i \in 1 .. n - 1 |-> s[i + 1]]
<1>1. Heap(G)
  BY FS_RemoveElement DEF Heap
<1>2. n \in Nat \ {0} /\ Cardinality(G) = n - 1
  <2>1. IsFiniteSet(H) /\ n \in Nat /\ n # 0
    BY FS_CardinalityType, FS_EmptySet DEF Heap
  <2> QED
    BY <2>1, FS_RemoveElement
<1>3. /\ DOMAIN s = 1 .. n /\ p = [i \in 1 .. n |-> Seen(s[i])]
      /\ \A x \in H : \E i \in 1 .. n : s[i] = x
      /\ \A i \in 1 .. n : s[i] \in H /\ s[i].time \in Nat /\ s[i].seq \in Nat
      /\ \A i, j \in 1 .. n : i < j => Greater(s[i], s[j])
  <2> HIDE DEF s, p, n
  <2>1. Listed(H, s, n, p)
    BY PendingShape DEF s, p, n
  <2> QED
    BY <2>1 DEF Listed
<1> HIDE DEF s, n, p
<1>5. s[1] = e
  <2>1. PICK i \in 1 .. n : s[i] = e
    BY <1>3
  <2>2. 1 \in 1 .. n /\ (i = 1 \/ 1 < i)
    BY <1>2
  <2> QED
    BY <1>3, <2>1, <2>2
<1>6. \A i, j \in 1 .. n : i < j => s[i] # s[j]
  BY <1>3 DEF Greater
<1>7. Lists(t, G, PopOrder(G))
  <2>1. \A i \in 1 .. n - 1 : /\ i + 1 \in 1 .. n /\ 1 \in 1 .. n
                              /\ t[i] = s[i + 1] /\ s[i + 1] # s[1]
    BY <1>2, <1>6
  <2>2. t \in [1 .. n - 1 -> G]
    BY <1>3, <1>5, <2>1
  <2>3. ASSUME NEW x \in G PROVE \E i \in 1 .. n - 1 : t[i] = x
    <3>1. PICK i \in 1 .. n : s[i] = x
      BY <1>3
    <3>2. i # 1
      BY <1>5, <3>1
    <3>3. i - 1 \in 1 .. n - 1 /\ t[i - 1] = x
      BY <1>2, <3>1, <3>2
    <3> QED
      BY <3>3
  <2>4. \A i, j \in 1 .. n - 1 : i < j => Greater(t[i], t[j])
    BY <1>2, <1>3, <2>1
  <2> HIDE DEF t
  <2>5. \A i, j \in 1 .. n - 1 : i < j => <<t[i], t[j]>> \in PopOrder(G)
    BY <2>2, <2>4 DEF PopOrder
  <2> HIDE DEF G
  <2> QED
    BY <1>2, <2>2, <2>3, <2>5 DEF Lists
<1>8. t = InOrder(G, PopOrder(G))
  <2>1. IsFiniteSet(G) /\ StrictOrder(G, PopOrder(G))
    BY <1>1, PopOrderStrict DEF Heap
  <2> HIDE DEF t, G
  <2> QED
    BY <1>7, <2>1, ListsOnce
<1>9. Pending(G) = [i \in 1 .. n - 1 |-> Seen(t[i])]
  BY <1>8 DEF Pending, AllSeen
<1>10. p \in Seq({Seen(x) : x \in H}) /\ Len(p) = n
  <2> DEFINE S == {Seen(x) : x \in H}
  <2>1. p \in [1 .. n -> S]
    BY <1>3
  <2> HIDE DEF S
  <2>2. p \in Seq(S) /\ Len(p) = n
    BY <1>2, <2>1, SequenceShape
  <2> QED
    BY <2>2 DEF S
<1>11. p # <<>> /\ Head(p) = p[1] /\ 1 \in 1 .. n
  BY <1>2, <1>10, EmptySeq, HeadTailProperties
<1>12. Head(p).time = e.time
  BY <1>3, <1>5, <1>11 DEF Seen
<1>13. Tail(p) = [i \in 1 .. n - 1 |-> p[i + 1]]
  <2> DEFINE u == Tail(p)
             S == {Seen(x) : x \in H}
  <2>1. u \in Seq(S) /\ Len(u) = n - 1 /\ \A i \in 1 .. Len(u) : u[i] = p[i + 1]
    <3> HIDE DEF S
    <3> QED
      BY <1>10, <1>11, HeadTailProperties DEF S
  <2> HIDE DEF u, S
  <2>2. u = [i \in 1 .. Len(u) |-> u[i]]
    BY <2>1
  <2>3. u = [i \in 1 .. n - 1 |-> p[i + 1]]
    BY <2>1, <2>2
  <2> QED
    BY <2>3 DEF u
<1>14. \A i \in 1 .. n - 1 : Seen(t[i]) = p[i + 1]
  BY <1>2, <1>3
<1> QED
  BY <1>1, <1>9, <1>11, <1>12, <1>13, <1>14 DEF p
-----------------------------------------------------------------------------
\* The inductive invariant: the heap holds events with numbers that were given
\* out, and no number twice.
HeapInv ==
  /\ TypeOK
  /\ Heap(heap)
  /\ \A e \in heap : e.seq < next_seq

\* It holds at the start, ...
LEMMA HeapInvInit == Init => HeapInv
<1> SUFFICES ASSUME Init PROVE HeapInv
  OBVIOUS
<1>1. heap = {} /\ next_seq = 0 /\ clock = 0
  BY DEF Init
<1>2. Heap(heap)
  BY <1>1, FS_EmptySet DEF Heap
<1>3. TypeOK
  BY <1>1, SimQueueAssumption DEF TypeOK
<1> QED
  BY <1>1, <1>2, <1>3 DEF HeapInv

\* ... a push adds an event with a new number, ...
LEMMA HeapInvPush ==
  ASSUME HeapInv, NEW t \in Time, NEW p \in Payload, next_seq < MaxPushes,
         NEW e, e = [time |-> t, seq |-> next_seq, payload |-> p]
  PROVE  /\ e \in HeapEvents /\ e.seq = next_seq
         /\ e \in [time : Time, seq : 0 .. MaxPushes - 1, payload : Payload]
         /\ Heap(heap \cup {e})
         /\ Pending(heap \cup {e}) = Push(Pending(heap), [time |-> t, payload |-> p])
<1>1. next_seq \in Nat /\ MaxPushes \in Nat /\ t \in Nat
  BY SimQueueAssumption DEF HeapInv, TypeOK
<1>2. next_seq \in 0 .. MaxPushes - 1
  BY <1>1
<1>3. e \in HeapEvents /\ e.seq = next_seq /\ Seen(e) = [time |-> t, payload |-> p]
  BY <1>1 DEF HeapEvents, Seen
<1>4. e \in [time : Time, seq : 0 .. MaxPushes - 1, payload : Payload]
  BY <1>2
<1>5. \A f \in heap : f.seq < e.seq
  BY <1>3 DEF HeapInv
<1>6. Heap(heap)
  BY DEF HeapInv
<1>7. Heap(heap \cup {e}) /\ Pending(heap \cup {e}) = Push(Pending(heap), Seen(e))
  BY <1>3, <1>5, <1>6, PushInserts
<1> QED
  BY <1>3, <1>4, <1>7

\* ... and every step keeps it.
LEMMA HeapInvStep == HeapInv /\ [Next]_vars => HeapInv'
<1> SUFFICES ASSUME HeapInv, [Next]_vars PROVE HeapInv'
  OBVIOUS
<1>1. next_seq \in Nat /\ MaxPushes \in Nat
  BY SimQueueAssumption DEF HeapInv, TypeOK
<1>2. CASE PushEvent
  <2>1. PICK t \in Time, p \in Payload :
          /\ next_seq < MaxPushes
          /\ heap' = heap \cup {[time |-> t, seq |-> next_seq, payload |-> p]}
          /\ next_seq' = next_seq + 1
          /\ clock' = clock
    BY <1>2 DEF PushEvent
  <2> DEFINE e == [time |-> t, seq |-> next_seq, payload |-> p]
  <2>2. /\ e \in HeapEvents /\ e.seq = next_seq
        /\ e \in [time : Time, seq : 0 .. MaxPushes - 1, payload : Payload]
        /\ Heap(heap \cup {e})
    <3> HIDE DEF e
    <3> QED
      BY <2>1, HeapInvPush DEF e
  <2> HIDE DEF e
  <2>3. heap' = heap \cup {e}
    BY <2>1 DEF e
  <2>4. TypeOK'
    BY <1>1, <2>1, <2>2, <2>3 DEF HeapInv, TypeOK
  <2>5. \A f \in heap : f.seq \in Nat /\ f.seq < next_seq
    BY DEF HeapInv, Heap, HeapEvents
  <2>6. \A f \in heap' : f.seq < next_seq'
    BY <1>1, <2>1, <2>2, <2>3, <2>5
  <2>7. Heap(heap')
    BY <2>2, <2>3
  <2> QED
    BY <2>4, <2>6, <2>7 DEF HeapInv
<1>3. CASE PopEvent
  <2>1. PICK e \in heap : /\ \A f \in heap : ~ Greater(f, e)
                          /\ heap' = heap \ {e}
                          /\ clock' = e.time
                          /\ next_seq' = next_seq
    BY <1>3 DEF PopEvent
  <2>2. Heap(heap')
    BY <2>1, PopTakesFirst DEF HeapInv
  <2>3. e.time \in Time
    BY DEF HeapInv, TypeOK
  <2>4. TypeOK'
    BY <2>1, <2>3 DEF HeapInv, TypeOK
  <2> QED
    BY <2>1, <2>2, <2>4 DEF HeapInv
<1>4. CASE UNCHANGED vars
  BY <1>4 DEF HeapInv, TypeOK, vars
<1> QED
  BY <1>2, <1>3, <1>4 DEF Next

\* The invariant holds in every behaviour.
LEMMA HeapInvariant == Spec => []HeapInv
BY HeapInvInit, HeapInvStep, PTL DEF Spec

\* The heap holds events that were pushed, with numbers below MaxPushes
\* (queue.rs: EventQueue).
THEOREM QueueTypeCorrect == Spec => []TypeOK
<1>1. HeapInv => TypeOK
  BY DEF HeapInv
<1> QED
  BY <1>1, HeapInvariant, PTL

-----------------------------------------------------------------------------
\* The refinement mapping is the list of the heap, and the abstract queue
\* inserts as EventQueue does.
LEMMA StableIsPending ==
  /\ InPopOrder = Pending(heap)
  /\ \A q, x : Stable!Push(q, x) = Push(q, x)
<1>1. InPopOrder = Pending(heap)
  BY DEF InPopOrder, Pending, AllSeen, Seen
<1>2. \A q, x : Stable!Push(q, x) = Push(q, x)
  <2>1. \A S : Stable!Cardinality(S) = Cardinality(S)
    BY DEF Stable!Cardinality, Cardinality
  <2>2. \A q, t : Stable!DueBy(q, t) = DueBy(q, t)
    BY <2>1 DEF Stable!DueBy, DueBy
  <2> QED
    BY <2>2 DEF Stable!Push, Push
<1> QED
  BY <1>1, <1>2

\* An empty heap is an empty queue, ...
LEMMA StableInit == Init => Stable!Init
<1> SUFFICES ASSUME Init PROVE Stable!Init
  OBVIOUS
<1> DEFINE p == Pending(heap)
           n == Cardinality(heap)
           s == InOrder(heap, PopOrder(heap))
<1>1. heap = {} /\ clock = 0 /\ Heap(heap)
  BY HeapInvInit DEF Init, HeapInv
<1>2. n = 0
  BY <1>1, FS_EmptySet
<1>3. p = [i \in 1 .. n |-> Seen(s[i])]
  <2> HIDE DEF p, n, s
  <2>1. Listed(heap, s, n, p)
    BY <1>1, PendingShape DEF p, n, s
  <2> QED
    BY <2>1 DEF Listed
<1> HIDE DEF p, n, s
<1>4. p = <<>>
  BY <1>2, <1>3
<1> QED
  BY <1>1, <1>4, StableIsPending DEF Stable!Init, p

\* ... a push is a push of the stable queue, a pop a pop.
LEMMA StableStep == HeapInv /\ HeapInv' /\ [Next]_vars => [Stable!Next]_<<InPopOrder, clock>>
<1> SUFFICES ASSUME HeapInv, HeapInv', [Next]_vars
             PROVE  Stable!Next \/ UNCHANGED <<InPopOrder, clock>>
  OBVIOUS
<1>1. InPopOrder = Pending(heap) /\ InPopOrder' = Pending(heap')
  BY DEF InPopOrder, Pending, AllSeen, Seen
<1>2. CASE PushEvent
  <2>1. PICK t \in Time, p \in Payload :
          /\ t >= clock
          /\ next_seq < MaxPushes
          /\ heap' = heap \cup {[time |-> t, seq |-> next_seq, payload |-> p]}
          /\ clock' = clock
    BY <1>2 DEF PushEvent
  <2> DEFINE e == [time |-> t, seq |-> next_seq, payload |-> p]
  <2>2. Pending(heap \cup {e}) = Push(Pending(heap), [time |-> t, payload |-> p])
    <3> HIDE DEF e
    <3> QED
      BY <2>1, HeapInvPush DEF e
  <2>3. InPopOrder' = Stable!Push(InPopOrder, [time |-> t, payload |-> p])
    BY <1>1, <2>1, <2>2, StableIsPending
  <2>4. Stable!PushEvent
    BY <2>1, <2>3 DEF Stable!PushEvent
  <2> QED
    BY <2>4 DEF Stable!Next
<1>3. CASE PopEvent
  <2>1. PICK e \in heap : /\ \A f \in heap : ~ Greater(f, e)
                          /\ heap' = heap \ {e}
                          /\ clock' = e.time
    BY <1>3 DEF PopEvent
  <2>2. /\ Pending(heap) # <<>> /\ Head(Pending(heap)).time = e.time
        /\ Pending(heap \ {e}) = Tail(Pending(heap))
    BY <2>1, PopTakesFirst DEF HeapInv
  <2>3. Stable!PopEvent
    BY <1>1, <2>1, <2>2 DEF Stable!PopEvent
  <2> QED
    BY <2>3 DEF Stable!Next
<1>4. CASE UNCHANGED vars
  BY <1>1, <1>4 DEF vars
<1> QED
  BY <1>2, <1>3, <1>4 DEF Next

\* The heap of queue.rs pops in time order and, within a time, in push order:
\* it implements the stable queue, for all times, payloads and lengths.
THEOREM QueueImplementsStable == Spec => ImplementsStableQueue
<1>1. Init => Stable!Init
  BY StableInit
<1>2. HeapInv /\ HeapInv' /\ [Next]_vars => [Stable!Next]_<<InPopOrder, clock>>
  BY StableStep
<1> QED
  BY <1>1, <1>2, HeapInvariant, PTL DEF Spec, ImplementsStableQueue, Stable!Spec

-----------------------------------------------------------------------------
(* The block manager *)

\* The inductive invariant.  BlocksConserved alone is not inductive: without
\* the holders being known requests with natural shares, a step's total says
\* nothing; RoomForGrantedTokens rests on the same shares.
KvInv ==
  /\ Balanced(kv)
  /\ DOMAIN tokens = Holders
  /\ \A r \in Holders : tokens[r] \in Nat
  /\ RoomForGrantedTokens

\* A new manager meets the invariant ...
LEMMA KvInvInit == KvInit => KvInv
<1> SUFFICES ASSUME KvInit PROVE KvInv
  OBVIOUS
<1>1. kv = NewKvCache /\ tokens = Empty
  BY DEF KvInit
<1>2. Holders = {} /\ DOMAIN tokens = {}
  BY <1>1 DEF NewKvCache, Empty, Holders
<1> QED
  BY <1>1, <1>2, NewBalanced DEF KvInv, RoomForGrantedTokens

\* ... a first allocation keeps it ...
LEMMA AllocateKeeps == KvInv /\ AllocateCall => KvInv'
<1> SUFFICES ASSUME KvInv,
                    NEW r \in RequestId \ Holders, NEW n \in TokenCounts,
                    kv' = Allocate(kv, r, n),
                    tokens' = IF r \in DOMAIN kv'.allocated
                              THEN With(tokens, r, n) ELSE tokens
             PROVE  KvInv'
  BY DEF AllocateCall
<1> n \in Nat
  BY KvCallsAssumption
<1>1. /\ Balanced(kv) /\ DOMAIN tokens = Holders
      /\ \A q \in Holders : tokens[q] \in Nat
      /\ RoomForGrantedTokens
  BY DEF KvInv
<1>2. Balanced(kv)'
  BY <1>1, AllocateBalanced DEF Balanced
<1>3. CASE CanFit(kv, n)
  <2>1. kv' = Take(kv, r, BlocksFor(n))
    BY <1>3 DEF Allocate
  <2>2. /\ BlocksFor(n) \in Nat /\ n <= BlocksFor(n) * BlockSize
        /\ BlocksFor(n) <= kv.free_blocks
    BY <1>3, BlocksForHolds DEF CanFit
  <2>3. Held(kv, r) = 0
    BY DEF Held, Holders
  <2>4. /\ Holders' = Holders \cup {r}
        /\ kv'.allocated[r] = BlocksFor(n)
        /\ \A q \in Holders : kv'.allocated[q] = kv.allocated[q]
    BY <1>1, <2>1, <2>2, <2>3, TakeBalanced DEF Holders
  <2>5. tokens' = With(tokens, r, n)
    BY <2>4 DEF Holders
  <2>6. /\ DOMAIN tokens' = Holders'
        /\ tokens'[r] = n
        /\ \A q \in Holders : tokens'[q] = tokens[q]
    BY <1>1, <2>4, <2>5 DEF With
  <2>7. RoomForGrantedTokens'
    <3> SUFFICES ASSUME NEW q \in Holders'
                 PROVE  tokens'[q] <= kv'.allocated[q] * BlockSize
      BY DEF RoomForGrantedTokens
    <3>1. CASE q = r
      BY <3>1, <2>2, <2>4, <2>6
    <3>2. CASE q \in Holders
      BY <3>2, <1>1, <2>4, <2>6 DEF RoomForGrantedTokens
    <3> QED
      BY <3>1, <3>2, <2>4
  <2> QED
    BY <1>1, <1>2, <2>4, <2>6, <2>7 DEF KvInv
<1>4. CASE ~CanFit(kv, n)
  <2>1. kv' = kv
    BY <1>4 DEF Allocate
  <2>2. tokens' = tokens
    BY <2>1 DEF Holders
  <2> QED
    BY <2>1, <2>2, <1>1 DEF KvInv, Holders, RoomForGrantedTokens, Balanced
<1> QED
  BY <1>3, <1>4

\* ... growth of what is held keeps it ...
LEMMA GrowKeeps == KvInv /\ GrowCall => KvInv'
<1> SUFFICES ASSUME KvInv,
                    NEW r \in Holders, NEW n \in TokenCounts,
                    kv' = Grow(kv, r, n),
                    tokens' = IF GrowthBlocks(kv, r, n) <= kv.free_blocks
                              THEN [tokens EXCEPT ![r] = @ + n] ELSE tokens
             PROVE  KvInv'
  BY DEF GrowCall
<1> n \in Nat
  BY KvCallsAssumption
<1>1. /\ Balanced(kv) /\ DOMAIN tokens = Holders
      /\ \A q \in Holders : tokens[q] \in Nat
      /\ RoomForGrantedTokens
  BY DEF KvInv
<1>2. r \in RequestId
  BY <1>1 DEF Balanced, Holders
<1>3. Balanced(kv)'
  BY <1>1, <1>2, GrowBalanced DEF Balanced
<1> DEFINE e == GrowthBlocks(kv, r, n)
<1>4. CASE e <= kv.free_blocks
  <2>1. kv' = Take(kv, r, e)
    BY <1>4 DEF Grow
  <2>2. /\ e \in Nat
        /\ Held(kv, r) * BlockSize + n <= (Held(kv, r) + e) * BlockSize
    BY <1>1, GrowthBlocksHold
  <2> HIDE DEF e
  <2>3. Held(kv, r) = kv.allocated[r]
    BY DEF Held, Holders
  <2>4. /\ Holders' = Holders
        /\ kv'.allocated[r] = Held(kv, r) + e
        /\ \A q \in Holders \ {r} : kv'.allocated[q] = kv.allocated[q]
    <3>1. DOMAIN kv'.allocated = DOMAIN kv.allocated \cup {r}
      BY <1>1, <1>2, <1>4, <2>1, <2>2, TakeBalanced
    <3> QED
      BY <1>1, <1>2, <1>4, <2>1, <2>2, <3>1, TakeBalanced DEF Holders
  <2>5. /\ DOMAIN tokens' = Holders'
        /\ tokens'[r] = tokens[r] + n
        /\ \A q \in Holders \ {r} : tokens'[q] = tokens[q]
    BY <1>1, <1>4, <2>4 DEF e
  <2>6. tokens'[r] <= kv'.allocated[r] * BlockSize
    <3>1. tokens[r] <= Held(kv, r) * BlockSize /\ tokens[r] \in Nat
      BY <1>1, <2>3 DEF RoomForGrantedTokens
    <3>2. /\ Held(kv, r) * BlockSize \in Nat
          /\ (Held(kv, r) + e) * BlockSize \in Nat
      BY <1>1, <2>2, HeldType, KvAssumption
    <3> QED
      BY <2>2, <2>4, <2>5, <3>1, <3>2
  <2>7. RoomForGrantedTokens'
    <3> SUFFICES ASSUME NEW q \in Holders'
                 PROVE  tokens'[q] <= kv'.allocated[q] * BlockSize
      BY DEF RoomForGrantedTokens
    <3>1. CASE q = r
      BY <3>1, <2>6
    <3>2. CASE q \in Holders \ {r}
      BY <3>2, <1>1, <2>4, <2>5 DEF RoomForGrantedTokens
    <3> QED
      BY <3>1, <3>2, <2>4
  <2>8. \A q \in Holders' : tokens'[q] \in Nat
    BY <1>1, <2>4, <2>5
  <2> QED
    BY <1>3, <2>5, <2>7, <2>8 DEF KvInv
<1>5. CASE ~(e <= kv.free_blocks)
  <2>1. kv' = kv /\ tokens' = tokens
    BY <1>5 DEF Grow
  <2> QED
    BY <2>1, <1>1 DEF KvInv, Holders, RoomForGrantedTokens, Balanced
<1> QED
  BY <1>4, <1>5

\* ... and so does freeing.
LEMMA FreeKeeps == KvInv /\ FreeCall => KvInv'
<1> SUFFICES ASSUME KvInv,
                    NEW r \in Holders,
                    kv' = Free(kv, {r}), tokens' = Without(tokens, r)
             PROVE  KvInv'
  BY DEF FreeCall
<1>1. /\ Balanced(kv) /\ DOMAIN tokens = Holders
      /\ \A q \in Holders : tokens[q] \in Nat
      /\ RoomForGrantedTokens
  BY DEF KvInv
<1>2. /\ Balanced(kv)'
      /\ Holders' = Holders \ {r}
      /\ \A q \in Holders \ {r} : kv'.allocated[q] = kv.allocated[q]
  BY <1>1, FreeBalanced DEF Holders, Balanced
<1>3. /\ DOMAIN tokens' = Holders'
      /\ \A q \in Holders' : tokens'[q] = tokens[q]
  BY <1>1, <1>2 DEF Without
<1> QED
  BY <1>1, <1>2, <1>3 DEF KvInv, RoomForGrantedTokens

\* Every call, granted or refused, keeps the invariant.
LEMMA KvInvNext == KvInv /\ [KvNext]_kv_vars => KvInv'
<1> SUFFICES ASSUME KvInv, [KvNext]_kv_vars PROVE KvInv'
  OBVIOUS
<1>1. CASE AllocateCall
  BY <1>1, AllocateKeeps
<1>2. CASE GrowCall
  BY <1>2, GrowKeeps
<1>3. CASE FreeCall
  BY <1>3, FreeKeeps
<1>4. CASE UNCHANGED kv_vars
  BY <1>4 DEF kv_vars, KvInv, Balanced, Holders, RoomForGrantedTokens
<1> QED
  BY <1>1, <1>2, <1>3, <1>4 DEF KvNext

\* The invariant holds under every sequence of calls.
LEMMA KvInvAlways == KvSpec => []KvInv
<1> QED
  BY KvInvInit, KvInvNext, PTL DEF KvSpec

-----------------------------------------------------------------------------
\* The counter stays between 0 and the pool and every share within it: the
\* unsigned subtractions of allocate and grow never wrap.
THEOREM KvTypeCorrect == KvSpec => []KvTypeOK
<1>1. KvInv => KvTypeOK
  BY WithinPool DEF KvInv, KvTypeOK, Holders, Balanced
<1> QED
  BY <1>1, KvInvAlways, PTL

\* Whatever the pool, the block size and the order of calls, no block is lost
\* or handed out twice.
THEOREM KvBlocksConserved == KvSpec => []BlocksConserved
<1>1. KvInv => BlocksConserved
  BY DEF KvInv, Balanced, BlocksConserved, Holders
<1> QED
  BY <1>1, KvInvAlways, PTL

\* Whatever mix of allocate and grow a request went through, its blocks hold
\* every token it was granted, although grow measures what is held in blocks.
THEOREM KvRoomForGrantedTokens == KvSpec => []RoomForGrantedTokens
<1>1. KvInv => RoomForGrantedTokens
  BY DEF KvInv
<1> QED
  BY <1>1, KvInvAlways, PTL
=============================================================================
