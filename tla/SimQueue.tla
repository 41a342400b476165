------------------------------ MODULE SimQueue ------------------------------
(***************************************************************************)
(* engine/queue.rs and the ordering of engine/event.rs: a binary max-heap  *)
(* of events compared by reversed time and then reversed push number.  The *)
(* heap is the set of its events: BinaryHeap::pop is only promised to give *)
(* back one that no other event is greater than.  Callers push at or after *)
(* the clock, which is the time of the event popped last (Simulator::run). *)
(***************************************************************************)
EXTENDS Sequences, Tally

CONSTANTS Time,      \* the times at which events may be pushed
          Payload,   \* what events carry
          MaxPushes  \* bound of a check: how many pushes a behaviour makes

ASSUME SimQueueAssumption == Time \subseteq Nat /\ MaxPushes \in Nat

VARIABLES heap,      \* the events in the heap
          next_seq,  \* the number the next push gets
          clock

vars == <<heap, next_seq, clock>>

\* Mutant of Greater: the push numbers are not reversed.
Greater_NewestFirst(e, f) ==
  e.time < f.time \/ (e.time = f.time /\ e.seq > f.seq)

\* Ord::cmp: reversed time, then reversed seq.
Greater(e, f) == e.time < f.time \/ (e.time = f.time /\ e.seq < f.seq)

Init == heap = {} /\ next_seq = 0 /\ clock = 0

\* Mutant of PushEvent: the push number is read after it was counted up.
PushEvent_CountsFirst ==
  \E t \in Time, p \in Payload :
    /\ t >= clock
    /\ next_seq < MaxPushes
    /\ heap' = heap \cup {[time |-> t, seq |-> next_seq + 1, payload |-> p]}
    /\ next_seq' = next_seq + 1
    /\ UNCHANGED clock

PushEvent ==
  \E t \in Time, p \in Payload :
    /\ t >= clock
    /\ next_seq < MaxPushes
    /\ heap' = heap \cup {[time |-> t, seq |-> next_seq, payload |-> p]}
    /\ next_seq' = next_seq + 1
    /\ UNCHANGED clock

PopEvent ==
  \E e \in heap :
    /\ \A f \in heap : ~ Greater(f, e)
    /\ heap' = heap \ {e}
    /\ clock' = e.time
    /\ UNCHANGED next_seq

Next == PushEvent \/ PopEvent

Spec == Init /\ [][Next]_vars

TypeOK ==
  /\ heap \subseteq [time : Time, seq : 0 .. MaxPushes - 1, payload : Payload]
  /\ next_seq \in 0 .. MaxPushes
  /\ clock \in Time \cup {0}

-----------------------------------------------------------------------------
\* The pairs of events of H whose first is the greater one.
PopOrder(H) == {p \in H \X H : Greater(p[1], p[2])}

\* The heap's events from greatest to least, without their push numbers.
InPopOrder ==
  LET s == InOrder(heap, PopOrder(heap))
  IN  [i \in DOMAIN s |-> [time |-> s[i].time, payload |-> s[i].payload]]

Stable == INSTANCE StableQueue WITH pending <- InPopOrder

\* Implements the stable queue: time order, and push order within a time.
\* The push number of queue.rs:25 and the two reversals of event.rs:41-48 are
\* what it rests on.
ImplementsStableQueue == Stable!Spec
=============================================================================
