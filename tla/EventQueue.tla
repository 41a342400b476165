----------------------------- MODULE EventQueue -----------------------------
(***************************************************************************)
(* The order in which SimQueue hands out events, as operators on a         *)
(* sequence: by time, and first pushed first among events of one time.     *)
(* SimQueue.tla models the heap with sequence numbers that the code keeps  *)
(* and is checked to implement this order; Simulator.tla uses it with      *)
(* times counted from the simulator's clock.                               *)
(***************************************************************************)
EXTENDS Naturals, Sequences, FiniteSets

\* How many events of q are due no later than t.
DueBy(q, t) == Cardinality({i \in DOMAIN q : q[i].time <= t})

\* Mutant of Push: first in, first out, whatever the times.
Push_AtEnd(q, e) == Append(q, e)

\* Pushes e: behind every event due no later than e, before every other one.
Push(q, e) ==
  LET k == DueBy(q, e.time)
  IN  [i \in 1 .. Len(q) + 1 |-> IF i <= k THEN q[i]
                                 ELSE IF i = k + 1 THEN e ELSE q[i - 1]]

\* The events are in the order in which they are handed out.
Ordered(q) == \A i, j \in DOMAIN q : i <= j => q[i].time <= q[j].time

\* The events left by a pop, with times counted from the popped event's time.
AfterPop(q) ==
  [i \in 1 .. Len(q) - 1 |-> [q[i + 1] EXCEPT !.time = @ - Head(q).time]]
=============================================================================
