----------------------------- MODULE StableQueue ----------------------------
(***************************************************************************)
(* What an event queue promises the dispatch loop: pushing anything that   *)
(* is not in the past, popping in time order, ties in push order.          *)
(***************************************************************************)
EXTENDS EventQueue

CONSTANTS Time,     \* the times at which events may be pushed
          Payload   \* what events carry

VARIABLES pending,  \* the events pushed and not popped, in pop order
          clock     \* the time of the event popped last

Init == pending = <<>> /\ clock = 0

PushEvent ==
  \E t \in Time, p \in Payload :
    /\ t >= clock
    /\ pending' = Push(pending, [time |-> t, payload |-> p])
    /\ UNCHANGED clock

PopEvent ==
  /\ pending # <<>>
  /\ clock' = Head(pending).time
  /\ pending' = Tail(pending)

Next == PushEvent \/ PopEvent

Spec == Init /\ [][Next]_<<pending, clock>>
=============================================================================
