-------------------------- MODULE RequestLifecycle --------------------------
(***************************************************************************)
(* What the simulator promises each request, without events, time or       *)
(* scheduling policy: it waits until memory for all of its tokens is set   *)
(* aside, runs through its phases with that memory, and can lose it only   *)
(* to a preemption that sends it back to wait.                             *)
(***************************************************************************)
EXTENDS Tally

CONSTANTS RequestId, TotalBlocks

VARIABLES phase,        \* the phase of each request
          need,         \* the blocks that each request needs
          disaggregate  \* whether its memory moves before it decodes

vars == <<phase, need, disaggregate>>

In(p) == {r \in RequestId : phase[r] = p}
InFlight == In("prefilling") \cup In("transferring") \cup In("decoding")

Init ==
  /\ phase = [r \in RequestId |-> "unarrived"]
  /\ need \in [RequestId -> Nat]
  /\ disaggregate \in BOOLEAN

\* The members of S, all in one of the phases from, move on to phase to.
Move(S, from, to) ==
  /\ S \subseteq In(from)
  /\ phase' = [r \in RequestId |-> IF r \in S THEN to ELSE phase[r]]
  /\ UNCHANGED <<need, disaggregate>>

Arrive(r) == Move({r}, "unarrived", "waiting")

Admit(S) ==
  /\ Move(S, "waiting", "prefilling")
  /\ Total(InFlight \cup S, need) <= TotalBlocks

EndPrefill(r) ==
  Move({r}, "prefilling", IF disaggregate THEN "transferring" ELSE "decoding")

EndTransfer(r) == Move({r}, "transferring", "decoding")

Complete(S) == Move(S, "decoding", "done")

\* Only for the sake of a request in line, only when no block is free, and
\* never while a request with a greater need decodes.
Preempt(r) ==
  /\ Move({r}, "decoding", "waiting")
  /\ In("waiting") # {}
  /\ Total(InFlight, need) = TotalBlocks
  /\ \A s \in In("decoding") : need[s] <= need[r]

Next ==
  \/ \E r \in RequestId : Arrive(r) \/ EndPrefill(r) \/ EndTransfer(r) \/ Preempt(r)
  \/ \E S \in SUBSET RequestId : Admit(S) \/ Complete(S)

Spec == Init /\ [][Next]_vars
=============================================================================
