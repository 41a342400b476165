------------------------------ MODULE MCObserved ----------------------------
(***************************************************************************)
(* Workloads for model checking the observed simulator.                    *)
(***************************************************************************)
EXTENDS ObservedSimulator, MCSimulator
=============================================================================
