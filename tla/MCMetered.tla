------------------------------ MODULE MCMetered -----------------------------
(***************************************************************************)
(* Workloads and deployments for model checking the metered simulator and  *)
(* its report.                                                             *)
(***************************************************************************)
EXTENDS RunReport, MCSimulator

\* One chip in each pool, and one that is neither powered nor paid for.
MCDeployments ==
  {[tp |-> 1, pp |-> 1, ep |-> 1, tdp_watts |-> watts, cost_per_hour |-> watts] :
     watts \in {0, 7}}
=============================================================================
