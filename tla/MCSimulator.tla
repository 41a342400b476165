----------------------------- MODULE MCSimulator ----------------------------
(***************************************************************************)
(* Workloads for model checking the simulator.                             *)
(***************************************************************************)
EXTENDS SimulatorProperties

CONSTANTS Prompts, Outputs, Arrivals   \* the values of a request's fields

\* Every workload with these field values whose requests arrive in order.
AllWorkloads ==
  {w \in [RequestId -> [prompt : Prompts, output : Outputs, arrival : Arrivals]] :
     \A r, s \in RequestId : r <= s => w[r].arrival <= w[s].arrival}

\* Both schedulers, on one GPU and disaggregated.
AllConfigs == Config
ContinuousConfigs == {c \in Config : c.scheduler = "continuous"}
ChunkedConfigs == {c \in Config : c.scheduler = "chunked"}
=============================================================================
