------------------------------ MODULE RunReport -----------------------------
(***************************************************************************)
(* What a run leaves behind: the end of Simulator::run (engine/sim.rs) and *)
(* the summary made of the counters (metrics/collector.rs, to_summary),    *)
(* with the energy and the cost of the run (hardware/power.rs and cost.rs).*)
(* Powers are in hundredths, so that the coefficients are whole; energy is *)
(* power times microseconds, cost is the price per hour times them.        *)
(***************************************************************************)
EXTENDS MeteredSimulator, Fractions

CONSTANT Deployments  \* what runs are priced with

\* What the command line takes for a number: a degree may be 0.
ASSUME DeploymentsAssumption ==
  Deployments \subseteq [tp : Nat, pp : Nat, ep : Nat,
                         tdp_watts : Nat, cost_per_hour : Nat]

VARIABLES
  deployment,  \* what the run is priced with
  summary      \* the RunSummary, None while the simulation runs

report == <<deployment, summary>>

PrefillCoef == 90
DecodeCoef == 65
IdleCoef == 35

-----------------------------------------------------------------------------
(* power::compute_report and cost::compute_report *)

PerUnit(total, n) == IF n > 0 THEN Frac(total, n) ELSE Zero

NoPower == [total_energy |-> 0, mean_power |-> Zero, energy_per_token |-> Zero,
            energy_per_request |-> Zero]

\* Mutant of IdleSecs: signed, work beyond the end of the run counts against it.
IdleSecs_Signed(total_chip_secs, active_secs) == total_chip_secs - active_secs

\* Chips have no negative idle time, though more may be charged than fits the run.
IdleSecs(total_chip_secs, active_secs) == SatSub(total_chip_secs, active_secs)

PowerReport(prefill_secs, decode_secs, sim_duration, n_chips, tdp_watts, tokens, served) ==
  LET idle_secs == IdleSecs(sim_duration * n_chips, prefill_secs + decode_secs)
      total == tdp_watts * (prefill_secs * PrefillCoef + decode_secs * DecodeCoef
                              + idle_secs * IdleCoef)
  IN  IF 0 \in {tdp_watts, sim_duration, n_chips} THEN NoPower
      ELSE [total_energy |-> total, mean_power |-> Frac(total, sim_duration),
            energy_per_token |-> PerUnit(total, tokens),
            energy_per_request |-> PerUnit(total, served)]

NoCost == [total_cost |-> 0, cost_per_token |-> Zero, cost_per_request |-> Zero,
           cluster_cost_per_hour |-> 0]

CostReport(sim_duration, n_chips, cost_per_hour, tokens, served) ==
  LET total == n_chips * sim_duration * cost_per_hour
  IN  IF 0 \in {cost_per_hour, sim_duration, n_chips} THEN NoCost
      ELSE [total_cost |-> total, cost_per_token |-> PerUnit(total, tokens),
            cost_per_request |-> PerUnit(total, served),
            cluster_cost_per_hour |-> cost_per_hour * n_chips]

-----------------------------------------------------------------------------
(* to_summary *)

\* Tensor and expert groups share their GPUs; prefill and decode may not.
NChips(d, disaggregate) ==
  Greatest(d.tp, d.ep) * d.pp * (IF disaggregate THEN 2 ELSE 1)

ToSummary(sim_duration) ==
  LET d == deployment
      n_chips == NChips(d, config.disaggregate)
  IN  [n_chips |-> n_chips, duration |-> sim_duration,
       throughput |-> PerUnit(metrics.completions, sim_duration),
       token_throughput |-> PerUnit(metrics.tokens_generated, sim_duration),
       power |-> PowerReport(metrics.prefill_busy_secs, metrics.decode_busy_secs,
                             sim_duration, n_chips, d.tdp_watts,
                             metrics.tokens_generated, metrics.completions),
       cost |-> CostReport(sim_duration, n_chips, d.cost_per_hour,
                           metrics.tokens_generated, metrics.completions)]

ReportInit == MeteredInit /\ deployment \in Deployments /\ summary = None

\* The horizon is what is left of it and the time that has passed.
Until == clock + left

Summarise ==
  /\ ended \/ queue = <<>>
  /\ summary = None /\ left # Forever
  /\ summary' = ToSummary(Until)
  /\ UNCHANGED <<vars, meters, deployment>>

ReportNext == Summarise \/ (MeteredNext /\ UNCHANGED report)

ReportSpec == ReportInit /\ [][ReportNext]_<<vars, meters, report>>

-----------------------------------------------------------------------------
(* What a report owes to the run *)

\* How far the work begun by the horizon goes beyond it.
Overrun == SatSub(Greatest(busy["prefill"], busy["decode"]), left)

\* The energy of a cluster, unless it has no chips, is no less than that of the
\* cluster standing idle all along, and no more than that of all its chips at
\* full prefill power: for as long as the run and what it began took, since work
\* in progress at the horizon is charged in full, and on every pool, since two
\* of them work at once.  Work is never set off against idle time (run,
\* to_summary, compute_report).
EnergyWithinEnvelope ==
  (/\ summary # None
   /\ summary.n_chips > 0 /\ deployment.tdp_watts > 0 /\ summary.duration > 0) =>
    LET chip_power == summary.n_chips * deployment.tdp_watts
        worked == metrics.prefill_busy_secs + metrics.decode_busy_secs
        energy == summary.power.total_energy
    IN  /\ energy >= IdleCoef * chip_power * summary.duration
        /\ energy >= deployment.tdp_watts * DecodeCoef * worked
        /\ energy <= PrefillCoef * chip_power * (summary.duration + Overrun)
=============================================================================
