------------------------------- MODULE MCStudy ------------------------------
(***************************************************************************)
(* Command lines with studies of up to eight points.                       *)
(***************************************************************************)
EXTENDS Study

MCSystemGpu == [s \in {"dgx-h100", "dgx-b200"} |-> IF s = "dgx-h100" THEN "h100" ELSE "b200"]

Defaults ==
  [system |-> "none", gpu |-> "h100", model |-> "llama-70b", tp |-> 1, arrival_rate |-> 5,
   scheduler |-> "continuous-batch", workload |-> "synthetic",
   gpus_per_node |-> 4, scale_out_fabric |-> "none", scale_out_bw |-> 0,
   spec_tokens |-> 0, mtp_heads |-> 0, output |-> "text",
   study_models |-> NotGiven, study_gpus |-> NotGiven, study_systems |-> NotGiven,
   study_tps |-> NotGiven, study_arrival_rates |-> NotGiven,
   sweep_arrival_rates |-> NotGiven,
   html |-> FALSE, json_out |-> FALSE, validate_kernels |-> FALSE]

Length(list) == IF list = NotGiven THEN 1 ELSE Len(list)

\* Studies of at most four points, so that every two of the lists vary together.
StudyLines ==
  {line \in
     {[Defaults EXCEPT !.study_models = models, !.study_tps = tps,
                       !.study_arrival_rates = rates, !.study_gpus = gpus,
                       !.study_systems = systems, !.html = html, !.json_out = json_out] :
        models  \in {NotGiven, <<"llama-8b", "mixtral">>, <<"llama-8b", "unknown">>},
        tps     \in {NotGiven, <<1, 8>>, <<1, NotANumber>>, <<>>},
        rates   \in {NotGiven, <<1, 5>>, <<NotANumber, 5>>},
        gpus    \in {NotGiven, <<"h200", "h100">>},
        systems \in {NotGiven, <<"dgx-b200", "dgx-h100">>, <<"dgx-h100", "none">>,
                     <<"dgx-h100", "unknown">>},
        html \in BOOLEAN, json_out \in BOOLEAN} :
     Length(line.study_models) * Length(line.study_tps)
       * Length(line.study_arrival_rates)
       * (IF line.study_systems # NotGiven THEN 2 ELSE Length(line.study_gpus)) <= 4}

LargeStudy ==
  [Defaults EXCEPT !.study_models = <<"llama-8b", "mixtral">>, !.study_tps = <<1, 8>>,
                   !.study_arrival_rates = <<1, 5>>, !.json_out = TRUE]

\* Machines beside a machine, with and without a network of the user's.
NodeLines ==
  {[Defaults EXCEPT !.system = "dgx-b200", !.study_gpus = gpus, !.study_systems = systems,
                    !.scale_out_bw = bw, !.study_tps = tps, !.json_out = TRUE] :
     gpus    \in {NotGiven, <<"h200", "h100">>},
     systems \in {NotGiven, <<"dgx-h100", "dgx-b200">>, <<"none", "dgx-h100">>},
     bw \in {0, 50}, tps \in {NotGiven, <<1, 8>>}}

\* Each of these varied with the mode: single run, sweep, study.
ModeLines ==
  {[Defaults EXCEPT !.sweep_arrival_rates = sweep, !.study_gpus = gpus] :
     sweep \in {NotGiven, <<5, 1, 10>>, <<NotANumber, 5>>, <<NotANumber>>},
     gpus  \in {NotGiven, <<"h200", "h100">>}}

MCCommandLines ==
  StudyLines \cup NodeLines \cup {LargeStudy} \cup
  UNION {{[line EXCEPT !.system = system] : system \in {"dgx-b200", "unknown"}}
           \cup {[line EXCEPT !.gpu = "unknown", !.output = output] :
                   output \in {"text", "json"}}
           \cup {[line EXCEPT !.spec_tokens = 4, !.mtp_heads = heads, !.workload = workload] :
                   heads \in {0, 2}, workload \in {"synthetic", "unknown"}}
           \cup {[line EXCEPT !.scale_out_bw = 50, !.system = "dgx-b200"],
                 [line EXCEPT !.validate_kernels = TRUE]}
           : line \in ModeLines}
=============================================================================
