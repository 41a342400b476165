-------------------------------- MODULE Study -------------------------------
(***************************************************************************)
(* The command line: one simulation, a sweep over arrival rates, or a      *)
(* study of every combination of models, TP degrees, rates and machines.   *)
(* The simulations of a sweep or a study run on a pool of threads, begin   *)
(* and end in any order, and may panic; what they return is reported in    *)
(* the order of the command line.  Source: src/src/main.rs.                *)
(***************************************************************************)
EXTENDS Integers, FiniteSets, SequencesExt

CONSTANTS
  CommandLines,  \* the parsed command lines considered
  SystemGpu,     \* the accelerator of each system preset
  Unknown,       \* names that are no preset, and paths that are no trace
  Threads,       \* threads of the pool
  NotGiven,      \* an option left out
  NotANumber,    \* an item of a list that does not parse
  Untouched,     \* output as it was before the program started
  Cut            \* a file whose writing failed halfway

ASSUME ThreadsAssumption == Threads \in Nat \ {0}

\* The options that a simulation depends on, and those that are lists.
Options == {"system", "gpu", "model", "tp", "arrival_rate", "scheduler", "workload",
            "gpus_per_node", "scale_out_fabric", "scale_out_bw", "spec_tokens",
            "mtp_heads"}
ListOptions == {"study_models", "study_gpus", "study_systems", "study_tps",
                "study_arrival_rates"}

IsList(list) == Len(list) \in Nat /\ DOMAIN list = 1 .. Len(list)

ASSUME CommandLinesAssumption ==
  \A line \in CommandLines :
    /\ Options \cup ListOptions \subseteq DOMAIN line
    /\ \A list \in ListOptions : line[list] # NotGiven => IsList(line[list])

VARIABLES
  command,    \* the command line as typed
  phase,      \* what main is doing
  points,     \* the simulations to run, each with its arguments and rate
  status,     \* of each point: "waiting", "running" or "ended"
  results,    \* the summaries returned, by point
  written,     \* content of the JSON file, the HTML file and standard output
  exit_code   \* "none" while the program runs

vars == <<command, phase, points, status, results, written, exit_code>>

-----------------------------------------------------------------------------
(***************************************************************************)
(* The arguments                                                           *)
(***************************************************************************)

KnownSystem(system) == system \in {"none"} \cup DOMAIN SystemGpu

\* A preset replaces accelerator and node; a fabric of the user's stays.
WithSystemPreset(args) ==
  IF args.system = "none" THEN args
  ELSE [args EXCEPT
          !.gpu = SystemGpu[args.system],
          !.gpus_per_node = 8,
          !.scale_out_fabric =
             IF @ = "none" /\ args.scale_out_bw = 0 THEN "ndr-400" ELSE @]

Args == WithSystemPreset(command)

\* A fallback is one name or number: names with commas are not considered.
Items(list, fallback) == IF list = NotGiven THEN <<fallback>> ELSE list

IsStudyMode ==
  \/ command.study_models # NotGiven \/ command.study_gpus # NotGiven
  \/ command.study_systems # NotGiven \/ command.study_tps # NotGiven
  \/ command.study_arrival_rates # NotGiven
  \/ command.html \/ command.json_out

-----------------------------------------------------------------------------
(***************************************************************************)
(* The points of a study: machines vary fastest, models slowest            *)
(***************************************************************************)

Models   == Items(Args.study_models, Args.model)
Tps      == Items(Args.study_tps, Args.tp)
Rates    == Items(Args.study_arrival_rates, Args.arrival_rate)
Systems  == IF Args.study_systems = NotGiven THEN <<>> ELSE Args.study_systems
Machines == IF Systems # <<>> THEN Systems ELSE Items(Args.study_gpus, Args.gpu)

GpuPoint(args, gpu) == [args EXCEPT !.gpu = gpu, !.system = "none"]

\* Mutant of SystemPoint: the preset of the command line instead of the point's.
SystemPoint_PresetFirst(args, system) ==
  [WithSystemPreset(args) EXCEPT !.system = system]

SystemPoint(args, system) == WithSystemPreset([args EXCEPT !.system = system])

StudyPoint(model, tp, rate, machine) ==
  LET args == [Args EXCEPT !.model = model, !.tp = tp, !.arrival_rate = rate]
  IN  [args |-> IF Systems = <<>> THEN GpuPoint(args, machine)
                ELSE SystemPoint(args, machine),
       rate |-> rate]

StudyPoints ==
  FlattenSeq([m \in DOMAIN Models |->
    FlattenSeq([t \in DOMAIN Tps |->
      FlattenSeq([r \in DOMAIN Rates |->
        [x \in DOMAIN Machines |->
           StudyPoint(Models[m], Tps[t], Rates[r], Machines[x])]])])])

\* Lists of numbers are parsed first; a system is looked at in the innermost
\* loop, which an empty list never reaches.
StudyListsPanic ==
  \/ NotANumber \in Range(Tps) \cup Range(Rates)
  \/ /\ Models # <<>> /\ Tps # <<>> /\ Rates # <<>>
     /\ \E system \in Range(Systems) : ~KnownSystem(system)

\* Rates that do not parse are left out of a sweep.
SweepPoints ==
  LET IsRate(rate) == rate # NotANumber
      rates == SelectSeq(command.sweep_arrival_rates, IsRate)
  IN  [i \in DOMAIN rates |-> [args |-> Args, rate |-> rates[i]]]

-----------------------------------------------------------------------------
(***************************************************************************)
(* One simulation                                                          *)
(***************************************************************************)

UnknownPreset(args) ==
  Unknown \cap {args.gpu, args.model, args.scheduler, args.scale_out_fabric} # {}

\* How run_once ends: it looks up the presets, rejects a draft model beside MTP
\* heads by exiting the program, loads the trace, and simulates.
Outcome(args) ==
  CASE UnknownPreset(args) -> "panics"
    [] ~UnknownPreset(args) /\ args.spec_tokens > 0 /\ args.mtp_heads > 0 -> "exits"
    [] OTHER -> IF args.workload \in Unknown THEN "panics" ELSE "returns"

\* What the summary says it is of, and what its figures depend on.
Summary(point) ==
  [model |-> point.args.model, gpu |-> point.args.gpu, tp |-> point.args.tp,
   arrival_rate |-> point.rate,
   simulated |-> <<point.args.scheduler, point.args.workload, point.args.gpus_per_node,
                   point.args.scale_out_fabric, point.args.scale_out_bw,
                   point.args.spec_tokens, point.args.mtp_heads>>]

-----------------------------------------------------------------------------
(***************************************************************************)
(* main                                                                    *)
(***************************************************************************)

Init ==
  /\ command \in CommandLines
  /\ phase = "main"
  /\ points = <<>> /\ status = <<>> /\ results = <<>>
  /\ written = [json |-> Untouched, html |-> Untouched, stdout |-> Untouched]
  /\ exit_code = "none"

Exit(code) == phase' = "exited" /\ exit_code' = code

Run(pts) ==
  /\ phase' = "running"
  /\ points' = pts
  /\ status' = [i \in DOMAIN pts |-> "waiting"]
  /\ UNCHANGED <<command, results, written, exit_code>>

\* Text output outside of a study starts with the model card, which needs the
\* presets.
CardPanics ==
  ~IsStudyMode /\ command.output = "text"
    /\ Unknown \cap {Args.gpu, Args.model, Args.scale_out_fabric} # {}

StartPanics ==
  /\ phase = "main"
  /\ \/ ~KnownSystem(command.system)
     \/ /\ KnownSystem(command.system) /\ ~command.validate_kernels
        /\ CardPanics \/ (IsStudyMode /\ StudyListsPanic)
  /\ Exit("panic")
  /\ UNCHANGED <<command, points, status, results, written>>

ValidateKernels ==
  /\ phase = "main" /\ KnownSystem(command.system)
  /\ command.validate_kernels
  /\ Exit("success")
  /\ UNCHANGED <<command, points, status, results, written>>

Starts == phase = "main" /\ KnownSystem(command.system) /\ ~command.validate_kernels

StartStudy ==
  /\ Starts /\ IsStudyMode /\ ~StudyListsPanic
  /\ Run(StudyPoints)

StartSweep ==
  /\ Starts /\ ~IsStudyMode /\ ~CardPanics
  /\ command.sweep_arrival_rates # NotGiven
  /\ SweepPoints # <<>>
  /\ Run(SweepPoints)

SweepNothing ==
  /\ Starts /\ ~IsStudyMode /\ ~CardPanics
  /\ command.sweep_arrival_rates # NotGiven
  /\ SweepPoints = <<>>
  /\ Exit("failure")
  /\ UNCHANGED <<command, points, status, results, written>>

StartSingle ==
  /\ Starts /\ ~IsStudyMode /\ ~CardPanics
  /\ command.sweep_arrival_rates = NotGiven
  /\ Run(<<[args |-> Args, rate |-> Args.arrival_rate]>>)

-----------------------------------------------------------------------------
(***************************************************************************)
(* The pool                                                                *)
(***************************************************************************)

RunningPoints == {i \in DOMAIN points : status[i] = "running"}

\* After a panic the pool may or may not begin what is still waiting.
BeginPoint(i) ==
  /\ phase \in {"running", "unwinding"}
  /\ status[i] = "waiting"
  /\ Cardinality(RunningPoints) < Threads
  /\ status' = [status EXCEPT ![i] = "running"]
  /\ UNCHANGED <<command, phase, points, results, written, exit_code>>

EndPoint(i, outcome) ==
  /\ phase \in {"running", "unwinding"}
  /\ status[i] = "running" /\ Outcome(points[i].args) = outcome
  /\ status' = [status EXCEPT ![i] = "ended"]
  /\ UNCHANGED <<command, points, written>>

ReturnPoint(i) ==
  /\ EndPoint(i, "returns")
  /\ results' = [j \in DOMAIN results \cup {i} |->
                   IF j = i THEN Summary(points[i]) ELSE results[j]]
  /\ UNCHANGED <<phase, exit_code>>

PanicPoint(i) ==
  /\ EndPoint(i, "panics")
  /\ phase' = "unwinding"
  /\ UNCHANGED <<results, exit_code>>

\* process::exit on one thread stops all of them.
ExitPoint(i) ==
  /\ EndPoint(i, "exits")
  /\ Exit("failure")
  /\ UNCHANGED results

Unwind ==
  /\ phase = "unwinding" /\ RunningPoints = {}
  /\ Exit("panic")
  /\ UNCHANGED <<command, points, status, results, written>>

\* The summaries in the order of their points.
Report == [i \in DOMAIN points |-> results[i]]

-----------------------------------------------------------------------------
(***************************************************************************)
(* Output                                                                  *)
(***************************************************************************)

Collect ==
  /\ phase = "running" /\ \A i \in DOMAIN points : status[i] = "ended"
  /\ phase' = IF IsStudyMode THEN "json" ELSE "print"
  /\ UNCHANGED <<command, points, status, results, written, exit_code>>

NextPhase == [json |-> "html", html |-> "print"]

Requested(file) == IF file = "json" THEN command.json_out ELSE command.html

SkipFile(file) ==
  /\ phase = file /\ ~Requested(file)
  /\ phase' = NextPhase[file]
  /\ UNCHANGED <<command, points, status, results, written, exit_code>>

WriteFile(file) ==
  /\ phase = file /\ Requested(file)
  /\ written' = [written EXCEPT ![file] = Report]
  /\ phase' = NextPhase[file]
  /\ UNCHANGED <<command, points, status, results, exit_code>>

\* Mutant of FailFile: a failed write is logged and the program goes on.
FailFile_GoesOn(file) ==
  /\ phase = file /\ Requested(file)
  /\ \E content \in {Untouched, Cut} : written' = [written EXCEPT ![file] = content]
  /\ phase' = NextPhase[file]
  /\ UNCHANGED <<command, points, status, results, exit_code>>

\* Directory or file cannot be made, or the disk fills.
FailFile(file) ==
  /\ phase = file /\ Requested(file)
  /\ \E content \in {Untouched, Cut} : written' = [written EXCEPT ![file] = content]
  /\ Exit("failure")
  /\ UNCHANGED <<command, points, status, results>>

\* A study with files prints none of its results.
PrintReport ==
  /\ phase = "print"
  /\ written' = IF Requested("json") \/ Requested("html") THEN written
               ELSE [written EXCEPT !.stdout = Report]
  /\ Exit("success")
  /\ UNCHANGED <<command, points, status, results>>

Exited == phase = "exited" /\ UNCHANGED vars

Next ==
  \/ StartPanics \/ ValidateKernels
  \/ StartStudy \/ StartSweep \/ SweepNothing \/ StartSingle
  \/ \E i \in DOMAIN points :
       BeginPoint(i) \/ ReturnPoint(i) \/ PanicPoint(i) \/ ExitPoint(i)
  \/ Unwind \/ Collect
  \/ \E file \in {"json", "html"} : SkipFile(file) \/ WriteFile(file) \/ FailFile(file)
  \/ PrintReport
  \/ Exited

Spec == Init /\ [][Next]_vars

-----------------------------------------------------------------------------
(***************************************************************************)
(* Properties                                                              *)
(***************************************************************************)

\* The command line that asks for combination i of a study alone: the digits
\* of i - 1 number its machine, rate, TP degree and model.  A system of the list
\* stands in for the one of the command line; an accelerator of the list is put
\* into the node of that one, which keeps its size and its fabric.
AskedAlone(i) ==
  LET machine == Machines[((i - 1) % Len(Machines)) + 1]
      rest    == (i - 1) \div Len(Machines)
      line    == [command EXCEPT
                    !.arrival_rate = Rates[(rest % Len(Rates)) + 1],
                    !.tp = Tps[((rest \div Len(Rates)) % Len(Tps)) + 1],
                    !.model = Models[(rest \div (Len(Rates) * Len(Tps))) + 1]]
      node    == WithSystemPreset(line)
      alone   == IF Systems = <<>> THEN [node EXCEPT !.gpu = machine]
                 ELSE IF machine = "none" THEN node
                 ELSE WithSystemPreset([line EXCEPT !.system = machine])
  IN  [args |-> alone, rate |-> alone.arrival_rate]

StudySize == Len(Models) * Len(Tps) * Len(Rates) * Len(Machines)

\* A study reports, in the order of the command line and whatever the order
\* in which its simulations end, for every combination exactly what the
\* program reports when it is asked for that combination alone: no point
\* inherits anything of another one, and of a --system beside the lists it
\* keeps the node alone (run_study, the par_iter it ends with,
\* apply_system_preset).
ReportIsTheSingleRuns ==
  IsStudyMode =>
    \A content \in Range(written) \ {Untouched, Cut} :
      content = [i \in 1..StudySize |-> Summary(AskedAlone(i))]

\* Nothing is written or printed unless every simulation returned; the HTML
\* report never appears without the JSON file asked for beside it; and success
\* means that everything asked for is there in full (main, write_study_outputs,
\* process::exit and panics in run_once).
ReportsAreComplete ==
  /\ Range(written) # {Untouched} => DOMAIN results = DOMAIN points
  /\ written.html # Untouched /\ command.json_out => written.json = Report
  /\ exit_code = "success" /\ ~command.validate_kernels =>
       /\ \A file \in {"json", "html"} : Requested(file) => written[file] = Report
       /\ command.json_out \/ command.html \/ written.stdout = Report
=============================================================================
