CONSTANTS
  CommandLines <- MCCommandLines
  SystemGpu <- MCSystemGpu
  Unknown = {"unknown"}
  Threads = 2
  NotGiven = NotGiven
  NotANumber = NotANumber
  Untouched = Untouched
  Cut = Cut
SPECIFICATION Spec
INVARIANTS ReportIsTheSingleRuns ReportsAreComplete
