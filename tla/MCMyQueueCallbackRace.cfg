CONSTANTS
  TotalCpus = 2
  TotalGpus = 2
  GpuGroupSplit = 1
  CpuGroupSplit = 1
  CpuRangeEnd = 3
  ExcludedCpus = {}
  ExcludedGpus = {}
  GpuMemThreshold = 2
  GpuAnswers <- MCGpuAnswers
  UtilThreshold = 50
  CheckDurationMs = 1
  CheckIntervalMs = 1
  CounterWidth = 4
  CpuSamples <- MCCpuSamples
  Requests <- MCRequests
  Clients = {}
  RequestKinds = {"del"}
  MaxTasks = 3
  MaxPids = 3
  MaxRestarts = 0
  TornSaves = FALSE
  MaxSeconds = 1
SPECIFICATION Spec
\* The daemon idles once every task has finished: its loops keep ticking.
CHECK_DEADLOCK FALSE
\* Spec section 5 orders a task's callbacks; the dispatcher notifies after
\* unlocking, so the monitor can report completion first.
INVARIANT CallbackOrder
