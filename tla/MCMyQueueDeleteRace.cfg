CONSTANTS
  TotalCpus = 2
  TotalGpus = 2
  GpuGroupSplit = 1
  CpuGroupSplit = 1
  CpuRangeEnd = 3
  ExcludedCpus = {}
  ExcludedGpus = {}
  GpuMemThreshold = 2
  GpuAnswers <- MCGpuAnswers
  UtilThreshold = 50
  CheckDurationMs = 1
  CheckIntervalMs = 1
  CounterWidth = 4
  CpuSamples <- MCCpuSamples
  Requests <- MCRequests
  Clients = {c1}
  RequestKinds = {"del"}
  MaxTasks = 2
  MaxPids = 2
  MaxRestarts = 0
  TornSaves = FALSE
  MaxSeconds = 0
SPECIFICATION Spec
\* The daemon idles once every task has finished: its loops keep ticking.
CHECK_DEADLOCK FALSE
INVARIANT LedgerMatchesRunningTasks
