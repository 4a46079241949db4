CONSTANTS
  TotalCpus = 4
  TotalGpus = 4
  GpuGroupSplit = 2
  CpuGroupSplit = 2
  CpuRangeEnd = 5
  ExcludedCpus = {3}
  ExcludedGpus = {}
  GpuMemThreshold = 2
  GpuAnswers <- MCGpuAnswersNA
  UtilThreshold = 50
  CheckDurationMs = 2
  CheckIntervalMs = 1
  CounterWidth = 4
  CpuSamples <- MCCpuSamples
  h1 = h1
  h2 = h2
  h3 = h3
  NoAlloc = NoAlloc
  Holders <- MCHolders
  Requests <- MCRequests
SPECIFICATION Spec
INVARIANT PlacesOnlyReportedIdleGpus
