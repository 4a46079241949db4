------------------------------- MODULE Ledger -------------------------------
(***************************************************************************)
(* The resource ledger of myqueue: ResourceMonitor together with the       *)
(* allocated-sets it keeps inside GPUMonitor and CPUMonitor               *)
(* (src/src/core/resource_monitor.cpp, gpu_monitor.cpp, cpu_monitor.cpp). *)
(*                                                                         *)
(* allocate() runs entirely under ResourceMonitor::mutex_, and release()  *)
(* takes the same mutex, so each is one atomic step here.  The probes it  *)
(* consults are inputs of the step:                                        *)
(*   - the answer of nvidia-smi, from which reading[g] follows: "idle" (at *)
(*     or below the memory threshold), "busy" (above it, or the            *)
(*     synthesized all-busy answer when nvidia-smi fails) or "missing" (no *)
(*     parsable line for g in the output);                                 *)
(*   - window[c] is what the CPUMonitor::getCPUUtilization calls of one    *)
(*     sustained-idle check of core c (checkCPUAvailable) read from        *)
(*     /proc/stat;                                                         *)
(*   - order is the std::shuffle of the CPU candidates.                    *)
(* Vectors of ids are sets here: their order only reaches the environment *)
(* strings of the child.                                                   *)
(***************************************************************************)
EXTENDS Integers, FiniteSets, Sequences, SequencesExt

CONSTANTS
  TotalCpus,      \* Config::total_cpus
  TotalGpus,      \* Config::total_gpus
  GpuGroupSplit,  \* getAffinityGroup: gpu_id < 4 is group 1, else group 2
  CpuGroupSplit,  \* getCPURangeForGroup: group 1 is [0, 32), group 2 [32, ..)
  CpuRangeEnd,    \* getCPURangeForGroup: upper end 64 of group 2 and group 0
  ExcludedCpus,   \* ResourceMonitor::excluded_cpus_
  ExcludedGpus,   \* ResourceMonitor::excluded_gpus_
  GpuMemThreshold,\* Config::gpu_memory_threshold_mb
  GpuAnswers,     \* the outputs nvidia-smi may give one query
  UtilThreshold,  \* Config::cpu_util_threshold, a percentage
  CheckDurationMs,\* Config::cpu_check_duration_ms
  CheckIntervalMs,\* CPUMonitor::check_interval_ms_ (500)
  CounterWidth,   \* bits of the unsigned long long jiffy counters
  CpuSamples      \* the readings one getCPUUtilization() call may make

Cpus == 0 .. TotalCpus - 1
Gpus == 0 .. TotalGpus - 1

ASSUME /\ TotalCpus \in Nat /\ TotalGpus \in Nat
       /\ CpuGroupSplit \in Nat /\ CpuRangeEnd \in Nat /\ GpuGroupSplit \in Nat
       /\ ExcludedCpus \subseteq Cpus /\ ExcludedGpus \subseteq Gpus
       /\ GpuMemThreshold \in Nat
       /\ UtilThreshold \in Nat /\ CounterWidth \in Nat
       /\ CheckDurationMs \in Nat /\ CheckIntervalMs \in Nat \ {0}

\* A SubmitRequest as far as allocation sees it (ncpu, ngpu, specific_cpus,
\* specific_gpus); the script, workdir and log file are left out.
Request == [ncpu : Nat, ngpu : Nat, cpus : SUBSET Cpus, gpus : SUBSET Gpus]

VARIABLES
  allocatedCpus,  \* CPUMonitor::allocated_cpus_
  allocatedGpus   \* GPUMonitor::allocated_gpus_

ledgerVars == <<allocatedCpus, allocatedGpus>>

LedgerInit == allocatedCpus = {} /\ allocatedGpus = {}

-----------------------------------------------------------------------------
(* Affinity helpers (CPUMonitor::getAffinityGroup, getCPURangeForGroup).  *)

GetAffinityGroup(g) == IF g < GpuGroupSplit THEN 1 ELSE 2

\* Mutation: the range without the clip to total_cpus.
CpuRangeForGroupUnclipped(grp) ==
  LET lo == IF grp = 2 THEN CpuGroupSplit ELSE 0
      hi == IF grp = 1 THEN CpuGroupSplit ELSE CpuRangeEnd
  IN  lo .. (hi - 1)

\* The cores of a group, with the upper end clipped to total_cpus as
\* getAvailableCPUs does.
CpuRangeForGroup(grp) ==
  LET lo == IF grp = 2 THEN CpuGroupSplit ELSE 0
      hi == IF grp = 1 THEN CpuGroupSplit ELSE CpuRangeEnd
  IN  {c \in lo .. (hi - 1) : c < TotalCpus}

\* Mutation: every placement falls back to group 0 (all cores).
DetermineAffinityGroupAll(gpus) == 0

DetermineAffinityGroup(gpus) ==
  LET has1 == \E g \in gpus : GetAffinityGroup(g) = 1
      has2 == \E g \in gpus : GetAffinityGroup(g) # 1
  IN  IF gpus = {} \/ (has1 /\ has2) THEN 0
      ELSE IF has1 THEN 1 ELSE 2

-----------------------------------------------------------------------------
(* GPU probe (GPUMonitor::executeNvidiaSmi, parseNvidiaSmiOutput,          *)
(* queryGPUs).  An answer is the sequence of lines nvidia-smi printed,     *)
(* <<>> when popen or the command failed (executeNvidiaSmi returns "").    *)
(* A line is the sequence of its comma-separated fields, trimmed: a       *)
(* natural number, or Junk (-1 here) for a field std::stoi/stoul cannot   *)
(* convert (such as "[N/A]").                                              *)

Junk == -1

\* executeNvidiaSmi(): "" when popen fails or nvidia-smi exits non-zero.
NoAnswer == <<>>

\* The switch converts fields 0-2 and ignores the rest; a field that throws
\* ends the line, and only a line with all three fields converted is kept.
LineParses(l) == Len(l) >= 3 /\ \A k \in 1 .. 3 : l[k] # Junk

\* parseNvidiaSmiOutput(): the kept lines, in order, as GPUInfo
\* <<device_id, memory_used_mb, memory_total_mb>>.
ParseNvidiaSmiOutput(out) == SelectSeq(out, LineParses)

\* is_busy = memory_used_mb > memory_threshold_mb_.
InfoBusy(info) == info[2] > GpuMemThreshold

\* queryGPUs(): an empty output gives total_gpus synthesized entries with
\* threshold+1 MB used, busy; otherwise the parsed lines.
QueryGPUs(out) ==
  IF out = NoAnswer THEN [k \in 1 .. TotalGpus |-> <<k - 1, GpuMemThreshold + 1, 0>>]
  ELSE ParseNvidiaSmiOutput(out)

\* What an answer says of each GPU: the first entry with its device_id
\* decides (both getAvailableGPUs and isGPUBusy stop at the first match);
\* a GPU with no entry is "missing".  isGPUBusy parses the raw output, so
\* on an empty one it finds nothing and says busy, as the synthesized
\* entries do.
Reading(out) ==
  [g \in Gpus |->
     LET found == SelectSeq(QueryGPUs(out), LAMBDA info : info[1] = g)
     IN  IF found = <<>> THEN "missing"
         ELSE IF InfoBusy(found[1]) THEN "busy" ELSE "idle"]

-----------------------------------------------------------------------------
(* GPU phase (GPUMonitor::isGPUBusy, getAvailableGPUs,                    *)
(* ResourceMonitor::allocateGPUs).                                         *)

\* Mutation: a named GPU is judged by the query alone, not by the ledger.
IsGPUBusyIgnoringLedger(g, reading) == reading[g] # "idle"

\* A GPU asked for by id is busy when allocated, over threshold, or absent
\* from the nvidia-smi answer.
IsGPUBusy(g, reading) == g \in allocatedGpus \/ reading[g] # "idle"

\* Auto placement scans 0 .. total_gpus-1; a GPU without a line in the
\* answer is judged by the allocation check alone.
AvailableGPUs(reading) ==
  {g \in Gpus : g \notin allocatedGpus /\ reading[g] \in {"idle", "missing"}}

\* Mutation: the scan stops one GPU late.
FirstNOneLate(S, n) == {x \in S : Cardinality({y \in S : y < x}) <= n}

\* The n smallest elements of S.
FirstN(S, n) == {x \in S : Cardinality({y \in S : y < x}) < n}

AllocateGPUs(ngpu, specific, reading) ==
  IF specific # {}
  THEN IF \E g \in specific : g \in ExcludedGpus \/ IsGPUBusy(g, reading)
       THEN {}
       ELSE specific
  ELSE LET avail == AvailableGPUs(reading) \ ExcludedGpus
       IN  IF Cardinality(avail) < ngpu THEN {} ELSE FirstN(avail, ngpu)

GpuPhaseFails(req, gpus) ==
  \/ req.gpus # {} /\ Cardinality(gpus) # Cardinality(req.gpus)
  \/ req.gpus = {} /\ Cardinality(gpus) < req.ngpu

-----------------------------------------------------------------------------
(* CPU phase (CPUMonitor::getAvailableCPUs, checkCPUAvailable,            *)
(* ResourceMonitor::allocateCPUs).                                         *)

AvailableCPUs(grp) == {c \in CpuRangeForGroup(grp) : c \notin allocatedCpus}

CpuCandidates(grp) == AvailableCPUs(grp) \ ExcludedCpus

-----------------------------------------------------------------------------
(* CPU probe.  A sample is what one getCPUUtilization() call reads:       *)
(* whether the core had a parsable "cpuN" line in both of its reads of     *)
(* /proc/stat, and how far the CPUStats counters advanced between them:   *)
(* busy (user+nice+system+irq+softirq+steal), idle and iowait.             *)

Sample(busy, idle, iowait) == [listed |-> TRUE, busy |-> busy, idle |-> idle, iowait |-> iowait]
Gone == [listed |-> FALSE, busy |-> 0, idle |-> 0, iowait |-> 0]
CounterMod == 2 ^ CounterWidth

\* readProcStat()/parseCPULine(): the core is a key of both maps.
CoreListed(s) == s.listed

\* calculateUtilization(): total() and idleTime() differences in unsigned
\* arithmetic, 0 when total_diff is 0, clamped to [0, 100].  The result is
\* compared with the threshold as util * total_diff, to stay in integers.
TotalDiff(s) == (s.busy + s.idle + s.iowait) % CounterMod
ActiveDiff(s) == (TotalDiff(s) - (s.idle + s.iowait)) % CounterMod
UtilAtOrAbove(s, thr) ==
  LET clamped == IF ActiveDiff(s) > TotalDiff(s) THEN TotalDiff(s) ELSE ActiveDiff(s)
  IN  IF TotalDiff(s) = 0 THEN 0 >= thr ELSE 100 * clamped >= thr * TotalDiff(s)

\* getCPUUtilization() fails the check when it returns -1 (core not found)
\* or a utilisation at or above the threshold.
SampleFails(s) == ~CoreListed(s) \/ UtilAtOrAbove(s, UtilThreshold)

\* check_count = check_duration_ms_ / check_interval_ms_, at least 1.
CheckCount == IF CheckDurationMs \div CheckIntervalMs < 1 THEN 1
              ELSE CheckDurationMs \div CheckIntervalMs

\* The readings one check of a core may make, one per sample it takes.
CpuWindows == [1 .. CheckCount -> CpuSamples]

\* Mutation: the loop stops one sample early.
SustainedIdleOneShort(w) == \A k \in 1 .. CheckCount - 1 : ~SampleFails(w[k])

\* The sampling loop of checkCPUAvailable: every sample must pass; the
\* first that fails ends it.
SustainedIdle(w) == \A k \in 1 .. CheckCount : ~SampleFails(w[k])

CheckCPUAvailable(c, window) == c \notin allocatedCpus /\ SustainedIdle(window[c])

\* Walk the shuffled candidates, taking each one that passes the sustained
\* idle check, until n are taken.
RECURSIVE PickIdle(_, _, _)
PickIdle(order, n, window) ==
  IF order = <<>> \/ n = 0 THEN {}
  ELSE IF SustainedIdle(window[Head(order)])
       THEN {Head(order)} \cup PickIdle(Tail(order), n - 1, window)
       ELSE PickIdle(Tail(order), n, window)

\* The cores allocateCPUs returns; an auto pick that falls short of ncpu is
\* released again and reported as {}.
AllocateCPUs(ncpu, grp, specific, window, order) ==
  IF specific # {}
  THEN IF \E c \in specific : c \in ExcludedCpus \/ ~CheckCPUAvailable(c, window)
       THEN {}
       ELSE specific
  ELSE IF Cardinality(CpuCandidates(grp)) < ncpu THEN {}
       ELSE LET picked == PickIdle(order, ncpu, window)
            IN  IF Cardinality(picked) < ncpu THEN {} ELSE picked

CpuPhaseFails(req, cpus) ==
  \/ req.cpus # {} /\ Cardinality(cpus) # Cardinality(req.cpus)
  \/ req.cpus = {} /\ Cardinality(cpus) < req.ncpu

-----------------------------------------------------------------------------
(* ResourceMonitor::allocate: the outcome of one call, with the ledger it  *)
(* leaves behind.  gpus/cpus are the sets each phase marked; on a CPU      *)
(* failure the GPUs of the first phase are rolled back.                   *)

GpuPhaseRuns(req) == req.ngpu > 0 \/ req.gpus # {}
CpuPhaseRuns(req) == req.ncpu > 0 \/ req.cpus # {}

GpuPhase(req, reading) ==
  IF GpuPhaseRuns(req) THEN AllocateGPUs(req.ngpu, req.gpus, reading) ELSE {}

\* The candidates the CPU phase shuffles, given the GPUs of the first phase.
CpuShuffleSet(req, reading) ==
  CpuCandidates(DetermineAffinityGroup(GpuPhase(req, reading)))

\* CPUMonitor::allocateCPUs and GPUMonitor::allocateGPUs: insert each id
\* into the allocated set, under the monitor's own mutex.
MarkCPUs(ids) == allocatedCpus \cup ids
MarkGPUs(ids) == allocatedGpus \cup ids

\* One outcome of allocate(): the sets returned, the ledger left behind, and
\* (for the record) what the GPU query said about each GPU returned and
\* what the sustained-idle check read on each core returned.
Outcome(ok, cpus, gpus, ledgerCpus, ledgerGpus, reading, window) ==
  [ok |-> ok, cpus |-> cpus, gpus |-> gpus,
   ledgerCpus |-> ledgerCpus, ledgerGpus |-> ledgerGpus,
   seen |-> [g \in gpus |-> reading[g]], sampled |-> [c \in cpus |-> window[c]]]

\* Mutation: a CPU-phase failure returns without rolling back the GPUs.
AllocateNoGpuRollback(req, reading, window, order) ==
  LET gpus    == GpuPhase(req, reading)
      gpuFail == GpuPhaseRuns(req) /\ GpuPhaseFails(req, gpus)
      grp     == DetermineAffinityGroup(gpus)
      cpus    == IF CpuPhaseRuns(req)
                 THEN AllocateCPUs(req.ncpu, grp, req.cpus, window, order)
                 ELSE {}
      cpuFail == CpuPhaseRuns(req) /\ CpuPhaseFails(req, cpus)
  IN  CASE gpuFail ->
             Outcome(FALSE, {}, {}, allocatedCpus, MarkGPUs(gpus), reading, window)
        [] cpuFail ->
             Outcome(FALSE, {}, {}, MarkCPUs(cpus), MarkGPUs(gpus), reading, window)
        [] OTHER ->
             Outcome(TRUE, cpus, gpus, MarkCPUs(cpus), MarkGPUs(gpus), reading, window)

Allocate(req, reading, window, order) ==
  LET gpus    == GpuPhase(req, reading)
      gpuFail == GpuPhaseRuns(req) /\ GpuPhaseFails(req, gpus)
      grp     == DetermineAffinityGroup(gpus)
      cpus    == IF CpuPhaseRuns(req)
                 THEN AllocateCPUs(req.ncpu, grp, req.cpus, window, order)
                 ELSE {}
      cpuFail == CpuPhaseRuns(req) /\ CpuPhaseFails(req, cpus)
  IN  CASE gpuFail ->
             Outcome(FALSE, {}, {}, allocatedCpus, MarkGPUs(gpus), reading, window)
        [] cpuFail ->
             Outcome(FALSE, {}, {}, MarkCPUs(cpus), MarkGPUs(gpus) \ gpus, reading, window)
        [] OTHER ->
             Outcome(TRUE, cpus, gpus, MarkCPUs(cpus), MarkGPUs(gpus), reading, window)

\* The set of outcomes one allocate(req) call can have, over every probe
\* answer and every shuffle.  Only the cores the CPU phase can test (the
\* shuffled candidates or the named ones) are sampled.  One nvidia-smi
\* answer serves the whole call, though isGPUBusy queries once per named
\* GPU: GpuAnswers offers every combination of per-GPU lines, so one answer
\* reaches every combination of verdicts the separate queries can.
AllocateOutcomes(req) ==
  UNION { UNION { { Allocate(req, reading, window, order) :
                      order \in SetToSeqs(CpuShuffleSet(req, reading)) } :
                  window \in [CpuShuffleSet(req, reading) \cup req.cpus -> CpuWindows] } :
          reading \in {Reading(out) : out \in GpuAnswers} }

\* Mutation: release() frees the GPUs and forgets the CPUs.
ReleaseGpusOnly(cpus, gpus) ==
  /\ allocatedCpus' = allocatedCpus
  /\ allocatedGpus' = allocatedGpus \ gpus

\* CPUMonitor::releaseCPUs and GPUMonitor::releaseGPUs: erase each id.
ReleaseCPUs(ids) == allocatedCpus' = allocatedCpus \ ids
ReleaseGPUs(ids) == allocatedGpus' = allocatedGpus \ ids

\* ResourceMonitor::release: the CPUs, then the GPUs.
Release(cpus, gpus) == ReleaseCPUs(cpus) /\ ReleaseGPUs(gpus)

=============================================================================
