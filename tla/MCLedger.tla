------------------------------ MODULE MCLedger ------------------------------
(***************************************************************************)
(* A scaled-down dual-socket topology: GPUs 0-1 and CPUs 0-1 form group 1,*)
(* GPUs 2-3 and CPUs 2-3 form group 2 (the code's split at GPU 4 / CPU 32 *)
(* / 64, scaled to 2 / 2 / 5).  The range end 5 lies past the 4 cores, as *)
(* 64 does on a smaller machine, so the clip to total_cpus is exercised.   *)
(* CPU 3 is excluded, so group 2 has a single candidate core and a 2-core *)
(* request can only be met from group 0.  A sustained-idle check takes    *)
(* two samples (duration 2, interval 1); a sample shows a core quiet, or  *)
(* exactly at the 50% threshold.  nvidia-smi either fails or prints one    *)
(* line per GPU, with memory exactly at the 2 MB threshold (idle) or one  *)
(* MB over it (busy).                                                      *)
(***************************************************************************)
EXTENDS LedgerClients, TLC

CONSTANTS h1, h2, h3

MCHolders == {h1, h2, h3}

MCRequests ==
  { [ncpu |-> 1, ngpu |-> 1, cpus |-> {},  gpus |-> {}],    \* auto, one of each
    [ncpu |-> 2, ngpu |-> 0, cpus |-> {},  gpus |-> {}],    \* CPUs only, group 0
    [ncpu |-> 1, ngpu |-> 3, cpus |-> {},  gpus |-> {}],    \* GPUs span both groups
    [ncpu |-> 0, ngpu |-> 0, cpus |-> {2}, gpus |-> {1}] }  \* explicit, cross-group

MCGpuAnswers ==
  {<<>>} \cup
  { [k \in 1 .. TotalGpus |-> <<k - 1, used[k], 8>>] : used \in [1 .. TotalGpus -> {2, 3}] }

\* As MCGpuAnswers, with lines whose memory.used reads "[N/A]".
MCGpuAnswersNA ==
  {<<>>} \cup
  { [k \in 1 .. TotalGpus |-> <<k - 1, used[k], 8>>] : used \in [1 .. TotalGpus -> {2, 3, Junk}] }

MCCpuSamples == {Sample(0, 2, 0), Sample(1, 1, 0)}

=============================================================================
