------------------------------ MODULE MCMyQueue ------------------------------
(***************************************************************************)
(* Two GPUs and two CPUs, one of each per affinity group (the code's split*)
(* at GPU 4 / CPU 32 / 64 scaled to 1 / 1 / 3), so two one-GPU tasks run   *)
(* side by side and a third has to reuse what one of them released.  The  *)
(* range end 3 lies past the 2 cores, as 64 does on a smaller machine.     *)
(***************************************************************************)
EXTENDS MyQueue, TLC

MCRequests == {[ncpu |-> 1, ngpu |-> 1, cpus |-> {}, gpus |-> {}]}

\* One sample per check: a core that ran nothing for the 100 ms, or one
\* whose line is gone from /proc/stat; the check passes or fails.
\* nvidia-smi prints every GPU under the 2 MB threshold.
MCGpuAnswers == {[k \in 1 .. TotalGpus |-> <<k - 1, 0, 8>>]}

MCCpuSamples == {[listed |-> TRUE, busy |-> 0, idle |-> 2, iowait |-> 0],
                 [listed |-> FALSE, busy |-> 0, idle |-> 0, iowait |-> 0]}

=============================================================================
